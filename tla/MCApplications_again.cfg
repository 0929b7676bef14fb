\* One admin, who also applies, and a user; two applications, no channel yet.
CONSTANTS
    olena = olena
    petro = petro
    uliana = uliana
    nobody = nobody
    People = {petro, uliana}
    Admins = {petro}
    Applicants = {petro, uliana}
    Nobody = nobody
    ChannelSet = FALSE
    MaxApp = 2
    MaxCards = 1
    MaxTold = 1
SPECIFICATION Spec
INVARIANTS UploadsToOwn
PROPERTY ReopenedOnRequest
