\* The applicant presses /start before sending a document.
CONSTANTS
    olena = olena
    petro = petro
    uliana = uliana
    nobody = nobody
    People = {petro, uliana}
    Admins = {petro}
    Applicants = {uliana}
    Nobody = nobody
    ChannelSet = TRUE
    MaxApp = 1
    MaxCards = 1
    MaxTold = 1
SPECIFICATION Spec
INVARIANT UnderReviewHasDocuments
