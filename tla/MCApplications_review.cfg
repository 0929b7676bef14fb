\* Two admins review the application of a user who keeps trying.
CONSTANTS
    olena = olena
    petro = petro
    uliana = uliana
    nobody = nobody
    People = {olena, petro, uliana}
    Admins = {olena, petro}
    Applicants = {uliana}
    Nobody = nobody
    ChannelSet = TRUE
    MaxApp = 1
    MaxCards = 1
    MaxTold = 1
SPECIFICATION FairSpec
INVARIANTS TypeOK UploadsToOwn DecisionTold
PROPERTIES ReopenedOnRequest RequestsAnswered
