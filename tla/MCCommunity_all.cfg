\* A member who joins and writes, and an admin; overlapping handlers, one restart.
CONSTANTS
    olena = olena
    petro = petro
    hello = hello
    link = link
    news = news
    notice = notice
    command = command
    post = post
    student = student
    supervisor = supervisor
    norole = norole
    notag = notag
    everyone = everyone
    h1 = h1
    h2 = h2
    Members = {olena, petro}
    Roles = {student, supervisor}
    NoRole = norole
    NoTag = notag
    SuperAdmins = {olena}
    Handlers = {h1, h2}
    Messages = {hello, link, news, notice, command, post}
    Links = {link, news, command, post}
    Notices = {notice}
    Commands = {command}
    Channels = {post}
    Author <- AuthorOf
    ChatAdmins = {olena}
    Keys = {"duration"}
    Everyone = everyone
    Budgets <- Scenes
SPECIFICATION MCSpec
INVARIANTS TypeOK LinksRemoved RemovedNotTracked WarningsPass ReportIsTrue
PROPERTIES TagOnRecord OnlyAdminsAct
CHECK_DEADLOCK FALSE
