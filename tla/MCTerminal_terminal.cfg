\* A guest and the administrator, three views counted; the help, like what a
\* search finds, is a page without a source, and has the address of one.
CONSTANTS
    Sessions = {guest, admin}
    Admins = {admin}
    Paths <- MCPaths
    HiddenPaths = {".header"}
    FilePaths = {"posts/cat.png"}
    BinaryPaths = {"posts/cat.png"}
    ScriptPaths = {"game.cgi"}
    NotePaths = {"now/a.gmi"}
    Texts = {"", "old"}
    Empty = ""
    Urls <- MCUrls
    Home = "/"
    Search = "/search"
    Help = "/search"
    AnswersTo <- MCAnswersTo
    UrlOf <- MCUrlOf
    Keys <- MCKeys
    CountKey <- MCCountKey
    ClearedKey <- MCClearedKey
    Below <- MCBelow
    SlashOf <- MCSlashOf
    FirstPages <- MCFirstPages
    NewPaths = {"now/a.gmi", "posts.gmi", "posts/index.gmi"}
    MaxViews = 3
    NoPage = NoPage
    NoPath = NoPath
    NoUrl = NoUrl
SPECIFICATION MCSpec
INVARIANTS ViewsAreOfPeople
PROPERTIES DiscardsAreWarned VisitorsOnlyRead
CHECK_DEADLOCK FALSE
