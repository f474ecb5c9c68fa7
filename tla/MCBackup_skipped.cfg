\* A restore that replaces, one of whose entries cannot be read.
CONSTANTS
    Paths = {"/a", "/b"}
    HiddenPaths = {}
    Contents = {c1, c2}
    Mimes = {"text"}
    DraftPaths = {}
    HitKeys = {"/a", "/b"}
    HitKey <- MCHitKey
    KVKeys = {}
    KVValues = {}
    ScriptPaths = {}
    KeepVersions = 1
    PageIds = {1, 2}
    VersionIds = {1, 2}
    DraftVersionIds = {1}
    Times = {0}
    StampsOutOfOrder = FALSE
    MaxHits = 0
    MimeFor <- MCMimeFor
    PrivateContents = {}
    ReadsFail = FALSE
    EntriesFail = TRUE
    NoPage = NoPage
    NoDraft = NoDraft
    NoRow = NoRow
    NoValue = NoValue
    NoDump = NoDump
    NoArchive = NoArchive
    NoRestore = NoRestore
SPECIFICATION MCSpec
PROPERTIES OnlyMissingPagesAreDeleted
SYMMETRY PublicContentsAlike
\* the bounds on row ids end a behaviour
CHECK_DEADLOCK FALSE
