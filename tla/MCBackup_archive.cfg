\* Two paths, a content that may be published and one that may not, other doors
\* writing while a backup is taken, whose reads may fail, and while it is
\* restored, which may fail too.
CONSTANTS
    Paths = {"/a", "/b"}
    HiddenPaths = {}
    Contents = {c1, c2, w1}
    Mimes = {"text"}
    DraftPaths = {"/a"}
    HitKeys = {"/a", "/b"}
    HitKey <- MCHitKey
    KVKeys = {"k"}
    KVValues = {"v"}
    ScriptPaths = {"/b"}
    KeepVersions = 1
    PageIds = {1, 2}
    VersionIds = {1, 2}
    DraftVersionIds = {1}
    Times = {0}
    StampsOutOfOrder = FALSE
    MaxHits = 0
    MimeFor <- MCMimeFor
    PrivateContents = {w1}
    ReadsFail = TRUE
    EntriesFail = TRUE
    NoPage = NoPage
    NoDraft = NoDraft
    NoRow = NoRow
    NoValue = NoValue
    NoDump = NoDump
    NoArchive = NoArchive
    NoRestore = NoRestore
SPECIFICATION MCSpec
INVARIANTS RestoreIsFaithful DraftsStayDrafts
PROPERTIES DumpHasWhatStayed
SYMMETRY PublicContentsAlike
\* the bounds on row ids end a behaviour
CHECK_DEADLOCK FALSE
