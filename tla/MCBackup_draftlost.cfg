\* A restore that replaces, with a draft in the zip where there is a page now.
CONSTANTS
    Paths = {"/a", "/b"}
    HiddenPaths = {}
    Contents = {c1, c2, w1}
    Mimes = {"text"}
    DraftPaths = {"/a"}
    HitKeys = {"/a", "/b"}
    HitKey <- MCHitKey
    KVKeys = {}
    KVValues = {}
    ScriptPaths = {}
    KeepVersions = 1
    PageIds = {1, 2}
    VersionIds = {1, 2}
    DraftVersionIds = {1}
    Times = {0}
    StampsOutOfOrder = FALSE
    MaxHits = 0
    MimeFor <- MCMimeFor
    PrivateContents = {w1}
    ReadsFail = FALSE
    EntriesFail = FALSE
    NoPage = NoPage
    NoDraft = NoDraft
    NoRow = NoRow
    NoValue = NoValue
    NoDump = NoDump
    NoArchive = NoArchive
    NoRestore = NoRestore
SPECIFICATION MCSpec
INVARIANTS RestoredDraftsSurvive
SYMMETRY PublicContentsAlike
\* the bounds on row ids end a behaviour
CHECK_DEADLOCK FALSE
