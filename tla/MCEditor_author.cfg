\* One author who takes care, in one tab, beside the other doors.
CONSTANTS
    Paths = {"/a.gmi", "/b", "/b.gmi"}
    Names = {"/a.gmi", "/b"}
    HiddenPaths = {}
    Contents = {w1, w2, o1}
    Mimes = {"text"}
    HitKeys = {"/a.gmi", "/b", "/b.gmi"}
    DraftPaths = {"/a.gmi", "/b", "/b.gmi"}
    HitKey <- MCHitKey
    KVKeys = {}
    KVValues = {}
    KeepVersions = 0
    PageIds = {1, 2}
    VersionIds = {1, 2}
    DraftVersionIds = {1}
    Times = {0}
    StampsOutOfOrder = FALSE
    MaxHits = 0
    Tabs = {t1}
    Requests = {1, 2}
    Words = {w1, w2}
    PrivateWords = {w2}
    OtherWords = {o1}
    WithExt <- MCWithExt
    RestoreIds = {1}
    Addresses <- MCAddresses
    Precautions = {"answers", "waits", "looks", "matches"}
    FailingCalls = {"rename", "write", "clear", "confirm"}
    NoPage = NoPage
    NoDraft = NoDraft
    NoRow = NoRow
    NoValue = NoValue
    NoTab = NoTab
    NoName = NoName
    NoWords = NoWords
SPECIFICATION EditorSpec
INVARIANTS EditorTypeOK WordsAreHere UnpublishedStaysPrivate
PROPERTIES ConfirmedMeansStored NoDraftLeftBehind
\* the bounds on row ids end a behaviour
CHECK_DEADLOCK FALSE
