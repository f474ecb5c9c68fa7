\* Pages, search and history: a visible path and a hidden one, text and binary
\* pages, two versions kept, stamps in any order, one key of script data.
CONSTANTS
    Paths = {"/a", "/.h"}
    HiddenPaths = {"/.h"}
    Contents = {c1, c2}
    Mimes = {"text", "binary"}
    DraftPaths = {}
    HitKeys = {"/a", "/.h"}
    HitKey <- MCHitKey
    KVKeys = {k1}
    KVValues = {v1}
    KeepVersions = 2
    PageIds = {1, 2}
    VersionIds = {1, 2, 3}
    DraftVersionIds = {}
    Times = {0, 1}
    StampsOutOfOrder = TRUE
    MaxHits = 0
    NoPage = NoPage
    NoDraft = NoDraft
    NoRow = NoRow
    NoValue = NoValue
SPECIFICATION Spec
INVARIANTS TypeOK IndexConsistent TitlesBelongToNames
PROPERTIES OnlyOldVersionsArePruned ImplementsPublishedSite
\* the bounds on row ids, counters and the clock end a behaviour
CHECK_DEADLOCK FALSE
