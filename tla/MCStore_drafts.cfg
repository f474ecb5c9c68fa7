\* Drafts and counters beside pages: a path with a key of its own in the hits table,
\* two that share one, one snapshot of each kind kept, stamps in order.
CONSTANTS
    Paths = {"/a", "/f", "/f.gmi"}
    HiddenPaths = {}
    Contents = {c1, c2}
    Mimes = {"text"}
    DraftPaths = {"/a"}
    HitKeys = {"/a", "/f"}
    HitKey <- MCHitKey
    KVKeys = {}
    KVValues = {}
    KeepVersions = 1
    PageIds = {1, 2}
    VersionIds = {1, 2}
    DraftVersionIds = {1, 2}
    Times = {0, 1}
    StampsOutOfOrder = FALSE
    MaxHits = 2
    NoPage = NoPage
    NoDraft = NoDraft
    NoRow = NoRow
    NoValue = NoValue
SPECIFICATION Spec
INVARIANTS DraftHistoryHasDraft
PROPERTIES SurvivingPageKeepsItsViews OverwrittenContentIsKept
\* the bounds on row ids, counters and the clock end a behaviour
CHECK_DEADLOCK FALSE
