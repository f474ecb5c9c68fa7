\* Two runs at once of a script that may keep one key and uses three, or two
\* visits at once of an address whose three scripts come and go, while the store
\* may fail them.
CONSTANTS
    Paths = {"/x.gmi.cgi", "/x.txt.cgi", "/x.cgi", "/away"}
    HiddenPaths = {}
    Contents = {"code"}
    Mimes = {"text"}
    HitKeys = {"/x.gmi.cgi", "/x.txt.cgi", "/x.cgi", "/away"}
    DraftPaths = {}
    HitKey <- MCHitKey
    KVKeys = {k1, k2, k3}
    KVValues = {0, 1, 2}
    KeepVersions = 1
    PageIds = {1, 2, 3}
    VersionIds = {1}
    DraftVersionIds = {1}
    Times = {0}
    StampsOutOfOrder = FALSE
    MaxHits = 0
    NoPage = NoPage
    NoDraft = NoDraft
    NoRow = NoRow
    NoValue = NoValue
    Urls = {"/x"}
    Candidates <- MCCandidates
    Edited = {"/x.gmi.cgi", "/x.txt.cgi", "/x.cgi", "/away"}
    Runs = {r1, r2}
    StoreFails = TRUE
    MaxKeys = 1
    MaxValue = 2
SPECIFICATION MCSpec
INVARIANTS LimitHoldsButForOverlap CountsAddUp KeysGoWithTheScript FormatIsOfTheScript
SYMMETRY Symmetry
CHECK_DEADLOCK FALSE
