\* Two sources, so that the failure of one sweeps away the entry of another,
\* and two attempts at once; two clients with a code each, two token requests at
\* once, and restarts that may make a second secret; subnegotiations of up to
\* eight bytes; three notes and two posts at once, in minutes of two seconds and
\* days of two minutes, with the server an hour, here a minute, ahead of the
\* site; two ways to set up a feed and two clicks at once.
CONSTANTS
    Parts = {"limiter", "oauth", "filter", "telnet", "notes", "feeds"}
    Sources = {s1, s2}
    Attempts = {1, 2}
    MaxFails = 2
    Window = 2
    Lag = 1
    Oldest = 6
    Clients = {c1, c2}
    Codes = {k1, k2}
    Exchanges = {e1, e2}
    Redirects <- MCRedirects
    AllowedHosts = {"agent"}
    OwnHosts = {"site"}
    Onions = {}
    Loopback = {"localhost"}
    CodeTTL = 1
    AccessTTL = 1
    RefreshTTL = 2
    MaxTime = 2
    MaxSecret = 2
    NoCode = NoCode
    Conns = {t1, t2, t3}
    MaxSessions = 2
    IdleTimeout = 1
    SessionLimit = 2
    Bytes = {"NUL", "NAWS", "IAC", "SB", "SE", "DO"}
    SubBytes = {"NUL", "NAWS", "IAC", "SE"}
    MaxStream = 3
    MaxInSub = 10
    Pages = {p1, p2}
    Refreshes = {g1, g2}
    Releases = {1, 2}
    CheckTTL = 2
    RetryTTL = 1
    NoteIds = {n1, n2, n3}
    MaxPosts = 2
    Zones = {"site", "server"}
    ZoneShift = 1
    MinuteLen = 2
    DayLen = 2
    MaxClock = 3
    MaxNumber = 3
    Lines = {plain, own}
    DefaultLines = plain
    Clicks = {f1, f2}
    Off = Off
SPECIFICATION Spec
INVARIANTS RefusesTheLockedOut CodeBuysOnceInTime UsableCodesAreKept TokensOutliveRestarts FilterIsExact NotesAreKept SettingsAreTheLastWord StreamIsNewestFirst
PROPERTIES ImplementsLockout
CHECK_DEADLOCK FALSE
