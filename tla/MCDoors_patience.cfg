\* One source that keeps three attempts going and locks itself out after three
\* failures; three visitors for two slots; a page that asks for releases.
CONSTANTS
    Parts = {"limiter", "telnet", "updates"}
    Sources = {s1}
    Attempts = {1, 2, 3}
    MaxFails = 3
    Window = 2
    Lag = 1
    Oldest = 6
    Clients = {c1, c2}
    Codes = {k1, k2}
    Exchanges = {e1, e2}
    Redirects <- MCRedirects
    AllowedHosts = {"agent"}
    OwnHosts = {"site"}
    Onions = {}
    Loopback = {"localhost"}
    CodeTTL = 1
    AccessTTL = 1
    RefreshTTL = 2
    MaxTime = 2
    MaxSecret = 2
    NoCode = NoCode
    Conns = {t1, t2, t3}
    MaxSessions = 2
    IdleTimeout = 1
    SessionLimit = 2
    Bytes = {"NUL", "NAWS", "IAC", "SB", "SE", "DO"}
    SubBytes = {"NUL", "NAWS", "IAC", "SE"}
    MaxStream = 3
    MaxInSub = 9
    Pages = {p1}
    Refreshes = {g1, g2}
    Releases = {1, 2}
    CheckTTL = 2
    RetryTTL = 1
    NoteIds = {n1, n2, n3}
    MaxPosts = 2
    Zones = {"site", "server"}
    ZoneShift = 1
    MinuteLen = 2
    DayLen = 2
    MaxClock = 3
    MaxNumber = 3
    Lines = {plain, own}
    DefaultLines = plain
    Clicks = {f1, f2}
    Off = Off
SPECIFICATION FairSpec
INVARIANTS SlotsAreSessions OneRefreshAtATime
PROPERTIES LocksLapse EverySessionEnds NewsArrives
