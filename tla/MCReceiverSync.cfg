CONSTANTS
    c1 = c1
    c2 = c2
    v1 = v1
    v2 = v2
    Cookies = {c1, c2}
    SessionCookies = {c1}
    Values = {v1}
    NoCookie = NoCookie
    None = None
    SnapshotTtl = 0
    MaxJump = 5
    MaxCounter = 2
    MaxTime = 1
    MaxBrowser = 2
SPECIFICATION Spec
INVARIANTS
    JournalCovers
    LogoutReachesReceiver
PROPERTIES
    NeverRollsBack
