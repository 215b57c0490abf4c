CONSTANTS
    c1 = c1
    c2 = c2
    v1 = v1
    v2 = v2
    Cookies = {c1, c2}
    SessionCookies = {c1}
    Values = {v1}
    NoCookie = NoCookie
    None = None
    SnapshotTtl = 1
    MaxTime = 2
    MaxBrowser = 3
SPECIFICATION Spec
INVARIANTS
    RestoredOncePerProcess
