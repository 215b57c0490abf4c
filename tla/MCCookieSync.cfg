CONSTANTS
    c1 = c1
    c2 = c2
    v1 = v1
    r1 = r1
    Cookies = {c1}
    SessionCookies = {c1}
    Values = {v1}
    NoCookie = NoCookie
    None = None
    SnapshotTtl = 0
    Receiver = r1
    RefreshAge = 1
    Keep = 2
    MaxJump = 5
    MaxCounter = 4
    MaxTime = 1
    MaxBrowser = 2
    MaxChanges = 1
    MaxFaults = 1
SPECIFICATION FairSpec
PROPERTIES
    ImplementsReceiver
    EventuallyMirrors
