CONSTANTS
    d1 = d1
    d2 = d2
    s1 = s1
    s2 = s2
    Devices = {d1, d2}
    Contents = {s1, s2}
    None = None
    RefreshAge = 1
    MaxCounter = 2
    MaxTime = 1
    Cookies = {"c1", "c2"}
    SessionCookies = {"c1"}
    Values = {"v1"}
    NoCookie = NoCookie
    SnapshotTtl = 1
    RecoveryTime = 2
    MaxBrowser = 3
    i1 = i1
    i2 = i2
    i3 = i3
    p1 = p1
    p2 = p2
    p3 = p3
    Invites = {i1, i2, i3}
    Receivers = {p1, p2, p3}
    MaxLive = 2
    MaxPaired = 2
    InviteTtl = 2
    PairingTime = 3
SPECIFICATION MCSpec
SYMMETRY MCSymmetry
CHECK_DEADLOCK FALSE
INVARIANTS
    CounterNamesOneSnapshot
    NewestNotLost
    RestartIsNoLogout
    PairingIsExclusive
PROPERTIES
    RevokedIsSilent
    ImplementsLedger
    LogoutStands
