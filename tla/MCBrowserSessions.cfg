CONSTANTS
    i1 = i1
    i2 = i2
    i3 = i3
    a1 = a1
    a2 = a2
    a3 = a3
    s1 = s1
    Ids = {i1, i2, i3}
    Requesters = {a1, a2, a3}
    Services = {s1}
    MaxSessions = 2
    MaxPerRequester = 1
    MaxChanges = 3
    MaxFailures = 1
    MaxLeases = 2
    Sessions = {"e1", "e2", "e3"}
    MaxLosses = 2
SPECIFICATION MCSpec
SYMMETRY MCSymmetry
CHECK_DEADLOCK FALSE
INVARIANTS
    WithinLimits
    PublishedIsCurrent
    QuarantineHolds
