CONSTANTS
    h1 = h1
    h2 = h2
    w1 = w1
    Hosts = {h1, h2}
    Sizes = {1, 2}
    Keep = 2
    MaxBlobs = 3
    MaxBytes = 4
    Ttl = 3
    MaxCounter = 3
    MaxTime = 5
    r1 = r1
    r2 = r2
    Requests = {r1, r2}
    WorkerHosts = {w1}
    WorkerSizes = {1}
    WorkerKeep = 3
    WorkerBlobs = 2
    WorkerBytes = 1
    WorkerCounter = 5
    MaxBody = 2
    Overlap = 2
    MaxCuts = 1
    MaxLate = 1
    Addresses = {"a1", "a2"}
    Rooms = {"room1", "room2", "room3", "room4"}
    Admitted = {"room1", "room2", "room3"}
    Token = 2
    IpCapacity = 1
    RoomCapacity = 2
    MaxBuckets = 2
    GateTime = 5
    DropCounter = 2
    MaxFaults = 2
SPECIFICATION MCSpec
SYMMETRY MCSymmetry
CHECK_DEADLOCK FALSE
INVARIANTS
    RoomsWithinQuota
    PutsAreListed
    LimitsAreExact
    NeverBehind
PROPERTIES
    HostKeepsNewest
