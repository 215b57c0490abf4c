CONSTANTS
    Commands = {m, k, r}
    m = m
    k = k
    r = r
    Reads = {r}
    Cleanups = {k}
    MessageTtl = 1
    MaxStall = 1
    MaxJournal = 3
    Reserve = 2
    OtherCleanups = 1
    MaxActive = 3
    MaxTime = 2
    MaxCalls = 2
    MaxFaults = 1
SPECIFICATION FairSpec
INVARIANTS RunsOnce
PROPERTIES ImplementsService CleanupServed
CHECK_DEADLOCK FALSE
