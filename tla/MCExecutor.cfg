CONSTANTS
    x1 = x1
    x2 = x2
    Services = {"s"}
    Sessions = {x1, x2}
    Configs = {1, 2}
    MaxRemovals = 1
    MaxEpoch = 2
    MaxFailures = 1
    MaxUpsets = 1
    Vaults = {"p", "q"}
    MaxTokens = 2
    MaxContent = 1
    Pids = {"p1", "p2", "p3"}
    MaxWrites = 3
    MaxDeaths = 1
    Accounts = {"u", "v"}
    Cookies = {"c", "d", "e"}
    MaxPin = 2
    MaxImports = 4
    Waiters = {"w1", "w2", "w3"}
    Rows = {"r", "q"}
    MaxWaits = 2
    MaxPerRequester = 1
SPECIFICATION MCSpec
SYMMETRY MCSymmetry
CHECK_DEADLOCK FALSE
INVARIANTS
    NoMixedConfiguration
    SelectedIsConnected
    DoneStays
    PinCovers
    WaitersAreServed
PROPERTIES
    CatalogIsCurrent
