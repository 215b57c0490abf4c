CONSTANTS
    x1 = x1
    x2 = x2
    Services = {"s"}
    Sessions = {x1, x2}
    Configs = {1, 2}
    MaxRemovals = 1
    MaxEpoch = 2
    MaxUpsets = 1
SPECIFICATION Spec
SYMMETRY MCSymmetry
CHECK_DEADLOCK FALSE
INVARIANTS
    RemovalIsComplete
