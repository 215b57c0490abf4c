CONSTANTS
    c1 = c1
    c2 = c2
    a1 = a1
    a2 = a2
    Requests = {c1, c2}
    Leases = {a1, a2}
    None = None
    MaxRestarts = 1
    Slots = {1, 2}
    MaxChanges = 3
    MaxStops = 1
    MaxFails = 1
SPECIFICATION MCSpec
CHECK_DEADLOCK FALSE
INVARIANTS
    AnsweredOnce
    AssertionSpendsLease
    NothingInTheWay
    ChangeNotForgotten
PROPERTIES
    EveryCeremonyEnds
    EventuallyPublished
