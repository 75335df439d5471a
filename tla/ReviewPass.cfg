SPECIFICATION FairSpec
CONSTANTS
    None = None
    Workers = {p1}
    AttemptLimit = 3
    GateLimit = 2
    DispatchLimit = 2
    MaxFaults = 1
INVARIANTS
    TypeOK
    SpendingBounded
    ReviewedIsRendered
PROPERTIES
    StoppedStays
    RequestOutlivesItsRun
    ReviewSettles
CHECK_DEADLOCK FALSE
