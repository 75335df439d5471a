SPECIFICATION ServingSpec
CONSTANTS
    None = None
    Connections = {c1, c2, c3, c4}
    MaxConnections = 3
    MaxRequests = 3
    MaxTokens = 2
    MaxSpend = 2
    MaxConcurrent = 2
    MaxChunks = 1
    Charges <- Reported
    Unmeasured <- Standing
    DearestTokens = 2
    DearestSpend = 2
INVARIANTS
    BrokerInv
    StartedIsChargedOnce
    OvershootBounded
    FailuresRecorded
PROPERTIES
    Metered
SYMMETRY ConnectionSymmetry
CHECK_DEADLOCK FALSE
