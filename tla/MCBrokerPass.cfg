SPECIFICATION Spec
CONSTANTS
    None = None
    Connections = {c1, c2}
    MaxConnections = 2
    MaxRequests = 2
    MaxTokens = 4
    MaxSpend = 4
    MaxConcurrent = 2
    MaxChunks = 1
    Charges <- Reported
    Unmeasured <- Standing
    DearestTokens = 2
    DearestSpend = 2
INVARIANTS
    AcceptedIsAccounted
    PortOutlivesBroker
PROPERTIES
    NothingAfterClose
SYMMETRY ConnectionSymmetry
CHECK_DEADLOCK FALSE
