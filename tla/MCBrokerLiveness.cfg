SPECIFICATION FairSpec
CONSTANTS
    None = None
    Connections = {c1}
    MaxConnections = 1
    MaxRequests = 2
    MaxTokens = 4
    MaxSpend = 4
    MaxConcurrent = 2
    MaxChunks = 2
    Charges <- Reported
    Unmeasured <- Standing
    DearestTokens = 2
    DearestSpend = 2
PROPERTIES
    SlotsReturn
    PassEnds
CHECK_DEADLOCK FALSE
