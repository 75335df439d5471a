SPECIFICATION Spec
CONSTANTS
    s1 = s1
    s2 = s2
    r1 = r1
    None = None
    Submissions = {s1}
    Workers = {p1, p2}
    Results = {r1}
    Existing <- FirstVersions
    Arrival <- ArrivalOrder
    Unregistrable = {}
    DayLength = 1
    MaxClock = 1
    MaxReviews = 2
    AttemptLimit = 2
    MaxFaults = 1
INVARIANTS
    PublicReviewConsented
PROPERTIES
    PublicIsPermanent
    WithdrawalStands
SYMMETRY WorkerSymmetry
CHECK_DEADLOCK FALSE
