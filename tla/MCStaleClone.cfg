SPECIFICATION Spec
CONSTANTS
    s1 = s1
    s2 = s2
    r1 = r1
    None = None
    Submissions = {s1, s2}
    Workers = {p1, p2}
    Results = {r1}
    Existing <- FirstVersions
    Arrival <- ArrivalOrder
    Unregistrable = {}
    DayLength = 2
    MaxClock = 0
    MaxReviews = 1
    AttemptLimit = 2
    MaxFaults = 0
INVARIANTS
    UniquePublicIdentity
CHECK_DEADLOCK FALSE
