SPECIFICATION FairSpec
CONSTANTS
    s1 = s1
    s2 = s2
    r1 = r1
    None = None
    Submissions = {s1, s2}
    Workers = {p1}
    Results = {r1}
    Existing <- Updates
    Arrival <- ArrivalOrder
    Unregistrable = {s1}
    DayLength = 2
    MaxClock = 1
    MaxReviews = 1
    AttemptLimit = 2
    MaxFaults = 0
PROPERTIES
    PausedMakesWay
CHECK_DEADLOCK FALSE
