SPECIFICATION Spec
CONSTANTS
    s1 = s1
    s2 = s2
    r1 = r1
    None = None
    Submissions = {s1, s2}
    Workers = {p1}
    Results = {r1}
    Existing <- FirstVersions
    Arrival <- ArrivalOrder
    Unregistrable = {}
    DayLength = 2
    MaxClock = 3
    MaxReviews = 1
    AttemptLimit = 2
    MaxFaults = 2
INVARIANTS
    TypeOK
    PublicIsRecorded
    UniquePublicIdentity
    StrandedOnlyByFaults
CHECK_DEADLOCK FALSE
