SPECIFICATION BoundedSpec
CONSTANTS
    scheduled = scheduled
    beside = beside
    disputed = s1
    None = None
    Submissions = {s1, s2}
    Workers = {scheduled, beside}
    MaxFaults = 1
INVARIANTS
    Inv
    RecordedIsReal
PROPERTIES
    EndedStays
    PullRequestStands
    RequestConcludes
CHECK_DEADLOCK FALSE
