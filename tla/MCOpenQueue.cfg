SPECIFICATION ListedSpec
CONSTANTS
    None = None
    schedule = schedule
    beside = beside
    failing = failing
    pausing = pausing
    Submissions = {failing, pausing}
    Turns <- TurnsOfEach
    Workers = {schedule, beside}
    Jobs <- JobsByThread
    MaxFaults = 1
INVARIANTS
    TypeOK
    UnfinishedIsListed
    SentOnce
PROPERTIES
    SweepIsRecorded
CHECK_DEADLOCK FALSE
