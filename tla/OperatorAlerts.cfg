SPECIFICATION FairSpec
CONSTANTS
    None = None
    Outcomes = {o1, o2}
    Same = {o1}
    Workers = {q1}
    MaxFaults = 1
INVARIANTS
    Inv
PROPERTIES
    ForeignStands
    CorrectionStands
    RecoveryStands
    DispositionIsShown
CHECK_DEADLOCK FALSE
