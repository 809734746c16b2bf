SPECIFICATION Spec
CONSTANTS
    Processes = {p1, p2, p3}
    MaxStarts = 5
    NoProcess = NoProcess
INVARIANTS
    MigratedBeforeWork
    FailedHoldsNothing
PROPERTY
    StartEnds
CHECK_DEADLOCK FALSE
