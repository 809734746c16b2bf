CONSTANTS
    MaxSignals = 3
    MaxRequests = 1
SPECIFICATION Spec
INVARIANTS
    QuietReturnIsComplete
    FailuresSkipNothing
PROPERTIES
    SecondSignalKills
    Terminates
CHECK_DEADLOCK FALSE
