SPECIFICATION Spec
CONSTANTS
    Subjects = 2
    MaxChanges = 2
INVARIANTS
    PrintedTextStays
    NoStaleFrame
PROPERTY
    CommandEnds
CHECK_DEADLOCK FALSE
