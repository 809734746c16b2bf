SPECIFICATION Spec
CONSTANTS
    Subjects = 2
    MaxChanges = 1
INVARIANT
    EverySubjectLeavesALine
CHECK_DEADLOCK FALSE
