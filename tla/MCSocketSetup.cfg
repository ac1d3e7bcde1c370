SPECIFICATION Spec
CONSTANTS
    Candidates = 4
    Program = "server"
INVARIANT
    OnlyResultOpen
PROPERTY
    FirstWorkingReturned
CHECK_DEADLOCK FALSE
