CONSTANTS
    Fd = {0, 1, 3, 5}
    PollSetSize = 2
    StdinHangsUp = FALSE
SPECIFICATION Spec
INVARIANTS
    TypeOK
    ArrayCovers
    ReportsLowest
\* A poll that fails ends the process.
CHECK_DEADLOCK FALSE
