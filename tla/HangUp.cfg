CONSTANTS
    Fd = {0, 1, 3, 5}
    PollSetSize = 2
    StdinHangsUp = TRUE
SPECIFICATION Spec
INVARIANT SocketOrTimeout
CHECK_DEADLOCK FALSE
