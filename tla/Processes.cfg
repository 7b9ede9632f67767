CONSTANTS
    Main = main
    Child = {a, b}
    Socket = {s1, s2, s3}
    EphemeralPort = {1, 2}
    PortNumber = 9
    MaxFd = 5
    MaxRestarts = 2
    OutputFile = file
    Nothing = nothing
SPECIFICATION FairSpec
INVARIANTS
    TypeOK
    ZombiesAreNoticed
    SocketsApart
    PortComesFree
PROPERTY
    ChildrenLeave
\* The server may have ended for good.
CHECK_DEADLOCK FALSE
