CONSTANTS
    client = client
    main = main
    c1 = c1
    c2 = c2
    c3 = c3
    d1 = d1
    d2 = d2
    d3 = d3
    Client <- client
    Main <- main
    Children <- MCChildren
    Data <- MCData
    NoData = NoData
    NoReply = NoReply
    Hole = Hole
    File <- MCTwoBlocks
    WindowSize = 2
    UintModulus = 8
    MaxErrors = 1
    Duplicates = FALSE
    MaxTries = 4
    ReadFaults = FALSE
    ServerFaults = FALSE
    LateDelivery = FALSE
    MaxCrashes = 0
SPECIFICATION FairSpec
PROPERTIES
    RcopyEnds
