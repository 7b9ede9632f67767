CONSTANTS
    client = client
    main = main
    c1 = c1
    c2 = c2
    c3 = c3
    d1 = d1
    d2 = d2
    d3 = d3
    Client <- client
    Main <- main
    Children <- MCChild
    Data <- MCData
    NoData = NoData
    NoReply = NoReply
    Hole = Hole
    File <- MCThreeBlocks
    WindowSize = 2
    UintModulus = 5
    MaxErrors = 1
    Duplicates = TRUE
    MaxTries = 2
    ReadFaults = FALSE
    ServerFaults = FALSE
    LateDelivery = TRUE
    MaxCrashes = 0
SPECIFICATION Spec
INVARIANTS
    TypeOK
    OutputIsPrefix
    HeldAheadOfGap
    AcknowledgedIsWritten
    EofMeansComplete
PROPERTIES
    CopySpec
