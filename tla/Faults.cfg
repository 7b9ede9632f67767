CONSTANTS
    client = client
    main = main
    c1 = c1
    c2 = c2
    c3 = c3
    d1 = d1
    d2 = d2
    d3 = d3
    Client <- client
    Main <- main
    Children <- MCTwoChildren
    Data <- MCData
    NoData = NoData
    NoReply = NoReply
    Hole = Hole
    File <- MCThreeBlocks
    WindowSize = 3
    UintModulus = 8
    MaxErrors = 0
    Duplicates = FALSE
    MaxTries = 2
    ReadFaults = TRUE
    ServerFaults = TRUE
    LateDelivery = TRUE
    MaxCrashes = 0
SPECIFICATION Spec
SYMMETRY MCSymmetry
INVARIANTS
    GapIsAskedFor
    OutputInOrder
    EofCoversFile
    OutputInPlace
PROPERTY
    OneSrejPerGap
