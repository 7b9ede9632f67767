CONSTANTS
    WindowSize = 3
    UintModulus = 8
    PDU = {p1, p2}
    NoPDU = NoPDU
SPECIFICATION Spec
INVARIANTS
    TypeOK
    KeepsUnacknowledged
    ActiveUntilRR
    OpenUnlessFull
PROPERTY
    NeverBackwards
