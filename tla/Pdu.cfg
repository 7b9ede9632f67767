CONSTANTS
    ByteSize = 4
    MaxPayload = 3
    MaxName = 2
    SeqNumBytes = 3
    SizeBytes = 2
SPECIFICATION Spec
INVARIANTS
    TypeOK
    FlipIsDetected
    SumsInOnesComplement
    ReadAsSent
\* A datagram is flipped once.
CHECK_DEADLOCK FALSE
