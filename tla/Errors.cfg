CONSTANTS
    Root = root
    Child = {a, b}
    DropLists <- MCDropLists
    FlipLists <- MCFlipLists
    Junk = junk
    UintModulus = 2
    StartTime = 100
    MaxTicks = 1
    MaxMessages = 2
SPECIFICATION Spec
INVARIANTS
    TypeOK
    DropListRules
    FlipsAsSet
    SeedsDifferUnlessRandom
\* Nothing is left to do once every message is sent.
CHECK_DEADLOCK FALSE
