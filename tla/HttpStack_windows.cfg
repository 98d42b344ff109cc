CONSTANTS
    Clients = {c1}
    DefaultMax = 2
    WriteMax = 2
    ExpensiveMax = 1
    Window = 3
    Second = 2
    MaxTracked = 2
    MaxTime = 5
    MaxOver = 1
    MaxBytes = 2
    ChunkSizes = {1, 2}
    MaxChunks = 3
    NoLength = NoLength
SPECIFICATION StackSpec
INVARIANTS
    TypeOK
    BurstBound
    RetryAfterSuffices
    BodyIsBounded
CHECK_DEADLOCK FALSE
