SPECIFICATION ReadsSpec
CONSTANTS
    BlockBytes = 16
    Align = 4
    PointerBytes = 4
    Sizes = {1, 2, 3, 4, 5, 17}
    MaxPieces = 4
    r1 = r1
    r2 = r2
    Units = {"crc", "coding", "edit", "batch", "key", "file", "base64", "push",
             "arena", "order", "skip", "tall skip", "memory", "cache", "two shards", "no capacity", "tables",
             "scan", "versions", "get", "iter", "faulty iter", "levels", "sizes"}
    NULL = NULL
    b1 = b1
    b2 = b2
    Base = 2
    TimeDigits = 2
    RandDigits = 4
    Randoms <- MCRandoms
    MaxCalls = 5
INVARIANTS
    ArenaSafe
    SearchesSeeInserts
    FreedWhenUnused
    TablesAnswerRight
    ReadersKeepTheirView
    WrittenIsRead
    DamageIsNoticed
    LaterIsGreater
PROPERTIES
    OperationsAreAtomic
CHECK_DEADLOCK FALSE
