SPECIFICATION ReadsSpec
CONSTANTS
    Units = {"push"}
    BlockBytes = 16
    Align = 4
    PointerBytes = 4
    Sizes = {1}
    MaxPieces = 1
    NULL = NULL
    r1 = r1
    r2 = r2
    b1 = b1
    b2 = b2
    Base = 4
    TimeDigits = 1
    RandDigits = 2
    Randoms <- MCAnyRandoms
    MaxCalls = 3
INVARIANTS
    ChronologicallySorted
CHECK_DEADLOCK FALSE
