SPECIFICATION StorageSpec
CONSTANTS
    Units = {"two processes"}
    Thread = {t1, t2, t3}
    Sizes = {1, 3}
    Syncs = {TRUE, FALSE}
    SmallBatch = 1
    MaxGroup = 4
    BufferSize = 1
    Slowdown = 1
    Stop = 2
    InitialFiles = 0
    MaxFaults = 1
    NULL = NULL
INVARIANT OneProcessAtATime
CHECK_DEADLOCK FALSE
