SPECIFICATION StorageSpec
CONSTANTS
    Units = {"writers", "log", "damaged log", "offset log", "repair", "files", "locks",
             "one process", "two processes", "thread", "limits", "c reader", "c objects", "c batches"}
    Thread = {t1, t2, t3}
    Sizes = {1, 3}
    Syncs = {TRUE, FALSE}
    SmallBatch = 1
    MaxGroup = 4
    BufferSize = 1
    Slowdown = 1
    Stop = 2
    InitialFiles = 0
    MaxFaults = 1
    NULL = NULL
INVARIANTS
    GroupCommitIsSound
    LogIsReadBack
    RepairKeepsData
    SurvivesPowerFailure
    LocksExclude
    HandedOutIsAccounted
PROPERTIES
    SyncErrorStopsWrites
    OnlyStrayClosesUnlock
SYMMETRY ThreadSymmetry
CHECK_DEADLOCK FALSE
