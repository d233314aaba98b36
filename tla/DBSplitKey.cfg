SPECIFICATION DBSpec
CONSTANTS
    Scenarios = {"levels"}
    NumLevels = 5
    MaxMemLevel = 2
    L0Trigger = 4
    MaxFileSize = 1
    LevelSize = 1
    LevelFactor = 1
    OverlapFactor = 10
    ExpandFactor = 25
    MaxSequence = 100
    NULL = NULL
    Key = {1}
    WriteBufferSize = 0
    L0Stop = 3
    MaxSeq = 2
    MaxSnapshots = 1
    MaxReaders = 0
    MaxManual = 0
    MaxCrashes = 0
    MaxFaults = 0
    MachineCrash = FALSE
    ReuseLogs = FALSE
    Batches <- MCPuts
    Syncs = {FALSE}
    Ranges <- MCWhole
INVARIANTS
    EntriesNeverHop
CHECK_DEADLOCK FALSE
