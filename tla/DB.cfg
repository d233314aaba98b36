SPECIFICATION DBSpec
CONSTANTS
    Scenarios = {"levels", "snapshots", "pinned", "machine", "reuse", "faults", "manual", "manual fails", "split", "gap"}
    NumLevels = 3
    MaxMemLevel = 1
    L0Trigger = 2
    MaxFileSize = 4
    LevelSize = 1
    LevelFactor = 10
    OverlapFactor = 10
    ExpandFactor = 25
    MaxSequence = 100
    NULL = NULL
    Key = {1, 2}
    WriteBufferSize = 0
    L0Stop = 3
    MaxSeq = 4
    MaxSnapshots = 0
    MaxReaders = 0
    MaxManual = 0
    MaxCrashes = 0
    MaxFaults = 0
    MachineCrash = FALSE
    ReuseLogs = FALSE
    Batches <- MCWide
    Syncs = {FALSE}
    Ranges <- MCWhole
INVARIANTS
    AnswersStay
    NothingInUseGoes
    PinnedViewStable
PROPERTIES
    SearchMayStop
CHECK_DEADLOCK FALSE
