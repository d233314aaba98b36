SPECIFICATION AppSpec
CONSTANTS
    Units = {"access", "fixes", "launches", "saves", "machines", "records"}
    Wanted <- MCWanted
    Coordinate = {office, home}
    None = None
    MaxChanges = 2
    MaxBatch = 2
    Null = Null
    Missing = Missing
    p1 = p1
    p2 = p2
    Absent = Absent
INVARIANTS
    AccessIsAnswered
    FixesAreKept
    BucketsAreDays
    OnlySaveMasksRegistration
    DisplayIsCurrent
    DeviceRecordsAreSound
PROPERTIES
    FirstAnswerIsFinal
    SystemInfoWrittenOnce
CHECK_DEADLOCK FALSE
