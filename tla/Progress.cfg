SPECIFICATION ProgressSpec
CONSTANTS
    Null = Null
    Missing = Missing
    NoAccess = NoAccess
    r1 = r1
    Text = {""}
    Blank = ""
    BucketOrder <- MCBucketOrder
    MaxDay = 1
    MaxLaunches = 1
    MaxSaves = 0
    MaxFixes = 1
    MaxPush = 1
    Zone = "utc"
    MayRefuse = {}
PROPERTIES
    AppMakesProgress
    ThreadsMakeProgress
    ReadersMakeProgress
CHECK_DEADLOCK FALSE
