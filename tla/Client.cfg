SPECIFICATION ClientSpec
CONSTANTS
    Path <- MCPath
    Value = {1, 2}
    Null = Null
    Missing = Missing
    Place <- MCPlace
    Root = "record"
    Under <- MCUnder
    Visit <- MCVisit
    Callback = {"block"}
    MayRefuse <- MCMayRefuse
    MaxWrites = 3
    MaxHandles = 2
    NullPtr = NullPtr
INVARIANTS
    TypeOK
    ReadYourWrites
    QuietCacheIsServer
    ClientAssertions
    PutsInOrder
    ReceivesWhatWasSent
    EncoderIsExact
    SafeOnAnyBytes
