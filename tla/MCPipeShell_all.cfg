SPECIFICATION FairSpec
CONSTANTS
    Inputs <- GoodInputs
    Items = 2
    Capacity = 1
    MaxCommands = 4
    MaxFd = 5
    MayFail = TRUE
    Seekable = TRUE
INVARIANTS
    TypeOK
    NothingKept
    WiredInARow
    AllDelivered
    EachLineOnce
PROPERTIES
    LineEnds
    NobodyLeftWaiting
