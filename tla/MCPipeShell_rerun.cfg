SPECIFICATION Spec
CONSTANTS
    Inputs <- BadThenGood
    Items = 2
    Capacity = 1
    MaxCommands = 4
    MaxFd = 5
    MayFail = FALSE
    Seekable = TRUE
INVARIANT
    EachLineOnce
