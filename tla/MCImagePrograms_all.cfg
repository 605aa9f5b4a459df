SPECIFICATION ProgSpec
CONSTANTS
    Images <- SmallImages
    BoxSizes = {0, 1}
    ThreadCounts = {1, 2, 3}
    Colours <- RGB
    Black <- BlackPixel
    PaletteSize = 32
    Cuts = {1, 12}
    NULL = NULL
    Names = {"in", "a", "b", "sample"}
    In = "in"
    Inputs <- SmallInputs
    Samples <- OneSample
    Sessions <- SmallSessions
INVARIANTS
    ProgTypeOK
    OutputIsSequential
    PicturesInBytes
    ReadableMeansWhole
    SuccessMeansDone
