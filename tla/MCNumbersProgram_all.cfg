SPECIFICATION NFairSpec
CONSTANTS
    Reader = Reader
    Printer = Printer
    NL = NL
    Bad = Bad
    n1 = n1
    n2 = n2
    n3 = n3
    NULL = NULL
    Nobody = Nobody
    None = None
    Nodes = {n1, n2, n3}
    Inputs <- LongInputs
INVARIANTS
    NTypeOK
    PrintsLikeSequential
    DeletedUnused
PROPERTY
    Terminates
