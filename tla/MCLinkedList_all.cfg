SPECIFICATION FairSpec
CONSTANTS
    a1 = a1
    a2 = a2
    b = b
    c = c
    NULL = NULL
    NoIter = NoIter
    Freed = Freed
    None = None
    Payloads = {a1, a2, b, c}
    Rank <- TwoEqual
    Nodes = {n1, n2, n3, n4}
INVARIANTS
    TypeOK
    DoublyLinked
PROPERTIES
    IsSequence
    SortReturns
