SPECIFICATION Spec
CONSTANTS
    NULL = NULL
    Blank = "blank"
    Data = {"blank", "a"}
    Addresses <- ThreePages
    Capacity = 2
INVARIANTS
    TypeOK
    ListMatchesMap
    WithinCapacity
    NoStoreIsLost
PROPERTY
    EvictsLeastRecentlyUsed
