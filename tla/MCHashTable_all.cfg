SPECIFICATION Spec
CONSTANTS
    v1 = v1
    v2 = v2
    None = None
    Keys = {0, 1, 5, 9}
    Values = {v1, v2}
    FirstBuckets = 1
INVARIANTS
    TypeOK
    KeysInTheirBuckets
    DanglesOnlyAtLimit
PROPERTY
    IsMap
