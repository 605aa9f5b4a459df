SPECIFICATION FairSpec
CONSTANTS
    p1 = p1
    p2 = p2
    w1 = w1
    w2 = w2
    r1 = r1
    v1 = v1
    v2 = v2
    n1 = n1
    n2 = n2
    NULL = NULL
    Nobody = Nobody
    None = None
    Threads = {p1, w1, w2}
    Values = {v1}
    Nodes = {n1, n2}
    Calls <- TwoWaitersCalls
CHECK_DEADLOCK FALSE
PROPERTY
    SleepersAreWoken
