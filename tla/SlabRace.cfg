SPECIFICATION FairSpec
CONSTANTS
    Threads = {t1, t2}
    t1 = t1
    t2 = t2
    Segments = {s1, s2}
    s1 = s1
    s2 = s2
    NumArenas = 1
    DataPages = 1
    Capacity = 2
    RegistrySize = 1
    FlushInterval = 1
    NoOwner = NoOwner
    NULL = NULL
INVARIANTS
    StructInv
PROPERTIES
    AbandonedForever
    CallsReturn
CHECK_DEADLOCK FALSE
