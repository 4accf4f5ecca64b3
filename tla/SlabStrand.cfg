SPECIFICATION Spec
CONSTANTS
    Threads = {t1}
    t1 = t1
    Segments = {s1}
    s1 = s1
    NumArenas = 1
    DataPages = 2
    Capacity = 2
    RegistrySize = 1
    FlushInterval = 1
    NoOwner = NoOwner
    NULL = NULL
SYMMETRY Symmetry
INVARIANTS
    EmptyPageReusable
CHECK_DEADLOCK FALSE
