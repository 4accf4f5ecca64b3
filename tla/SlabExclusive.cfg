SPECIFICATION Spec
CONSTANTS
    Threads = {t1, t2}
    t1 = t1
    t2 = t2
    Segments = {s1, s2}
    s1 = s1
    s2 = s2
    NumArenas = 2
    DataPages = 2
    Capacity = 2
    RegistrySize = 2
    FlushInterval = 2
    NoOwner = NoOwner
    NULL = NULL
CONSTRAINT TwoPages
SYMMETRY Symmetry
INVARIANTS
    TypeOK
    BumpOK
    NoDoubleAlloc
    FreeListsSound
    EmptyPageHasNoBlocks
    ZeroedIsVirgin
    HeapCheck
    CountInv
    StatsBalance
    ExclusiveArenas
PROPERTIES
    HeapSpec
CHECK_DEADLOCK FALSE
