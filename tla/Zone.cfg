SPECIFICATION FairSpec
CONSTANTS
    Threads = {t1, t2}
    t1 = t1
    t2 = t2
    Bases = {b1, b2}
    b1 = b1
    b2 = b2
    Sizes = {1}
    NewSizes = {3, 11, 13}
    HeaderSpace = 2
    PageSize = 2
    SlabMax = 3
    SizeMod = 16
    NumArenas = 2
    MaxBytes = 2
    NULL = NULL
INVARIANTS
    LargeInv
    NoUseAfterUnmap
    LiveFound
PROPERTIES
    OnlyReallocDrifts
    PeakNeverFalls
    HeapSpec
    CallsReturn
