SPECIFICATION ClassSpec
CONSTANTS
    Requests <- MCMemaligns
    NewSizes = {}
    OsPage = 4096
    SizeMod = 1048576
INVARIANTS
    MemalignAligned
