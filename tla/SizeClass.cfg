SPECIFICATION ClassSpec
CONSTANTS
    Requests <- MCRequests
    NewSizes <- MCNewSizes
    OsPage = 4096
    SizeMod = 1048576
INVARIANTS
    BestFit
    BlocksFit
    ReallocKeepsContents
