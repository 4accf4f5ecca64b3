SPECIFICATION StartSpec
CONSTANTS
    Threads = {t1, t2}
    t1 = t1
    t2 = t2
    Bases <- MCBases
    Size = 2
    Hash <- MCHash
    NumArenas = 2
    BootTlds = 1
    MaxFailures = 1
    NULL = NULL
INVARIANTS
    StartInv
    RegistryInv
    ThreadCountRight
PROPERTIES
    RegistryKept
    LookupRight
    DropsOnlyWhenFull
    InitReturns
