SPECIFICATION EarlySpec
CONSTANTS
    Threads = {t1, t2}
    t1 = t1
    t2 = t2
    Bases = {p}
    p = p
    Size = 1
    Hash <- MCHash
    NumArenas = 1
    BootTlds = 1
    MaxFailures = 0
    NULL = NULL
PROPERTIES
    EarlyMallocReturns
CHECK_DEADLOCK FALSE
