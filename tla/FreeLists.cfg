SPECIFICATION Spec
CONSTANTS
    Slots = {a, b, c, d}
    a = a
    b = b
    c = c
    d = d
    Remotes = {r1, r2}
    r1 = r1
    r2 = r2
    TagMod = 1
    CountMod = 7
    NULL = NULL
INVARIANTS
    ListsInv
    QuiescentHeapOK
PROPERTIES
    ListsSpec
    WalkEnds
