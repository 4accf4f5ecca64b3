SPECIFICATION ReliefSpec
CONSTANTS
    Slots = {a, b}
    a = a
    b = b
    Remotes = {r1}
    r1 = r1
    TagMod = 1
    CountMod = 4
    NULL = NULL
INVARIANTS
    ReliefHarmless
