CONSTANTS
    k1 = k1
    k2 = k2
    Client = {k1, k2}
    TotalPages = 6
    FirstFree = 1
    RefMax = 9
    HugePages = 2
    Counts = {1, 2}
SPECIFICATION Spec
SYMMETRY Symmetry
INVARIANTS FreeIffUnheld HintBelowFree CounterExact
