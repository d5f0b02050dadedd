CONSTANTS
    Job = {j1, j2}
    Cpu = {0, 1}
    g1 = g1
    g2 = g2
    g3 = g3
    Gpu = {g1, g2, g3}
    Mem = {1}
    MaxAttempt = 2
    Layout <- MCLayout
    Renaming <- MCRenaming
SPECIFICATION Spec
SYMMETRY JobSymmetry
INVARIANTS
    TypeOK
    OwnersDisjoint
    BitmapsExact
    MemoryExact
PROPERTIES
    OthersKept
    FencedNotGranted
    AttemptsGrow
CHECK_DEADLOCK FALSE
