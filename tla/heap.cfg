CONSTANTS
    t1 = t1
    t2 = t2
    Threads = {t1, t2}
    HeaderSize = 1
    MinSize = 2
    MemSize = 12
    Sizes = {1, 3, 7}
SPECIFICATION Spec
INVARIANTS TypeOK ChainOK Coalesced LowestFree HeldBlocks StatsRight RefusedAtTheEndOnly
SYMMETRY Symmetry
