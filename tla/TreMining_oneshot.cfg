SPECIFICATION Spec
CONSTANTS
    Threads = {t1}
    Nobody = Nobody
    Second = 3
    Ahead = 1
    BlockTimes = {0, 1}
    SkipSlots = 2
    MaxBatch = 2
    MaxBlocks = 3
    MaxClock = 6
SYMMETRY Symmetry
INVARIANT OneShot
CHECK_DEADLOCK FALSE
