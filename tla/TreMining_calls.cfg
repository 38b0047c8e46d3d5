SPECIFICATION Spec
CONSTANTS
    Threads = {t1, t2}
    Nobody = Nobody
    Second = 3
    Ahead = 1
    BlockTimes = {0, 1}
    SkipSlots = 2
    MaxBatch = 2
    MaxBlocks = 2
    MaxClock = 5
SYMMETRY Symmetry
INVARIANTS FlagIsSound SlotsAdvance NeverRefused
PROPERTY MinedOnTime
CHECK_DEADLOCK FALSE
