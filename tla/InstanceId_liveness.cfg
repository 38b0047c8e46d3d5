SPECIFICATION FairSpec
CONSTANTS
    Calls = {c1, c2}
    NoCall = NoCall
    MaxBoots = 2
    Reprobes = 1
PROPERTY EveryCallReturns
CHECK_DEADLOCK FALSE
