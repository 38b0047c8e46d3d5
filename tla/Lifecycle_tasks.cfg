SPECIFICATION FairSpec
CONSTANTS
    Procs = {p1, p2}
    SharedName = SharedName
    Outside = Outside
    MaxRuns = 5
INVARIANTS NoRunningLeak ForeignSpared PastGenesis
PROPERTY EnsureUpEnds
CHECK_DEADLOCK FALSE
