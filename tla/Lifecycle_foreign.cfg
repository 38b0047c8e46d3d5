SPECIFICATION Spec
CONSTANTS
    Procs = {p1, p2}
    SharedName = SharedName
    Outside = Outside
    MaxRuns = 3
SYMMETRY Symmetry
INVARIANT NeverTearsDownForeign
CHECK_DEADLOCK FALSE
