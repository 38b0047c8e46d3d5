SPECIFICATION Spec
CONSTANTS
    Procs = {p1, p2}
    MaxFiles = 4
    MaxFaults = 3
INVARIANTS FinalNeverPartial LoneCallHeals
SYMMETRY Symmetry
CHECK_DEADLOCK FALSE
