SPECIFICATION Spec
CONSTANTS
    Calls = {c1, c2}
    Factories = {f1, f2}
    Salts = {s1, s2}
    PendingLimit = 3
    MaxCalls = 4
SYMMETRY Symmetry
INVARIANTS TypeOK PredictionsPair LocalIsListed
PROPERTY RefusedOnlyWhenTried
CHECK_DEADLOCK FALSE
