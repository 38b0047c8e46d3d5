SPECIFICATION Spec
CONSTANTS
    Calls = {c1, c2, c3}
    NoCall = NoCall
    MaxBoots = 2
    Reprobes = 2
SYMMETRY Symmetry
INVARIANTS NothingStale OwnedNeverGenesis SingleUnlessStrayed ReprobesCounted
PROPERTY CommittedIsStable
CHECK_DEADLOCK FALSE
