SPECIFICATION Spec
CONSTANTS
    FixtureFns = {f1, f2}
    NoFixture = NoFixture
    MaxWrites = 3
    MaxIds = 4
    MaxFaults = 2
SYMMETRY Symmetry
INVARIANTS TypeOK LoadRestores FixtureStartsFunded TableInStep
CHECK_DEADLOCK FALSE
