SPECIFICATION SessionSpec
CONSTANTS
    Second = 2
    Expiry = 4
    RecoverAt = 2
    SolidAt = 1
    Slots = {s1}
    Txs = {1, 2}
    MaxOps = 3
    MaxBatch = 2
    MaxBlocks = 1
    MaxTime = 2
    MaxBreaks = 2
INVARIANTS SessionTypeOK
PROPERTIES WarpSeals MinesAsAsked RecoveryLands PredictionHolds
CHECK_DEADLOCK FALSE
