SPECIFICATION StoresSpec
CONSTANTS
    Threads = {t1, t2}
    Codes = {c1, c2}
    States <- Stores
    MaxSnapshots = 2
    MaxWork = 3
SYMMETRY Symmetry
INVARIANTS IdsNameOneSnapshot NewerIdsInvalid AccountsKept
PROPERTIES ImplementsLog CodeFindsItsContract
