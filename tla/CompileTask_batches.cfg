SPECIFICATION Spec
CONSTANTS
    Procs = {p, q}
    MaxPublished = 2
    MaxCrashes = 1
    MaxTasks = 2
    Sources <- MCSources
    Configs <- MCConfigs
    Networks <- MCNetworks
INVARIANTS
    TypeOK
    LoneWriterKeepsCopy
    BatchesAccumulate
CHECK_DEADLOCK FALSE
PROPERTIES
    OfflineServes
    MissingIsUnpublished
    EveryTaskEnds
