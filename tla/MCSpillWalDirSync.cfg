SPECIFICATION Spec
CONSTANTS
    MaxRecords = 4
    BodyLen <- MCBodyLen
    MaxRecordBytes = 2
    MemCapacity = 1
    WalLimit = 10
    IoErrors = FALSE
    DirSyncErrors = TRUE
INVARIANT CheckpointPreserves
