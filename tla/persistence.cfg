SPECIFICATION Spec
CONSTANTS
    Key = {1, 2}
    Value = {1, 2}
    Size <- Bytes
    Hash <- Identity
    None = None
    MemoryLimit = 100
    InitialCapacity = 1
    Policy = "LRU"
    Batch = 2
    DefaultBatch = 3
    Tears = TRUE
    MaxLog = 3
    MaxCrashes = 2
INVARIANT TypeOK
INVARIANT LogComplete
PROPERTY RecoversPrefix
PROPERTY SnapshotLoss
