SPECIFICATION Spec
CONSTANTS
    Key = {1, 2}
    Value = {1, 2}
    Size <- Bytes
    Hash <- Identity
    None = None
    MemoryLimit = 1
    InitialCapacity = 1
    Policy = "LRU"
    Batch = 1
    DefaultBatch = 3
    Tears = FALSE
    MaxLog = 3
    MaxCrashes = 0
PROPERTY ZeroDataLoss
