SPECIFICATION Spec
CONSTANTS
    Key = {1, 2, 3}
    Value = {1, 2}
    Size <- Bytes
    Hash <- Identity
    None = None
    MemoryLimit = 2
    InitialCapacity = 2
    Policies = {"LRU", "LFU"}
    SampleSize = 1
    MaxCount = 1
    MaxTime = 1
VIEW Lasting
CONSTRAINT FewStale
CONSTRAINT ScannerStarted
INVARIANT TypeOK
INVARIANT ChainsConsistent
INVARIANT PolicyTracksTable
INVARIANT HeapCoversKeys
INVARIANT MemoryBound
PROPERTY EvictsColdest
PROPERTY CacheSpec
