SPECIFICATION Spec
CONSTANTS
    Chunks <- MCChunks
    BitsPerBlock = 2
    MaxNextFrameMessages = 2
    MaxDuplicates = 2
    MaxConnections = 3
    MaxStops = 1
INVARIANTS
    InOrderNetworkIsExact
    GapsOnlyAtReconnects
PROPERTIES
    ImplementsReplica
CHECK_DEADLOCK FALSE
