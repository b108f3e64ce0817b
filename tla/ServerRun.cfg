CONSTANTS
    numThreads_ = 2
    DestroysEarly = TRUE
    MaxClients = 3
    MaxOpen = 2
SPECIFICATION ServerSpec
INVARIANTS
    LoopsExistUntilQuit
    EachConnectionOnce
PROPERTIES
    ConnectionsMoveOn
    PoolDestroyed
CHECK_DEADLOCK FALSE
