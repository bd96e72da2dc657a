SPECIFICATION FairSpec
CONSTANTS
    Socks = {1, 2, 3}
    Modes = {"off"}
    HalfOpen = {FALSE}
    MAX_SOCKETS = 2
    MaxOpens = 3
    MaxOps = 3
    MaxWrites = 2
    ChunkSizes = {2}
    MaxSends = 1
    MaxResets = 2
    MaxEvictions = 1
    QueueMax = 2
    MaxFrames = 4
    Machines = {"sockets", "ws"}
INVARIANTS
    BytesInOrder
    NoHandleLeak
    DeliveredInOrder
PROPERTIES
    EndCloses
    RecvReturns
CHECK_DEADLOCK FALSE
