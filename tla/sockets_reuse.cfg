SPECIFICATION Spec
CONSTANTS
    Socks = {1, 2}
    Modes = {"off"}
    HalfOpen = {TRUE}
    MAX_SOCKETS = 2
    MaxOpens = 2
    MaxOps = 3
    MaxWrites = 1
    ChunkSizes = {2}
    MaxSends = 0
    MaxResets = 0
    MaxEvictions = 1
    QueueMax = 1
    MaxFrames = 0
    Machines = {"sockets"}
INVARIANT StaleHandleFails
CHECK_DEADLOCK FALSE
