SPECIFICATION FairSpec
CONSTANTS
    Sources = {1, 2}
    Kinds = {"post", "open", "upload", "read", "write", "cancel", "client", "ext", "fs", "sandbox", "ws"}
    Budget <- OneEach
    CallsPerCell = 1
    Body = 2
    Faults = {"evict"}
    MaxCalls = 4
    MaxResets = 1
INVARIANTS
    AnswerMatchesCall
    ReplayIsSilent
    StreamDelivery
    CommittedKeysDiffer
PROPERTIES
    CellTerminates
