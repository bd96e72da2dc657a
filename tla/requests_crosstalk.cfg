SPECIFICATION Spec
CONSTANTS
    Clients = {c1}
    Kinds = {"sideEffectLike", "timeoutLike", "neither"}
    MaxDepth = 2
    MaxRows = 4
    KeepAlive = FALSE
    EventGap = TRUE
    MaxRequests = 2
INVARIANTS
    RepliesMatch
