SPECIFICATION FairSpec
CONSTANTS
    Clients = {c1}
    Kinds = {"sideEffectLike"}
    MaxDepth = 2
    MaxRows = 4
    KeepAlive = TRUE
    EventGap = TRUE
    MaxRequests = 2
INVARIANTS
    RunsOnce
    RepliesMatch
PROPERTIES
    AnswerIsFinal
    QueueDrains
    RequestSettles
