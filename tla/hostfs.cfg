SPECIFICATION Spec
CONSTANTS
    NumPaths = 2
    Frames = {f1}
    FrameWindow = "parked"
    Durabilities = {"eagerDurable", "warmBuffered"}
    R2Faults = TRUE
    GetFaults = FALSE
    DumpFaults = TRUE
    Container = TRUE
    MaxWrites = 3
    MaxEvals = 2
    MaxVersion = 2
INVARIANTS
    RowHasBody
    FlushesOnlyLiveWrites
PROPERTIES
    ParkedAckSurvives
    CommitPublishes
