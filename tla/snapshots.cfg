SPECIFICATION FairSpec
CONSTANTS
    Builds = {b1}
    Durabilities = {"eagerDurable", "warmBuffered"}
    Shapes <- AdmittedShapes
    Artifacts = TRUE
    R2Faults = FALSE
    ProbeFaults = FALSE
    BaseEvery = 3
    MaxEvals = 4
    MaxEpoch = 1
INVARIANTS
    AckedSurvives
    
PROPERTIES
    RestoreRecoversCommitted
    ImplementsDurableSession
    DirtySettles
