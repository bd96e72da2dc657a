SPECIFICATION Spec
CONSTANTS
    Builds = {b1, b2}
    Durabilities = {"eagerDurable"}
    Shapes <- AdmittedShapes
    Artifacts = FALSE
    R2Faults = FALSE
    ProbeFaults = FALSE
    BaseEvery = 3
    MaxEvals = 3
    MaxEpoch = 0
PROPERTIES
    RestoreRecoversCommitted
