SPECIFICATION Spec
CONSTANTS
    Builds = {b1, b2}
    Durabilities = {"eagerDurable", "warmBuffered"}
    Shapes <- AllShapes
    Artifacts = FALSE
    R2Faults = TRUE
    ProbeFaults = TRUE
    BaseEvery = 3
    MaxEvals = 3
    MaxEpoch = 1
INVARIANTS
    ChainReconstructs
