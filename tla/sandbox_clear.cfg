SPECIFICATION Spec
CONSTANTS
    Grain = 2
    Page = 2
    SafeBuffer = 8
    ScratchDelta = 2
    Incompressible = 7
    NoRetain = 6
    MaxDeltas = 2
    MaxWrites = 2
    EgressHosts <- MCHosts
    EgressAllow <- MCAllow
    MaxRedirectHops = 2
    Catalogs <- MCCatalogs
    Configs <- MCConfigs
    MaxStdlibBytes = 5
    ExtMaxCalls = 4
    Reconfigure = FALSE
    FsPaths <- MCFsPaths
    FsSegments = {"a", "..", ".", "workspace"}
    FsCallers = {c1, c2}
    FsCalls = 3
    SbRequesters = {"cell", "frame"}
    SbFiles = {"f", "g"}
    SbFaults = {}
    SbMade = 4
    UpCallers = {c1, c2}
    UpWrites <- MCWrites
    UpChunk = 2
    UpArtifact = 3
    UpCalls = 3
    SeKeys = {"seeded", "other"}
    SeSeed = {"seeded"}
    SeModules = {"m", "n"}
    SeConnect = {"m"}
    SeEvals = {"e1", "e2"}
    SeMade = 3
    ClIds = {"a", "b"}
    ClConnects = 4
    BrSlots = {1, 2}
    BrAttempts = 2
    BrTimeout = 2
    BrTripAt = 3
    BrCooldown = 3
INVARIANT ClearTouchesOnlySeed
CHECK_DEADLOCK FALSE
