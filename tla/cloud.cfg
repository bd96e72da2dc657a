SPECIFICATION FairSpec
CONSTANTS
    Halves = {"shard", "gate"}
    Facets = {1, 2}
    TenantOf <- MCTenantOf
    Slots = {r1}
    Ops = {"create", "eval", "ping", "warm", "evict"}
    MAX_FACETS = 2
    IDLE_TTL = 2
    WARM_HORIZON = 1
    WARM_MAX_EWMA = 2
    WARM_MIN_EVALS = 2
    MaxRequests = 3
    MaxAge = 3
    Creds = {"sk1", "jwt", "md"}
    CredSets <- MCCredSets
    KindOf <- MCKindOf
    PermsOf <- MCPermsOf
    KeySets <- MCKeySets
    KidOf <- MCKidOf
    Routes = {"admin"}
    Entries = {1, 2}
    CACHE_TTL = 1
    CACHE_MAX = 1
    JWKS_TTL = 1
    MaxLatency = 1
INVARIANTS RevocationBound
PROPERTIES Hibernates OutageHeals
CHECK_DEADLOCK FALSE
