SPECIFICATION Spec
CONSTANTS
    Requests <- RequestsValue
    Upstreams <- UpstreamsValue
    NoUpstream = "none"
    RangeOf <- RangeOfValue
    ForBlock = {"block"}
    LimitOf <- LimitOfValue
    Crowded <- CrowdedValue
    Lacks <- LacksValue
    Leaving = {"call", "leaves"}
    Together <- TogetherValue
    Concurrency = 1
    MaxAttempts = 1
    InternalErrorAttempts = 1
    Groups <- GroupsValue
    Blocks = {"early", "late"}
    BlockOf <- BlockOfValue
    SizeOf <- SizeOfValue
    Reverting <- RevertingValue
    MergeGroups = TRUE
    MaxCalls = 3
    NodeCap = 2
    ChunkBytes = 6
    BytesOf <- BytesOfValue
    Vaults = {"v"}
    Boosts = {"b"}
    PoolOf <- PoolOfValue
    PriceEndpoints = {"prices"}
    ListedIn <- ListedInValue
    Slots = {1, 2}
    MaxAge = 2
    StallAlert = 1
    WatermarkAlert = 2
    BuildingAlert = 2
INVARIANTS
    RefusedByAll
    NeverOverlaps
    WithinItsAge
PROPERTIES
    EveryoneAnswered
    AnswersItsOwn
    SettlesOnceUp
    ServedAgain
    RunsUntilStopped
    StoppedIsWarned
CHECK_DEADLOCK FALSE
