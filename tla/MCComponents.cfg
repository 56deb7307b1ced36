SPECIFICATION MCSpec
CONSTANTS
    Calls = {c1, c2, c3, c4}
    FailureThreshold = 2
    OpenMs = 3
    MaxInFlight = 1
    MaxQueue = 1
    MaxWait = 1
    QueryMax = 1
    CallMax = 2
    tx1 = tx1
    MaxTime = 7
    OriginFresh <- OriginFreshValue
    OriginStale <- OriginStaleValue
    OriginError = 2
    MaxAge <- MaxAgeValue
    SMaxAge <- SMaxAgeValue
    StaleWhileRevalidate <- StaleWhileRevalidateValue
    ActiveWindow = 2
    MaxGenerations = 2
    ViewTime = 6
    Requests = {r1, r2}
    Txs = {tx1, tx2}
    Unindexed <- UnindexedValue
    SettledDepth = 1
    MaxCopies = 1
    MaxKnown = 1
    MaxHeight = 2
    MaxForks = 1
    MaxFetches = 3
    Clients = {"a", "b", "c"}
    Hosts = {"one", "other"}
    IpSource = "heroku-cloudflare"
    Unit = 2
    Rate = 1
    Burst = 2
    MaxKeys = 2
    Second = 2
    Claimed <- ClaimedAddresses
    LimitTime = 3
    MaxSetBacks = 1
    MaxEvents = 2
    MaxSpanMs = 4
    BucketMs = 2
    Reach = 3
    StaleGap = 2
    Day = 2
    AssetIds = {1}
    PriceSources = {1, 2}
    PriceTimes <- PriceTimesValue
    MaxBatch = 2
    MaxPrices = 2
INVARIANTS
    ProbeIsAlone
    Limited
    SeenInTime
    ItemsTrue
    Repriced
    CopiesKept
    
    AuditTells
PROPERTIES
    OnlyQueriesOpenIt
    ExactlyItsRate
    OnlyAManagerIsMistaken
    ConfirmedAreListed
CHECK_DEADLOCK FALSE
