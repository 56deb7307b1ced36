SPECIFICATION MCSpec
CONSTANTS
    x = x
    y = y
    w = w
    z = z
    Addresses = {x, y, w, z}
    NoAddress = NoAddress
    Chains <- SmallChains
    FactsRetryBlocks = 2
    MaxBlock = 3
    Accounts = {1, 2, 3}
    Zero = 0
    Tokens = {1, 2}
    Boosts = {3}
    Values = {0, 1}
    MaxTx = 2
    MaxLogs = 4
INVARIANTS
    PriceFactsSound
    PricedByProduct
    FactsComplete
    SumsAreTheChains
    StepFunction
    AttributionExact
PROPERTY
    NothingForgotten
CHECK_DEADLOCK FALSE
