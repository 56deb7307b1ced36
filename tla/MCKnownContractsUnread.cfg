SPECIFICATION Spec
CONSTANTS
    Chains = {c}
    Zero = "zero"
    Addresses <- KnownAddresses
    Order <- KnownOrder
    Kind <- KnownKind
    World <- KnownAnswers
    Lists <- KnownLists
    Blacklist = {}
    Harvest1 = {"s2"}
    Hands <- KnownHands
    CallsPerMulticall = 10
    MaxRuns = 2
PROPERTY UnreadKeepTheirList
CHECK_DEADLOCK FALSE
