SPECIFICATION Spec
CONSTANTS
    Chains = {c1, c2}
    Advancers = {a1, a2}
    Rewinders = {}
    MinAge = 0
    Retry = 0
    Day = 1
    Reach = 0
    MaxTime = 1
    MaxCp = 1
    MaxMoves = 2
INVARIANTS StoresItsFrontier
SYMMETRY AlikeSymmetry
CHECK_DEADLOCK FALSE
