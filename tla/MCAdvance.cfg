SPECIFICATION Spec
CONSTANTS
    Chains = {c1}
    Advancers = {a1}
    Rewinders = {r1}
    MinAge = 0
    Retry = 1
    Day = 2
    Reach = 2
    MaxTime = 2
    MaxCp = 1
    MaxMoves = 3
INVARIANTS
    GateSeesEveryPending
PROPERTIES
    OnlyRewindMovesBack
    RewindNotLost
CHECK_DEADLOCK FALSE
