SPECIFICATION Spec
CONSTANTS
    Products = {p1, p2}
    MaxRows = 6
    MaxSecond = 2
    SameSecond = TRUE
INVARIANTS
    BalancesAfter
CHECK_DEADLOCK FALSE
