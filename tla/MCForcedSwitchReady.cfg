SPECIFICATION Spec
CONSTANTS
    Versions = {1, 2}
    Database <- TwoDatabases
    ApiViews <- TwoViews
    Operators = {op1, op2}
    Cleaners = {worker}
    Modes <- Overlapping
PROPERTIES ReadyOnlyBuilding
