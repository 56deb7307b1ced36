SPECIFICATION Spec
CONSTANTS
    Versions = {1, 2}
    Database <- TwoDatabases
    ApiViews <- TwoViews
    Operators = {op}
    Cleaners = {worker}
    Modes <- OneAtATime
PROPERTIES RefusesMissingTables
