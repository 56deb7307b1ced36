SPECIFICATION SmallSpec
CONSTANTS
    Versions = {1, 2, 3}
    Database <- HandWritten
    ApiViews <- TwoViews
    Operators = {op1, op2}
    Cleaners = {worker}
    Modes <- Careful
INVARIANTS NothingServedDropped
PROPERTIES RerunsConverge DropsOnlyUnused LifecycleForward
SYMMETRY Alike
VIEW ByWhatIsAsked
