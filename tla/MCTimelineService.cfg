SPECIFICATION Spec
CONSTANTS
    Addresses = {a1}
    Versions <- ThreeVersions
    Builds = {b1, b2}
    MaxInFlight = 1
    MaxQueue = 1
    MaxBytes = 2
    Sizes <- ThreeSizes
    MaxTooLarge = 1
    Rollbacks = FALSE
    MaxSwitches = 1
    MaxEvents = 2
INVARIANTS
    FlightIsTheBuilds
    HoldsItsVersion
    Counted
PROPERTIES
    NothingOfPrevious
SYMMETRY AlikeBuilds
