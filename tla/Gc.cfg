CONSTANTS
    ci = ci
    large = large
    base = base
    NoSlot = NoSlot
    Pools <- HyphenPools
    BaseNames <- Bases
    MaxInstances = 2
    MaxFaults = 1
SPECIFICATION Spec
INVARIANTS
    TypeOK
    BasesKept
PROPERTIES
    SettledSpared
    SweepOwnSlot
    OrphansCollected
