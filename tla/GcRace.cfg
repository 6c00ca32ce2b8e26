CONSTANTS
    ci = ci
    large = large
    base = base
    NoSlot = NoSlot
    Pools <- PlainPools
    BaseNames <- PoolBases
    MaxInstances = 1
    MaxFaults = 0
SPECIFICATION SafetySpec
PROPERTY LiveSpared
