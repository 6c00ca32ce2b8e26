CONSTANTS
    ci = ci
    base = base
    NoSlot = NoSlot
    Pools <- OnePool
    BaseNames <- Bases
    MaxInstances = 1
    MaxFaults = 1
SPECIFICATION UnSpec
INVARIANTS
    UnTypeOK
    TeardownComplete
    BasesOutlive
CHECK_DEADLOCK FALSE
