CONSTANTS
    Pools <- OnePool
    Hosts <- MCHosts
    Unreadable = Unreadable
    MinAvail = 2
    PsiMax = 1
    MinDisk = 1
    DiskMax = 9
    MaxLaunch = 2
    BusyReserve = 1
    IdleTimeout = 1
    QueuedEvery = 2
    U32Max = 15
    MaxQueue = 1
    MaxJobs = 1
    MaxFaults = 1
SPECIFICATION Spec
INVARIANTS
    TypeOK
    NoOverProvision
PROPERTIES
    StopsOnlyAged
    ConvergesToWarm
