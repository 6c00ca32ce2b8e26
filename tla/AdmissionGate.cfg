CONSTANTS
    Workers = {w1, w2, w3}
    NoWorker = NoWorker
    Unreadable = Unreadable
    LockTries = 2
    SettleTime = 1
    Hosts <- MCHosts
    MinAvail = 4
    PsiMax = 2
    MinDisk = 3
    DiskMax = 9
SPECIFICATION Spec
INVARIANTS
    TypeOK
    GateExclusion
    NoStaleGrant
PROPERTIES
    LockWaitEnds
    LockReleased
    TakesTurns
