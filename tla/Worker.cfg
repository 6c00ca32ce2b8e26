CONSTANTS
    Names = {n1, n2, n3, n4}
    NoName = NoName
    NoThread = NoThread
    MaxFaults = 2
    MaxSignals = 1
SPECIFICATION Spec
INVARIANTS
    TypeOK
    UnsignalledCleanExit
    CleanupOnce
    SweptBeforeClone
PROPERTIES
    SignalEndsWorker
    LeftoverSwept
