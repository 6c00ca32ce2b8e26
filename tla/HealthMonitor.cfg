CONSTANTS
    Grace = 3
    RegTimeout = 3
    QueryTime = 1
SPECIFICATION Spec
INVARIANTS
    TypeOK
    RecycledOnlyAfterGrace
    ReapedWithinGrace
PROPERTIES
    ZombieReaped
    RegistrationDecided
    WatchesRunner
