CONSTANTS
    small = small
    repo = repo
    img = img
    lbl = lbl
    ValidNames = {small, img}
    NoBase = NoBase
    CurrentVersion = 1
    U32 = 16
    Unparsable = Unparsable
    Releases <- MCReleases
    Prompted <- MCPrompted
    OldConfigs <- MCOldConfigs
    Scales <- MCScales
    Keep = Keep
    NoRelease = NoRelease
    MaxPublished = 2
    MaxCommands = 3
    MaxFaults = 1
SPECIFICATION Spec
INVARIANTS
    TypeOK
    ExeVerified
    SupervisorUpgraded
    ConfigLoadable
PROPERTIES
    NeverDowngrades
    SupervisorReturns
    UpdateNoticed
CHECK_DEADLOCK FALSE
