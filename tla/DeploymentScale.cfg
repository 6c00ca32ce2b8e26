CONSTANTS
    small = small
    repo = repo
    img = img
    lbl = lbl
    ValidNames = {small, img}
    NoBase = NoBase
    CurrentVersion = 1
    U32 = 16
    Unparsable = Unparsable
    Releases <- MCReleases
    Prompted <- MCPrompted
    OldConfigs <- MCOldConfigs
    Scales <- MCScales
    Keep = Keep
    NoRelease = NoRelease
    MaxPublished = 0
    MaxCommands = 2
    MaxFaults = 0
SPECIFICATION Spec
PROPERTY ScalePickedUp
CHECK_DEADLOCK FALSE
