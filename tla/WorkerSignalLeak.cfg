CONSTANTS
    Names = {n1, n2}
    NoName = NoName
    NoThread = NoThread
    MaxFaults = 0
    MaxSignals = 1
SPECIFICATION SafetySpec
INVARIANT CleanExit
