SPECIFICATION FairLifeSpec
CONSTANTS
    Strings = 2
    MaxTimeouts = 2
    MaxEvents = 1
    MaxSignals = 2
    MaxFaults = 2
INVARIANTS
    LifecycleTypeOK
    ReturnsSwitched
    NothingLeft
PROPERTIES
    ServesAgain
    InterruptEnds
CHECK_DEADLOCK FALSE
