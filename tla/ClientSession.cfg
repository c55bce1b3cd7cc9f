SPECIFICATION FairSpec
CONSTANTS
    Opening <- Order
    MaxMedia = 2
    MaxUnasked = 1
    MaxFaults = 1
    MaxWaiting = 1
INVARIANTS
    ClientTypeOK
    CrashesOnlyEarly
    RelayedInOrder
PROPERTIES
    SessionServed
CHECK_DEADLOCK FALSE
