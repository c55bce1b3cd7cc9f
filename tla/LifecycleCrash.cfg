SPECIFICATION LifeSpec
CONSTANTS
    Strings = 2
    MaxTimeouts = 1
    MaxEvents = 0
    MaxSignals = 0
    MaxFaults = 0
INVARIANT NamesOfThisRun
CHECK_DEADLOCK FALSE
