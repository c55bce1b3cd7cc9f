SPECIFICATION LinkSpec
CONSTANTS
    MaxSize = 2
    Sizes = {0, 3, 4, 5}
    MaxMessages = 3
    Flights = 1
    GiveUp = 2
    FaultPoints = {"between", "within"}
INVARIANTS
    DeliveredWhole
CHECK_DEADLOCK FALSE
