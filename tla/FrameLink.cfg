SPECIFICATION FairLinkSpec
CONSTANTS
    MaxSize = 2
    Sizes = {0, 2, 5}
    MaxMessages = 4
    Flights = 2
    GiveUp = 2
    FaultPoints = {"between"}
INVARIANTS
    TypeOK
    Chain
    OwnRecord
    Reassembly
    DeliveredWhole
PROPERTIES
    FifoSpec
    EveryMessageReturned
CHECK_DEADLOCK FALSE
