SPECIFICATION FairSpec
CONSTANTS
    Clients = {c1, c2}
    MaxPackets = 1
    MaxEvents = 2
    MaxStrays = 1
    SocketBuffer = 1
INVARIANTS
    InputTypeOK
    EventsInOrder
    NoEventMissed
    NoStaleOpen
PROPERTIES
    OpenCompletes
    DepartureNoticed
CHECK_DEADLOCK FALSE
