SPECIFICATION Spec
CONSTANTS
    Clients = {c1}
    MaxPackets = 1
    MaxEvents = 1
    MaxStrays = 0
    SocketBuffer = 1
INVARIANT ServerSurvivesClients
CHECK_DEADLOCK FALSE
