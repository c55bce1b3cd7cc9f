SPECIFICATION FairSpec
CONSTANT Clients = {c1, c2}
INVARIANTS
    ShutdownTypeOK
    NoSilentDeath
    NoThreadLeftBehind
PROPERTIES
    AllPumpsEnd
    Quits
CHECK_DEADLOCK FALSE
