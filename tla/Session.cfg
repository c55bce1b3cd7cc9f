SPECIFICATION FairSpec
CONSTANTS
    Proxies = {p1}
    Tools = {t1}
    MaxWaiting = 1
    Descriptors = 4
INVARIANTS
    SessionTypeOK
    NothingEncryptedEarly
    HandlerWaits
PROPERTIES
    DescriptionComes
    ProxyGetsIn
CHECK_DEADLOCK FALSE
