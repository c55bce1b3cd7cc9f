SPECIFICATION Spec
CONSTANTS
    Proxies = {p1}
    Tools = {}
    MaxWaiting = 2
    Descriptors = 3
INVARIANT DescriptionIsDescription
CHECK_DEADLOCK FALSE
