SPECIFICATION FairSpec
CONSTANTS
    MaxSize = 8
    Sizes = {1, 4, 8, 9}
    MaxFrames = 5
    Packet = 4
    BufSize = 16
INVARIANTS
    HandledInOrder
    FailsOnlyOver
PROPERTY FramesHandled
CHECK_DEADLOCK FALSE
