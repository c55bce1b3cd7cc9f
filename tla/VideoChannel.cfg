SPECIFICATION FairSpec
CONSTANTS
    MaxSamples = 3
    MaxIndications = 2
INVARIANTS
    VideoTypeOK
    NoAnswerLeaks
    MediaAfterSetup
PROPERTIES
    VideoFlows
    FocusAnswered
CHECK_DEADLOCK FALSE
