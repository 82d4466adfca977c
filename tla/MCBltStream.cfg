SPECIFICATION Spec
CONSTANTS
    FrameCount = 4
    QueueLength = 2
    MaxCalls = 4
INVARIANTS TypeOK OneReader PeekedIsHead
PROPERTIES PlaysInOrder CallsReturn PlaybackEnds
CHECK_DEADLOCK FALSE
