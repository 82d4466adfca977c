CONSTANTS
    SlotCount = 2
    Streams <- Two
    Modes = {0, 1, 2}
    Supported = {TRUE}
    MaxAttempts = 1
    MaxTime = 2
    MaxInFlight = 2
SPECIFICATION FairSpec
PROPERTIES FrameLeaves
CHECK_DEADLOCK FALSE
