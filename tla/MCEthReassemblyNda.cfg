CONSTANTS
    SlotCount = 2
    Streams <- Longer
    Modes = {1}
    Supported = {TRUE}
    MaxAttempts = 1
    MaxTime = 2
    MaxInFlight = 2
SPECIFICATION Spec
INVARIANTS CompleteIsComplete
CHECK_DEADLOCK FALSE
