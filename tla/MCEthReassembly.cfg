CONSTANTS
    SlotCount = 2
    Streams <- Equal
    Modes = {1}
    Supported = {TRUE, FALSE}
    MaxAttempts = 1
    MaxTime = 2
    MaxInFlight = 2
SPECIFICATION Spec
INVARIANTS TypeOK OneSlotPerFrame GotCountsData HandedInOrder OnlyMiscountedWait RequestsOnlyMissing
CHECK_DEADLOCK FALSE
