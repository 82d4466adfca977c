SPECIFICATION MCSpec
CONSTANTS
    FrameQueueLength = 1
    GrabbingQueueLength = 1
    MaxFrames = 3
    MaxGrabs = 2
INVARIANTS TypeOK OneOwner UsesOnlyLive FileHasNoHoles StopKeepsFrames
PROPERTY StopAndCloseReturn
CHECK_DEADLOCK FALSE
