CONSTANTS
    QueueLen = 5
    Prealloc = 1
    FrameLen = 1
    MaxFrameLen = 1
    Null = Null
SPECIFICATION Spec
INVARIANTS PutsFindRoom OneOwner CloseFreesPackets
CHECK_DEADLOCK FALSE
