CONSTANTS
    QueueLen = 2
    Prealloc = 1
    FrameLen = 1
    MaxFrameLen = 2
    Null = Null
SPECIFICATION FairSpec
PROPERTIES CloseCompletes ReceivedIsParsed
CHECK_DEADLOCK FALSE
