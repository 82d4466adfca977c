CONSTANTS
    Producers = {p1, p2}
    Consumers = {c1, c2}
    Flushers = {f1}
    QueueLength = 2
    MaxItems = 5
    Null = Null
SPECIFICATION FairSpec
PROPERTIES
    GetFrameReturns
CHECK_DEADLOCK FALSE
