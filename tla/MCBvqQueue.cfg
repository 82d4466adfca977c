CONSTANTS
    Producers = {p1, p2}
    Consumers = {c1, c2}
    Flushers = {f1}
    QueueLength = 2
    MaxItems = 5
    Null = Null
SPECIFICATION FairSpec
INVARIANTS
    TypeOK
    TokensMatchItems
    OneOwner
PROPERTIES
    ImplementsFifo
    CallsReturn
\* A flush may block forever (see GetFrameReturns), and then everybody does.
CHECK_DEADLOCK FALSE
