SPECIFICATION Spec
CONSTANTS
    Callers = {c1}
    Monitor = monitor
    Addr = {a, b}
    Refused = {b}
    Value = {v1, v2}
    MaxCommands <- Limits
    Null = Null
SYMMETRY Symmetry
INVARIANTS ExactUntilAbandoned StraysWereAbandoned TcpReadIsCurrent
PROPERTY ImplementsService
\* The model stops when the last command has returned.
CHECK_DEADLOCK FALSE
