SPECIFICATION Spec
CONSTANTS
    Configs <- MCConfigs
    MaxRestarts = 1
INVARIANTS TypeOK SocketsMatchStates OneControl StreamComesHere
PROPERTIES OpenAndCloseReturn LostIsRetried
CHECK_DEADLOCK FALSE
