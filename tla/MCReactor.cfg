CONSTANTS
    MaxHandlers = 3
    IntBits = 3
    MaskBits = 3
    Priorities = {10, 20}
    QueueSizes = {1, 2}
    d1 = d1
    Data <- MCData
    PreRunHandles = {0, 1}
    Debug = FALSE
SPECIFICATION FairSpec
INVARIANTS
    FlagIffPending
    NoLostWakeup
PROPERTIES
    EventLoopSpec
    EventuallyCalled
CHECK_DEADLOCK FALSE
