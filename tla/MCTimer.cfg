CONSTANTS
    Slots = 3
    Wrap = 32
    Delays = {0, 2}
    Periods = {0, 2}
    a1 = a1
    Args <- MCArgs
    NoArg = NoArg
    MaxArmed = 3
    MaxClock = 4
    MaxInstance = 3
SPECIFICATION FairSpec
INVARIANTS
    ListOK
PROPERTIES
    TimerSetSpec
    DispatchComplete
    EventuallyDelivered
CHECK_DEADLOCK FALSE
