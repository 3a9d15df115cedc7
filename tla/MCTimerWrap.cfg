CONSTANTS
    Slots = 3
    Wrap = 8
    Delays = {1, 3}
    Periods = {0}
    a1 = a1
    Args <- MCArgs
    NoArg = NoArg
    MaxArmed = 2
    MaxClock = 9
    MaxInstance = 3
SPECIFICATION Spec
PROPERTY
    NeverEarly
CHECK_DEADLOCK FALSE
