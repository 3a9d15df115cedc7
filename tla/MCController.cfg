CONSTANTS
    Inputs = {"door_up", "door_down", "chuck", "open_close"}
    MaxStray = 1
    Prompt = FALSE
SPECIFICATION Spec
INVARIANTS
    DoorValveOnlyWhileMoving
    MovingHasTimeout
    OneTransmitChain
