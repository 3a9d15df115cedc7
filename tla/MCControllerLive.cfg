CONSTANTS
    Inputs = {"door_up", "door_down", "chuck", "open_close"}
    MaxStray = 1
    Prompt = TRUE
SPECIFICATION FairSpec
INVARIANT
    ClosedReported
PROPERTIES
    MotionEnds
    KeepsTransmitting
