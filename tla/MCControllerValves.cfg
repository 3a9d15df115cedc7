CONSTANTS
    Inputs = {"door_up", "door_down", "open_close"}
    MaxStray = 1
    Prompt = TRUE
SPECIFICATION Spec
INVARIANT
    DirectionAsNamed
