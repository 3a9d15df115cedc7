CONSTANTS
    Inputs = {"chuck", "spindle", "toolset"}
    MaxStray = 1
    Prompt = TRUE
SPECIFICATION Spec
INVARIANT
    LastSeenState
