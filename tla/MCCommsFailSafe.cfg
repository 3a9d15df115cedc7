CONSTANTS
    Wanted = {"idle"}
    Limit = 3
SPECIFICATION Spec
INVARIANT
    StoppedIsSafe
