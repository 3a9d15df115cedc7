CONSTANTS
    idle = idle
    push_door = push_door
    pull_door = pull_door
    push_pin = push_pin
    pull_pin = pull_pin
    Commands <- MCCommands
    Idle = idle
    Valves <- MCValves
    ValveOf <- MCValveOf
    Garbage = garbage
    Grace = 1
    Check = 2
    FirstCheck = 5
    MaxAge = 7
SPECIFICATION SystemFairSpec
INVARIANTS
    ValveNotOutlivesWish
    AppliedInTime
PROPERTY
    WishApplied
