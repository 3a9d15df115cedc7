CONSTANTS
    d1 = d1
    d2 = d2
    b4 = b4
    c4 = c4
    idle = idle
    pull_door = pull_door
    push_door = push_door
    reserved0 = reserved0
    pull_pin = pull_pin
    push_pin = push_pin
    Data <- MCData
    Commands <- MCCommands
    Idle = idle
    Valves <- MCValves
    ValveOf <- MCValveOf
    Garbage = garbage
    Grace = 2
    Check = 4
    FirstCheck = 10
    MaxAge = 14
    NoData = NoData
    NElem = 4
    IndexHalf = 4
    Inputs = {door_cmd}
    Threshold = 4
    Pins = {0, 1}
    Filtered = {1}
    Outputs = {led_door, led_fault}
    Sequences <- MCSequences
    QueueSize = 2
    Pitches = {b4, c4}
    Tones = {alarm}
    Off = off
    Tunes <- MCTunes
    MaxChains = 2
    HeapSize = 10
    BlockSizes = {1, 2}
    Guard = 3
SPECIFICATION ServicesSpec
INVARIANTS
    RingInv
    SteadySeen
    SetSticks
    OneSequence
    ToneOverTune
    SilentAtEnd
    ValvesMatchCommand
    FailSafe
PROPERTIES
    DequeSpec
    ChangeFiltered
    BlockClearOfStack
    NoFastSwitching
    EventuallyApplied
    SequenceEnds
    TuneEnds
    OncePerAck
    LonePinSensed
CHECK_DEADLOCK FALSE
