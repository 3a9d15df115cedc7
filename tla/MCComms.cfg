CONSTANTS
    Wanted = {"push_door", "blast_toolsetter"}
    Limit = 3
SPECIFICATION FairSpec
INVARIANTS
    TypeOK
    NoWrongCommand
PROPERTIES
    ReplyMatchesCommand
    DeadLinkStops
    PressureFollows
