SPECIFICATION Spec
CONSTANTS
    Player = {p1}
    MaxConnects = 3
    SendCap = 2
    AbandonCap = 1
    EventCap = 2
    MaxVersion = 3
    MaxStats = 3
    None = None
INVARIANTS
    TypeOK
    HubNeverPanics
    StatusMatchesSocket
    ViewsCatchUp
    StatsKept
PROPERTIES
    DisconnectResolved
CHECK_DEADLOCK FALSE
