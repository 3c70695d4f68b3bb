SPECIFICATION Spec
CONSTANTS
    Node = {n1}
    NumPlayers = 3
    MaxPip = 1
    HandSizes = {1, 2}
    Decks <- DoubleOneDecks
    SentPips <- AnyPips
    Abandonable = {1, 2, 3}
    PersistMayFail = FALSE
    Snapshots = FALSE
    MaxStarts = 2
    MaxLag = 1
INVARIANTS
    TilesConserved
    BoardChained
    AnnouncedOnce
    DecidedMatchEnds
CHECK_DEADLOCK FALSE
