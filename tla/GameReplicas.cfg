SPECIFICATION Spec
CONSTANTS
    Node = {n1, n2}
    NumPlayers = 2
    MaxPip = 1
    HandSizes = {1}
    Decks <- DoubleOneDecks
    SentPips <- OnlyTheId
    Abandonable = {}
    PersistMayFail = TRUE
    Snapshots = TRUE
    MaxStarts = 1
    MaxLag = 2
INVARIANTS
    ReplicasAgree
CHECK_DEADLOCK FALSE
SYMMETRY Symmetry
