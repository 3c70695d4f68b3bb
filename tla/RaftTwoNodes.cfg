SPECIFICATION Spec
CONSTANTS
    Node = {n1, n2}
    Command = {x, y}
    CompactThreshold = 3
    Durable = FALSE
    MaxTerm = 2
    MaxIndex = 3
    MaxRestarts = 0
    MaxInFlight = 2
    Nil = Nil
INVARIANTS
    TypeOK
    CompactionInRange
    ElectionSafety
    StateMachineSafety
    LeaderCompleteness
PROPERTIES
    AppliedStable
CHECK_DEADLOCK FALSE
SYMMETRY Symmetry
