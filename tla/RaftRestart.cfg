SPECIFICATION Spec
CONSTANTS
    Node = {n1, n2}
    Command = {x, y}
    CompactThreshold = 1
    Durable = TRUE
    MaxTerm = 2
    MaxIndex = 2
    MaxRestarts = 1
    MaxInFlight = 2
    Nil = Nil
INVARIANTS
    FsmInStep
    LogTermsBounded
    NextIndexInRange
    StateMachineSafety
PROPERTIES
    LeaderAppendOnly
CHECK_DEADLOCK FALSE
SYMMETRY Symmetry
