SPECIFICATION Spec
CONSTANTS
    Node = {n1, n2, n3}
    Command = {x, y}
    CompactThreshold = 2
    Durable = FALSE
    MaxTerm = 1
    MaxIndex = 1
    MaxRestarts = 0
    MaxInFlight = 1
    Nil = Nil
INVARIANTS
    StateMachineSafety
CHECK_DEADLOCK FALSE
SYMMETRY Symmetry
