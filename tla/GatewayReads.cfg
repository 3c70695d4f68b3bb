SPECIFICATION Spec
CONSTANTS
    Node = {n1, n2}
    Request = {r1}
    Kind = {"create", "state"}
    Key = {}
    Repeatable = {}
    Start = Start
    Noop = Noop
    CacheCap = 1
    FillCount = 1
    MaxSends = 2
    MaxOthers = 2
    MaxHops = 1
    MaxTerm = 2
    MaxIndex = 2
    None = None
INVARIANT ReadsSeeAcked
CHECK_DEADLOCK FALSE
SYMMETRY Symmetry
