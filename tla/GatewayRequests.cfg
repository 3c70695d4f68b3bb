SPECIFICATION Spec
CONSTANTS
    Node = {n1, n2}
    Request = {r1, r2}
    Kind = {"mutate", "create", "fill", "turn", "state"}
    Key = {k1, k2}
    Repeatable = {k1}
    Start = Start
    Noop = Noop
    CacheCap = 1
    FillCount = 2
    MaxSends = 3
    MaxOthers = 1
    MaxHops = 1
    MaxTerm = 2
    MaxIndex = 2
    None = None
INVARIANTS TypeOK LeaderAnswersOwn AckedKept
PROPERTY RetryReplayed
CHECK_DEADLOCK FALSE
SYMMETRY Symmetry
