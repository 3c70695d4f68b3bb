SPECIFICATION Spec
CONSTANTS
    Fsm = Fsm
    Reader = {r1}
    Leaver = {l1}
    MaxTurn = 1
    MaxStart = 1
    MaxSnapshot = 1
    MaxRestore = 1
    MaxFault = 1
    None = None
INVARIANT AppliedKept
PROPERTIES SavesCurrent LookupsEnd
CHECK_DEADLOCK FALSE
