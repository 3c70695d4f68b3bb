SPECIFICATION FairSpec
CONSTANTS
    Node = {n1, n2}
    Command = {x}
    CompactThreshold = 9
    Durable = FALSE
    MaxTerm = 2
    MaxIndex = 2
    MaxRestarts = 0
    MaxInFlight = 2
    Nil = Nil
PROPERTIES
    ProposalCommits
CHECK_DEADLOCK FALSE
