SPECIFICATION Spec
CONSTANTS
    Node = {n1, n2}
    Match = {m1, m2, m3}
    n1 = n1
    n2 = n2
    m1 = m1
    m2 = m2
    m3 = m3
    Ends <- LogAndAbandonment
    QueueCap = 1
    SpoolCap = 2
    MaxAttempts = 2
    TripAfter = 1
    MaxRequests = 1
    MaxFaults = 2
    None = None
INVARIANTS
    AccountedFor
    OneRowPerNode
    RatedOncePerNode
PROPERTIES
    QueueDrains
CHECK_DEADLOCK FALSE
