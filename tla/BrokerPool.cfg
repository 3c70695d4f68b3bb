SPECIFICATION Spec
CONSTANTS
    Publisher = {p1, p2, p3}
    RaftPublisher = {p1}
    Sub = {s1}
    Worker = {w1, w2}
    BufCap = 1
    JobCap = 1
    MaxEvents = 1
    None = None
INVARIANTS DropsAudited PanicOnlyAtTeardown
PROPERTIES DeliveryImplemented HandedOver PoolsEnd
CHECK_DEADLOCK FALSE
