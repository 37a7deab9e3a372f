SPECIFICATION Spec
CONSTANTS
    Producers = {p1, p2}
    Requests = {r1, r2, r3}
    Workers = {w1, w2, w3}
    PoolSize = 2
    MayStop = TRUE
    None = None
INVARIANTS TypeOK InOnePlace IdleQueue
PROPERTIES PoolSpec SlotKept AssignedRuns QueueIsDrained
CHECK_DEADLOCK FALSE
