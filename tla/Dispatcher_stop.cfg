SPECIFICATION Spec
CONSTANTS
    Producers = {p1, p2}
    Requests = {r1, r2}
    Workers = {w1, w2}
    PoolSize = 2
    MayStop = TRUE
    None = None
INVARIANTS NoUseAfterDelete
CHECK_DEADLOCK FALSE
