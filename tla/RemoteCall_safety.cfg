SPECIFICATION Spec
CONSTANTS
    t1 = t1  t2 = t2  c1 = c1  c2 = c2  r1 = r1  r2 = r2  r3 = r3
    Callers = {t1, t2}
    Conns = {c1, c2}
    Requests = {r1, r2, r3}
    None = None
    Apis = {"sync", "callMethod"}
    MaxId = 3
    SendMayFail = TRUE
    CallbackIds = {3}
SYMMETRY Symmetric
INVARIANTS IInv DeliveryToOpenCall NoDanglingEntry NoLostWakeup CallbackBeforeReturn
CHECK_DEADLOCK FALSE
