SPECIFICATION Spec
CONSTANTS
    t1 = t1  t2 = t2  c1 = c1  c2 = c2  r1 = r1  r2 = r2  r3 = r3
    Callers = {t1, t2}
    Conns = {c1}
    Requests = {r1, r2}
    None = None
    Apis = {"sync", "callMethod"}
    MaxId = 3
    SendMayFail = FALSE
    CallbackIds = {}
INVARIANTS EntryIsAwaited
PROPERTIES ContractSpec EveryCallReturns ListenerComesBack
CHECK_DEADLOCK FALSE
