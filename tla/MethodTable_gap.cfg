SPECIFICATION Spec
CONSTANTS
    k1 = k1  k2 = k2  a = a  b = b
    Clients = {k1}
    Names = {a, b}
    MaxId = 3
    ServerRemoves = {a, b}
    ClientRemoves = {}
    RemovesUnknown = FALSE
    None = None
    Garbage = Garbage
INVARIANTS NamedMethodRuns
