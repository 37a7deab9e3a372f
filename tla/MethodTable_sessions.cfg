SPECIFICATION Spec
CONSTANTS
    k1 = k1  k2 = k2  a = a  b = b
    Clients = {k1, k2}
    Names = {a, b}
    MaxId = 2
    ServerRemoves = {a}
    ClientRemoves = {}
    RemovesUnknown = FALSE
    None = None
    Garbage = Garbage
INVARIANTS IInv MethodsResolve
SYMMETRY Symmetric
