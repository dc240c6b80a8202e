CONSTANTS
    n1 = n1
    n2 = n2
    p1 = p1
    p2 = p2
    c1 = c1
    Nodes = {n1, n2}
    PVNames = {p1, p2}
    Claims = {c1}
    NoName = NoName
    AffinityOf <- EitherAndAnywhere
    Eligible = {p1}
    PolicyOf <- RetainFirst
    Delay = 2
    Faults = {"apiErrors", "watchLag", "restart"}
    MaxUID = 2
    MaxLag = 1
SPECIFICATION Spec
INVARIANTS TypeOK DelayInv
PROPERTIES OnlyTheBoundClaim WaitsTheDelay
