CONSTANTS
    n1 = n1
    n2 = n2
    p1 = p1
    p2 = p2
    c1 = c1
    Nodes = {n1, n2}
    PVNames = {p1}
    Claims = {c1}
    NoName = NoName
    AffinityOf <- Either
    Eligible = {p1}
    PolicyOf <- AllDelete
    Delay = 2
    Faults = {"nodeReturns", "apiErrors"}
    MaxUID = 1
    MaxLag = 2
SPECIFICATION FairSpec
PROPERTIES OnlyStalePVs SparedIfNodeReturned StalePVDeleted StrandedClaimDeleted
