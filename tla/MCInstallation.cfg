SPECIFICATION FairSpec
CONSTANTS
    Nodes = {n1, n2}
    Callers = {c}
    None = None
    Torn = Torn
    Keys <- MCKeys
    FaultKinds = {"crash", "loss", "removal"}
    MaxFaults = 2
INVARIANTS IdentityIsStable 
PROPERTIES NodeComesUp
