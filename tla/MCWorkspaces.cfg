SPECIFICATION Spec
CONSTANTS
    Kinds = {TRUE, FALSE}
    Spaces = {s1}
    Remote = r
    Entities = {e1, e2}
    c1 = c1
    c2 = c2
    e1 = e1
    e2 = e2
    Sessions = {k1}
    Callers = {c1, c2}
    None = None
    MaxWrites = 2
    BatchSize = 1
    MaxAttempts = 2
    MaxPairings = 1
    MaxFaults = 1
SYMMETRY Symmetric
CHECK_DEADLOCK FALSE
INVARIANTS RecordsAreAuthorized MergeIsWhole DeletedStaysDeleted
 
