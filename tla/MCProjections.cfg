SPECIFICATION Spec
CONSTANTS
    Ids = {1, 2, 3}
    Entities = {1, 2}
    Starts = {1, 2}
    Limit = 1
    MaxHeads = 2
    None = None
INVARIANTS ReplicasAgree PassIsExact
