SPECIFICATION Spec
CONSTANTS
    s = s
    Ops <- MCOps
    Spaces = {s}
    Entities <- MCEntities
    Schema <- MCSchema
    IsTombstone <- MCTombstone
    SpaceOf <- MCSpaceOf
    EntityOf <- MCEntityOf
    Parents <- MCParents
    Authorization <- MCAuthorization
    MaxHeads = 2
    Peers = {p1}
    LeaseIds = {l1, l2}
    NoLease = NoLease
    BatchSize = 2
    Workers = {w1}
    Nobody = Nobody
    PageSize = 2
    LocalOps = {"record", "edit"}
    ForeignOps = {"genesis", "grant"}
    WorkspaceAnchors <- MCNoAnchors
    PeerConfigs <- MCPaired
    Refused <- MCNoRefusals
    MaxChanges = 3
    MaxCrashes = 0
SYMMETRY Symmetry
INVARIANTS NoRejectionBehindAGap
CHECK_DEADLOCK FALSE
