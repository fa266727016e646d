SPECIFICATION Spec
CONSTANTS
    s = s
    Ops <- MCOps
    Spaces = {s}
    Entities <- MCEntities
    Schema <- MCSchema
    IsTombstone <- MCTombstone
    SpaceOf <- MCSpaceOf
    EntityOf <- MCEntityOf
    Parents <- MCParents
    Authorization <- MCAuthorization
    MaxHeads = 2
    Peers = {p1, p2}
    LeaseIds = {l1, l2}
    NoLease = NoLease
    BatchSize = 2
    Workers = {w1, w2}
    Nobody = Nobody
    PageSize = 2
    LocalOps = {}
    ForeignOps = {"genesis", "grant"}
    WorkspaceAnchors <- MCAnchors
    PeerConfigs <- MCSupervised
    Refused <- MCNoRefusals
    MaxChanges = 2
    MaxCrashes = 0
SYMMETRY Symmetry
CHECK_DEADLOCK FALSE
INVARIANTS AcknowledgedIsHeld
PROPERTIES AcknowledgementsAreFinal
