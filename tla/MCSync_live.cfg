SPECIFICATION FairSpec
CONSTANTS
    s = s
    Ops <- MCOps
    Spaces = {s}
    Entities <- MCEntities
    Schema <- MCSchema
    IsTombstone <- MCTombstone
    SpaceOf <- MCSpaceOf
    EntityOf <- MCEntityOf
    Parents <- MCParents
    Authorization <- MCAuthorization
    MaxHeads = 1
    Peers = {p1}
    LeaseIds = {l1, l2}
    NoLease = NoLease
    BatchSize = 2
    Workers = {w1}
    Nobody = Nobody
    PageSize = 2
    LocalOps = {"edit"}
    ForeignOps = {"genesis", "grant", "record", "fork"}
    WorkspaceAnchors <- MCNoAnchors
    PeerConfigs <- MCPaired
    Refused <- MCNoRefusals
    MaxChanges = 2
    MaxCrashes = 1
CHECK_DEADLOCK FALSE
INVARIANTS CursorCoversLog
PROPERTIES ImplementsReplicatedLog OutboxDrains PullsCatchUp
