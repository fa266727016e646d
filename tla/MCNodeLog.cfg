SPECIFICATION NodeSpec
CONSTANTS
    s = s
    NoVisibility = NoVisibility
    NoOp = NoOp
    Ops <- MCOps
    Spaces = {s}
    Entities <- MCEntities
    Schema <- MCSchema
    IsTombstone <- MCTombstone
    SpaceOf <- MCSpaceOf
    EntityOf <- MCEntityOf
    Parents <- MCParents
    Authorization <- MCAuthorization
    MaxHeads = 2
    Actors <- MCActors
    ActorOf <- MCActorOf
    Grant <- MCGrant
    RevokedBy <- MCRevokedBy
    Declared <- MCDeclared
    MaxTime = 2
    MaxDeletions = 1
    Sessions = {d1}
    Handlers = {h1, h2}
    Requests = {"append"}
    WorkspaceOf <- MCWorkspaceOf
    Permits <- MCPermits
    ValidUntil <- MCValidUntil
    OnlineWindow = 1
    PeerMaxTime = 2
    MaxRequests = 3
    Lifetimes = {0, 1, 2}
    Drifts = {0, 1}
    MIN_REQUEST_LIFETIME_MS = 1
    MAX_REQUEST_LIFETIME_MS = 1
    MAX_FUTURE_SKEW_MS = 0
    PEER_NONCE_CLEANUP_BATCH = 1
    MAX_ACTIVE_PEER_NONCES_PER_SESSION = 2
    MaxRestarts = 1
CHECK_DEADLOCK FALSE
INVARIANTS HeadsAreTheFrontier NothingAfterRevocation DelegationNarrows SecondAnswerWasOvertaken RevokedIsNotServed
PROPERTIES ClosedWindowsStayClosed
