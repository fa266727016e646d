-------------------------------- MODULE NodeLog --------------------------------
(***************************************************************************)
(* A node's signed operation repository (fractonica-store-sqlite, with the *)
(* capability evaluation of fractonica-application): trusted bootstrap of  *)
(* a space, admission of operations under capabilities, revocation, the    *)
(* durable admission clock, and deletion of a space.                       *)
(*                                                                         *)
(* Each method runs under the connection's mutex.  submit_operation first  *)
(* commits the clock in a transaction of its own, so a refusal (or a crash *)
(* before the second transaction) leaves the clock advanced.               *)
(***************************************************************************)
EXTENDS OperationGraph

CONSTANTS
    Actors,
    ActorOf,        \* who signed an operation
    Grant,          \* what a capability.grant operation grants
    RevokedBy,      \* the grant a capability.revoke operation names
    Declared,       \* the visibility a body declares, NoVisibility if none
    NoVisibility,
    NoOp,           \* no genesis is trusted for a space
    MaxTime,        \* bound on the node's wall clock
    MaxDeletions    \* bound on deletions of a space

Visibilities == {"public", "private"}
Actions == {"append", "read", "write", "link", "issue", "revoke"}
Scopes == ClientSchemas \cup Visibilities   \* schemas and visibilities

(* not_before = None is -1 and expires_at = None is a time never reached.  *)
GrantBody == [subject : Actors, actions : SUBSET Actions, scope : SUBSET Scopes,
              bytes : Nat, depth : Nat, from : Int, until : Nat]

ASSUME NodeAssumption ==
    /\ ActorOf \in [Ops -> Actors]
    /\ Grant \in [Ops -> GrantBody]
    /\ RevokedBy \in [Ops -> Ops]
    /\ Declared \in [Ops -> Visibilities \cup {NoVisibility}]
    /\ NoVisibility \notin Visibilities /\ NoOp \notin Ops
    /\ MaxTime \in Nat /\ MaxDeletions \in Nat

IsGrant(o) == Schema[o] = "capability.grant"
IsRevoke(o) == Schema[o] = "capability.revoke"
IsClientOp(o) == Schema[o] \in ClientSchemas

VARIABLES
    seq,        \* operations: local_sequence, 0 if absent
    lastSeq,    \* AUTOINCREMENT high-water mark of local_sequence
    received,   \* received_at_unix_ms of a stored operation
    heads,      \* entity_heads
    visibility, \* client_entity_visibility
    revoked,    \* capability_grant_revocations: the grants named in it
    genesis,    \* spaces: the trusted genesis of a space
    clock,      \* node_admission_clock
    wall,       \* the node's wall clock, which may be set back
    deletions

vars == <<seq, lastSeq, received, heads, visibility, revoked, genesis, clock,
          wall, deletions>>

Admitted == {o \in Ops : seq[o] > 0}

(* The tables keep their types across admissions and deletions.            *)
TypeOK ==
    /\ seq \in [Ops -> Nat]
    /\ lastSeq \in Nat
    /\ received \in [Ops -> Nat]
    /\ heads \in SUBSET Ops
    /\ visibility \in [Spaces \X Entities -> Visibilities \cup {NoVisibility}]
    /\ revoked \in SUBSET Ops
    /\ genesis \in [Spaces -> Ops \cup {NoOp}]
    /\ clock \in Nat
    /\ wall \in 0..MaxTime
    /\ deletions \in 0..MaxDeletions

Init ==
    /\ seq = [o \in Ops |-> 0]
    /\ lastSeq = 0
    /\ received = [o \in Ops |-> 0]
    /\ heads = {}
    /\ visibility = [e \in Spaces \X Entities |-> NoVisibility]
    /\ revoked = {}
    /\ genesis = [s \in Spaces |-> NoOp]
    /\ clock = 0
    /\ wall \in 0..MaxTime
    /\ deletions = 0

-------------------------------------------------------------------------------
(* Capability evaluation.  resolve re-evaluates the whole issuer chain of  *)
(* every authorization and requires each link to permit what it is cited   *)
(* for, so it succeeds exactly when every link of the chain is good.       *)

(* The sets that hold whatever their members cite.                         *)
ClosedSets == {S \in SUBSET Ops : \A x \in S : Authorization[x] \subseteq S}
Chains == [o \in Ops |-> {x \in Ops : \A S \in ClosedSets : o \in S => x \in S}]

(* An operation with every operation its authority rests on.               *)
Chain(o) == Chains[o]

Narrower(child, parent) ==
    /\ child.actions \subseteq parent.actions
    /\ child.scope \subseteq parent.scope
    /\ child.bytes <= parent.bytes
    /\ child.from >= parent.from
    /\ child.until <= parent.until

PermitsDelegation_Widening(parent, child) ==    \* mutant: nothing is compared
    "issue" \in parent.actions /\ child.depth < parent.depth

PermitsDelegation(parent, child) ==
    /\ Narrower(child, parent)
    /\ \/ "issue" \in parent.actions /\ child.depth < parent.depth
       \/ /\ "link" \in child.actions
          /\ child.actions \cap {"issue", "revoke"} = {}
          /\ child.depth = 0

(* The genesis controller issues and revokes, but does not write data.     *)
RootPermits(o) == IsGrant(o) \/ IsRevoke(o)

GrantPermits(parent, o, vis) ==
    \/ IsClientOp(o) /\ "append" \in parent.actions /\ {Schema[o], vis} \subseteq parent.scope
    \/ IsGrant(o) /\ PermitsDelegation(parent, Grant[o])
    \/ IsRevoke(o) /\ "revoke" \in parent.actions

InWindow(grant, now) == grant.from <= now /\ now < grant.until

(* a is the trusted genesis or an admitted grant that is neither revoked   *)
(* nor outside its window.                                                 *)
LiveAuthority(a, s, trusted, now) ==
    /\ SpaceOf[a] = s
    /\ \/ IsGenesis(a) /\ a = trusted
       \/ IsGrant(a) /\ a \in Admitted \ revoked /\ InWindow(Grant[a], now)

(* x may cite a: a speaks for the signer of x and allows what x does.      *)
PermittedCitation(x, a, vis) ==
    IF IsGenesis(a)
    THEN ActorOf[a] = ActorOf[x] /\ RootPermits(x)
    ELSE Grant[a].subject = ActorOf[x] /\ GrantPermits(Grant[a], x, vis)

(* Mutant of Authorized: only the grants cited directly must be live.      *)
Authorized_Shallow(o, vis, trusted, now) ==
    /\ \A a \in Authorization[o] : LiveAuthority(a, SpaceOf[o], trusted, now)
    /\ \A x \in Chain(o) : ~IsGenesis(x) =>
          /\ Authorization[x] # {}
          /\ \A a \in Authorization[x] : PermittedCitation(x, a, vis)

(* authorize_operation_for_visibility                                      *)
Authorized(o, vis, trusted, now) ==
    /\ \A a \in Chain(o) \ {o} : LiveAuthority(a, SpaceOf[o], trusted, now)
    /\ \A x \in Chain(o) : ~IsGenesis(x) =>
          /\ Authorization[x] # {}
          /\ \A a \in Authorization[x] : PermittedCitation(x, a, vis)

-------------------------------------------------------------------------------
Later(a, b) == IF a >= b THEN a ELSE b

EffectiveTime_Wall == wall              \* mutant: the wall clock alone

(* advance_admission_clock, committed before anything else is decided.     *)
EffectiveTime == Later(clock, wall)
AdvanceClock == clock' = EffectiveTime

EntityKey(o) == <<SpaceOf[o], EntityOf[o]>>

(* visibility_for_admission: the first operation of a client entity fixes  *)
(* its visibility and a revision may not declare another.                  *)
VisibilityFor(o) ==
    IF ~IsClientOp(o) THEN NoVisibility
    ELSE IF Parents[o] = {} THEN Declared[o]
    ELSE visibility[EntityKey(o)]

VisibilityAllowed(o) ==
    IsClientOp(o) /\ Parents[o] # {} =>
        Declared[o] \in {visibility[EntityKey(o)], NoVisibility}

(* validate_references                                                     *)
ValidReferences(o) ==
    Refs(o) \subseteq Admitted /\ \A r \in Refs(o) : SpaceOf[r] = SpaceOf[o]

ValidRevocation(o) ==
    IsRevoke(o) => /\ RevokedBy[o] \in Admitted /\ IsGrant(RevokedBy[o])
                   /\ SpaceOf[RevokedBy[o]] = SpaceOf[o]

CanAdmit(o) ==
    /\ o \notin Admitted
    /\ ValidReferences(o)
    /\ ValidTopology(o, Admitted, heads)
    /\ VisibilityAllowed(o)
    /\ ValidRevocation(o)
    /\ Authorized(o, VisibilityFor(o), genesis[SpaceOf[o]], EffectiveTime)

(* insert_operation, with the rows it adds to the derived tables.          *)
InsertOperation(o) ==
    /\ lastSeq' = lastSeq + 1
    /\ seq' = [seq EXCEPT ![o] = lastSeq + 1]
    /\ received' = [received EXCEPT ![o] = EffectiveTime]
    /\ heads' = NextHeads(o, heads)
    /\ visibility' = IF IsClientOp(o) /\ Parents[o] = {} /\ Declared[o] # NoVisibility
                     THEN [visibility EXCEPT ![EntityKey(o)] = Declared[o]]
                     ELSE visibility
    /\ revoked' = IF IsRevoke(o) THEN revoked \cup {RevokedBy[o]} ELSE revoked

(* submit_operation on a trusted space.  A replay and a refusal advance    *)
(* the clock and nothing else; on an unknown space, and for a genesis, the *)
(* request is refused before the clock is read.                            *)
Submit(o) ==
    /\ ~IsGenesis(o) /\ genesis[SpaceOf[o]] # NoOp
    /\ AdvanceClock
    /\ IF CanAdmit(o)
       THEN InsertOperation(o)
       ELSE UNCHANGED <<seq, lastSeq, received, heads, visibility, revoked>>
    /\ UNCHANGED <<genesis, wall, deletions>>

(* validate_bootstrap: the controller's genesis g and its grant c of the   *)
(* canonical, unbounded and undelegable authority to another actor.        *)
IsBootstrap(g, c) ==
    /\ IsGenesis(g) /\ IsGrant(c) /\ SpaceOf[c] = SpaceOf[g]
    /\ ActorOf[c] = ActorOf[g] /\ Refs(g) = {} /\ Parents[c] = {}
    /\ Authorization[c] = {g} /\ EntityOf[c] # EntityOf[g]
    /\ Grant[c].subject # ActorOf[g]
    /\ Grant[c].actions = {"append", "read", "write", "link"}
    /\ Grant[c].scope = Scopes
    /\ Grant[c].depth = 0 /\ Grant[c].from = -1 /\ Grant[c].until > MaxTime

(* bootstrap_trusted_space: both operations and the space row in one       *)
(* transaction; a replay advances the clock and nothing else.              *)
Bootstrap(g, c) ==
    /\ IsBootstrap(g, c)
    /\ AdvanceClock
    /\ IF genesis[SpaceOf[g]] = NoOp /\ Authorized(c, NoVisibility, g, EffectiveTime)
       THEN /\ genesis' = [genesis EXCEPT ![SpaceOf[g]] = g]
            /\ lastSeq' = lastSeq + 2
            /\ seq' = [seq EXCEPT ![g] = lastSeq + 1, ![c] = lastSeq + 2]
            /\ received' = [received EXCEPT ![g] = EffectiveTime, ![c] = EffectiveTime]
            /\ heads' = heads \cup {g, c}
       ELSE UNCHANGED <<genesis, seq, lastSeq, received, heads>>
    /\ UNCHANGED <<visibility, revoked, wall, deletions>>

(* delete_space: every row of the space, in one transaction; sequence      *)
(* numbers are not reused and the clock is kept.                           *)
DeleteSpace(s) ==
    /\ genesis[s] # NoOp
    /\ deletions < MaxDeletions
    /\ deletions' = deletions + 1
    /\ genesis' = [genesis EXCEPT ![s] = NoOp]
    /\ seq' = [o \in Ops |-> IF SpaceOf[o] = s THEN 0 ELSE seq[o]]
    /\ received' = [o \in Ops |-> IF SpaceOf[o] = s THEN 0 ELSE received[o]]
    /\ heads' = {o \in heads : SpaceOf[o] # s}
    /\ revoked' = {o \in revoked : SpaceOf[o] # s}
    /\ visibility' = [e \in Spaces \X Entities |->
                         IF e[1] = s THEN NoVisibility ELSE visibility[e]]
    /\ UNCHANGED <<lastSeq, clock, wall>>

(* The operating system's clock moves, in either direction.                *)
SetWall(t) ==
    /\ wall' = t
    /\ UNCHANGED <<seq, lastSeq, received, heads, visibility, revoked, genesis,
                   clock, deletions>>

Next ==
    \/ \E o \in Ops : Submit(o)
    \/ \E g, c \in Ops : Bootstrap(g, c)
    \/ \E s \in Spaces : DeleteSpace(s)
    \/ \E t \in 0..MaxTime : SetWall(t)

Spec == Init /\ [][Next]_vars

-------------------------------------------------------------------------------
(* The log is causal: what an admitted operation refers to was admitted    *)
(* before it, in the same space (submit_operation, delete_space).          *)
AdmittedInCausalOrder ==
    \A o \in Admitted : \A r \in Refs(o) :
        r \in Admitted /\ seq[r] < seq[o] /\ SpaceOf[r] = SpaceOf[o]

(* insert_operation keeps entity_heads exactly the set of admitted         *)
(* operations that no admitted operation supersedes.                       *)
HeadsAreTheFrontier == heads = MaximalOf(Admitted)

(* An entity never has more than MAX_ENTITY_HEADS heads, so a revision     *)
(* that names them all as parents is always expressible.                   *)
HeadsAreBounded ==
    \A o \in heads : Cardinality({q \in heads : SameEntity(o, q)}) <= MaxHeads

(* Two concurrent creations of one entity never both enter: every entity   *)
(* has one root (validate_topology).                                       *)
OneRootPerEntity ==
    \A o, q \in Admitted :
        SameEntity(o, q) /\ Parents[o] = {} /\ Parents[q] = {} => o = q

(* Every declared visibility in an entity's history is the same: neither a *)
(* revision nor a fork of it publishes or hides it.                        *)
VisibilityIsImmutable ==
    \A o, q \in Admitted :
        /\ SameEntity(o, q) /\ IsClientOp(o) /\ IsClientOp(q)
        /\ Declared[o] # NoVisibility /\ Declared[q] # NoVisibility
        => Declared[o] = Declared[q]

(* Receipt times follow admission order though the wall clock is set back. *)
ReceiptsFollowOrder ==
    /\ \A o, q \in Admitted : seq[o] < seq[q] => received[o] <= received[q]
    /\ \A o \in Admitted : received[o] <= clock

(* "Revocation stops admission immediately" (docs/replication.md): nothing *)
(* is admitted on a chain through a grant after a revocation of the grant. *)
NothingAfterRevocation ==
    \A o, v \in Admitted :
        ~IsGenesis(o) /\ IsRevoke(v) /\ v # o /\ RevokedBy[v] \in Chain(o) \ {o}
            => seq[o] < seq[v]

(* "moving the system clock backwards cannot reopen a window": a step that *)
(* admits an operation finds every grant of its chain unexpired at the     *)
(* latest time the node has ever used, refused requests included.          *)
ClosedWindowsStayClosed ==
    [][\A o \in Ops : ~IsGenesis(o) /\ seq[o] = 0 /\ seq'[o] > 0 =>
          /\ \A x \in Chain(o) \ {o} : IsGrant(x) => clock < Grant[x].until
          /\ clock <= clock']_vars

(* Delegation only narrows: along an admitted chain, what a grant allows   *)
(* is allowed by every grant its authority rests on.                       *)
DelegationNarrows ==
    \A o \in Admitted : \A x \in Chain(o) :
        IsGrant(o) /\ IsGrant(x) => Narrower(Grant[o], Grant[x])
===============================================================================
