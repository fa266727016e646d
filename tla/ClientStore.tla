------------------------------ MODULE ClientStore ------------------------------
(***************************************************************************)
(* The client's SQLite store (fractonica-client-sqlite): the immutable     *)
(* operation log, the configured peers, the per-peer delivery rows of the  *)
(* outbox with their leases, and the per-peer, per-space pull cursors.     *)
(*                                                                         *)
(* Every public method is one IMMEDIATE transaction on one mutex-protected *)
(* connection, so each is one atomic step.  Wall-clock comparisons are     *)
(* abstracted to what they decide: "due" says that a row's next attempt    *)
(* time has been reached, "expired" is the set of leases whose expiry time *)
(* has been reached.                                                       *)
(***************************************************************************)
EXTENDS OperationGraph

CONSTANTS Peers, LeaseIds, NoLease, BatchSize

ASSUME StoreAssumption ==
    /\ NoLease \notin LeaseIds
    /\ BatchSize \in Nat \ {0}

VARIABLES
    local,      \* client_operations: local_sequence of an operation, 0 if absent
    lastRow,    \* the highest local_sequence handed out
    heads,      \* client_entity_heads
    peer,       \* client_peers
    target,     \* client_peer_spaces
    delivery,   \* client_deliveries
    expired     \* leases past their expiry time

storeVars == <<local, lastRow, heads, peer, target, delivery, expired>>

DeliveryStates == {"none", "pending", "leased", "acknowledged", "rejected"}
Errors == {"none", "network", "missing", "denied"}

Delivery == [state : DeliveryStates, lease : LeaseIds \cup {NoLease},
             due : BOOLEAN, error : Errors]
PeerRow == [known : BOOLEAN, enabled : BOOLEAN, push : BOOLEAN, credential : BOOLEAN]
TargetRow == [known : BOOLEAN, mode : {"supervisor_bearer", "paired"},
              after : Nat, due : BOOLEAN]

NoDelivery == [state |-> "none", lease |-> NoLease, due |-> FALSE, error |-> "none"]
Pending == [state |-> "pending", lease |-> NoLease, due |-> TRUE, error |-> "none"]
Acknowledged == [state |-> "acknowledged", lease |-> NoLease, due |-> FALSE,
                 error |-> "none"]
NoTarget == [known |-> FALSE, mode |-> "paired", after |-> 0, due |-> FALSE]

StoreTypeOK ==
    /\ local \in [Ops -> Nat]
    /\ lastRow \in Nat
    /\ heads \in SUBSET Ops
    /\ peer \in [Peers -> PeerRow]
    /\ target \in [Peers -> [Spaces -> TargetRow]]
    /\ delivery \in [Peers -> [Ops -> Delivery]]
    /\ expired \in SUBSET LeaseIds

Stored == {o \in Ops : local[o] > 0}

StoreInit ==
    /\ local = [o \in Ops |-> 0]
    /\ lastRow = 0
    /\ heads = {}
    /\ peer = [p \in Peers |-> [known |-> FALSE, enabled |-> FALSE,
                                push |-> FALSE, credential |-> FALSE]]
    /\ target = [p \in Peers |-> [s \in Spaces |-> NoTarget]]
    /\ delivery = [p \in Peers |-> [o \in Ops |-> NoDelivery]]
    /\ expired = {}

-------------------------------------------------------------------------------
(* Which spaces a peer's outbox covers: its configured spaces, or every    *)
(* space while it has neither a transport credential nor a configured one. *)
InScope(row, spaces, s) ==
    \/ ~row.credential /\ \A t \in Spaces : ~spaces[t].known
    \/ spaces[s].known

(* INSERT OR IGNORE of pending rows for the operations of S.               *)
Backfill(rows, S) ==
    [o \in Ops |-> IF o \in S /\ rows[o].state = "none" THEN Pending ELSE rows[o]]

(* Mutant of QueueFrom: what one peer has is taken to be everywhere.       *)
QueueFrom_AllAcknowledged(o, source) ==
    [p \in Peers |->
        IF source # {} /\ peer[p].enabled THEN [delivery[p] EXCEPT ![o] = Acknowledged]
        ELSE delivery[p]]

(* apply_delivery_source: queue o for every other enabled push peer whose  *)
(* scope covers it; a source peer is recorded as already holding it.       *)
QueueFrom(o, source) ==
    [p \in Peers |->
        IF p \in source THEN [delivery[p] EXCEPT ![o] = Acknowledged]
        ELSE IF peer[p].enabled /\ peer[p].push /\ InScope(peer[p], target[p], SpaceOf[o])
        THEN Backfill(delivery[p], {o})
        ELSE delivery[p]]

(* Mutant of Committable: references are not looked up.                    *)
Committable_NoReferences(o) == o \in Stored \/ ValidTopology(o, Stored, heads)

(* commit_transaction succeeds: a replay, or references and topology hold. *)
Committable(o) ==
    o \in Stored \/ (Refs(o) \subseteq Stored /\ ValidTopology(o, Stored, heads))

(* The row insertion and head update of commit_transaction.                *)
Insert(o) ==
    IF o \in Stored
    THEN UNCHANGED <<local, lastRow, heads>>
    ELSE /\ lastRow' = lastRow + 1
         /\ local' = [local EXCEPT ![o] = lastRow + 1]
         /\ heads' = NextHeads(o, heads)

(* commit_local: an operation authored on this device.                     *)
CommitLocal(o) ==
    /\ Committable(o)
    /\ Insert(o)
    /\ delivery' = QueueFrom(o, {})
    /\ UNCHANGED <<peer, target, expired>>

(* store_workspace: genesis g and initial grant c are committed together,  *)
(* as CommitSource::Remote, that is without being queued for anyone.       *)
StoreWorkspace(g, c) ==
    LET new   == {g, c} \ Stored
        first == IF g \in Stored THEN lastRow ELSE lastRow + 1
        last  == IF c \in Stored THEN first ELSE first + 1
    IN  /\ IsGenesis(g) /\ SpaceOf[c] = SpaceOf[g] /\ EntityOf[c] # EntityOf[g]
        /\ Parents[c] = {} /\ Authorization[c] = {g}
        /\ \A o \in new : ValidTopology(o, Stored, heads)
        /\ local' = [local EXCEPT ![g] = IF g \in Stored THEN @ ELSE first,
                                  ![c] = IF c \in Stored THEN @ ELSE last]
        /\ lastRow' = last
        /\ heads' = heads \cup new
        /\ UNCHANGED <<peer, target, delivery, expired>>

(* commit_from_peer: stored, relayed to the others, acknowledged for p.    *)
CommitFromPeer(o, p) ==
    /\ peer[p].known
    /\ Committable(o)
    /\ Insert(o)
    /\ delivery' = QueueFrom(o, {p})
    /\ UNCHANGED <<peer, target, expired>>
-------------------------------------------------------------------------------
DataOps(S) == {o \in S : Schema[o] \in ClientSchemas}
OfSpace(S, s) == {o \in S : SpaceOf[o] = s}

(* upsert_peer: the row is replaced; an enabled push peer is backfilled    *)
(* with the application operations in its scope.                           *)
UpsertPeer(p, row) ==
    /\ row.known
    /\ peer' = [peer EXCEPT ![p] = row]
    /\ delivery' =
         IF row.enabled /\ row.push
         THEN [delivery EXCEPT ![p] =
                 Backfill(@, {o \in DataOps(Stored) : InScope(row, target[p], SpaceOf[o])})]
         ELSE delivery
    /\ UNCHANGED <<local, lastRow, heads, target, expired>>

(* set_peer_enabled: backfills every schema, unlike upsert_peer.           *)
SetPeerEnabled(p, enabled) ==
    /\ peer[p].known
    /\ peer' = [peer EXCEPT ![p] = [@ EXCEPT !.enabled = enabled]]
    /\ delivery' =
         IF enabled /\ peer[p].push
         THEN [delivery EXCEPT ![p] =
                 Backfill(@, {o \in Stored : InScope(peer[p], target[p], SpaceOf[o])})]
         ELSE delivery
    /\ UNCHANGED <<local, lastRow, heads, target, expired>>

(* configure_peer_space: an existing row keeps its cursor and pull time.   *)
ConfigurePeerSpace(p, s, mode) ==
    /\ peer[p].known
    /\ target' = [target EXCEPT ![p][s] =
          IF @.known THEN [@ EXCEPT !.mode = mode]
          ELSE [known |-> TRUE, mode |-> mode, after |-> 0, due |-> TRUE]]
    /\ delivery' =
         IF peer[p].enabled /\ peer[p].push
         THEN [delivery EXCEPT ![p] =
                 Backfill(@, OfSpace(IF mode = "paired" THEN Stored ELSE DataOps(Stored), s))]
         ELSE delivery
    /\ UNCHANGED <<local, lastRow, heads, peer, expired>>

(* requeue_unacknowledged_peer_space: missing application rows are added   *)
(* and every row of the space that is not acknowledged is pending again.   *)
RequeueUnacknowledged(p, s) ==
    /\ target[p][s].known
    /\ delivery' = [delivery EXCEPT ![p] =
          LET rows == Backfill(@, OfSpace(DataOps(Stored), s))
          IN  [o \in Ops |->
                 IF o \in OfSpace(Stored, s) /\ rows[o].state \notin {"none", "acknowledged"}
                 THEN Pending ELSE rows[o]]]
    /\ UNCHANGED <<local, lastRow, heads, peer, target, expired>>

-------------------------------------------------------------------------------
(* Mutant of Due: expired leases are not taken over.                       *)
Due_PendingOnly(p) ==
    {o \in Stored : delivery[p][o].state = "pending" /\ delivery[p][o].due}

(* The rows lease_due may hand out for p.                                  *)
Due(p) ==
    {o \in Stored :
        \/ delivery[p][o].state = "pending" /\ delivery[p][o].due
        \/ delivery[p][o].state = "leased" /\ delivery[p][o].lease \in expired}

(* ORDER BY local_sequence LIMIT BatchSize                                 *)
IsBatch(B, p) ==
    /\ B \subseteq Due(p)
    /\ \A o \in B, q \in Due(p) \ B : local[o] < local[q]
    /\ B # Due(p) => Cardinality(B) = BatchSize
    /\ Cardinality(B) <= BatchSize

(* lease_due: the batch B becomes leased under the fresh lease l.          *)
LeaseDue(p, l, B) ==
    /\ IF peer[p].enabled THEN IsBatch(B, p) ELSE B = {}
    /\ delivery' = [delivery EXCEPT ![p] =
          [o \in Ops |-> IF o \in B
                         THEN [@[o] EXCEPT !.state = "leased", !.lease = l, !.due = TRUE]
                         ELSE @[o]]]
    /\ expired' = expired \ {l}
    /\ UNCHANGED <<local, lastRow, heads, peer, target>>

HoldsLease(p, o, l) == delivery[p][o].state = "leased" /\ delivery[p][o].lease = l

(* Mutant of FinishDelivery: the row is updated whoever leases it.         *)
FinishDelivery_AnyLease(p, o, l, state, error) ==
    /\ delivery' = [delivery EXCEPT ![p][o] =
          [state |-> state, lease |-> NoLease, due |-> FALSE, error |-> error]]
    /\ UNCHANGED <<local, lastRow, heads, peer, target, expired>>

(* acknowledge, reject and retry are finish_delivery with another state;   *)
(* without the lease they change nothing and return LeaseMismatch.         *)
FinishDelivery(p, o, l, state, error) ==
    /\ HoldsLease(p, o, l)
    /\ delivery' = [delivery EXCEPT ![p][o] =
          [state |-> state, lease |-> NoLease, due |-> FALSE, error |-> error]]
    /\ UNCHANGED <<local, lastRow, heads, peer, target, expired>>

(* release_lease: what the batch did not attempt is pending again.         *)
ReleaseLease(p, l) ==
    /\ delivery' = [delivery EXCEPT ![p] =
          [o \in Ops |-> IF HoldsLease(p, o, l)
                         THEN [@[o] EXCEPT !.state = "pending", !.lease = NoLease]
                         ELSE @[o]]]
    /\ UNCHANGED <<local, lastRow, heads, peer, target, expired>>

(* advance_pull_cursor: compare-and-set on the cursor the page started at. *)
CursorIs(p, s, after) == target[p][s].known /\ target[p][s].after = after

AdvancePullCursor(p, s, after, next, more) ==
    /\ CursorIs(p, s, after) /\ next >= after
    /\ target' = [target EXCEPT ![p][s] = [@ EXCEPT !.after = next, !.due = more]]
    /\ UNCHANGED <<local, lastRow, heads, peer, delivery, expired>>

(* record_pull_failure: the same guard; only the next pull is put off.     *)
RecordPullFailure(p, s, after) ==
    /\ CursorIs(p, s, after)
    /\ target' = [target EXCEPT ![p][s] = [@ EXCEPT !.due = FALSE]]
    /\ UNCHANGED <<local, lastRow, heads, peer, delivery, expired>>

(* The passing of time, seen by one row or one lease.                      *)
RetryTimeReached(p, o) ==
    /\ delivery[p][o].state = "pending" /\ ~delivery[p][o].due
    /\ delivery' = [delivery EXCEPT ![p][o] = [@ EXCEPT !.due = TRUE]]
    /\ UNCHANGED <<local, lastRow, heads, peer, target, expired>>

PullTimeReached(p, s) ==
    /\ target[p][s].known /\ ~target[p][s].due
    /\ target' = [target EXCEPT ![p][s] = [@ EXCEPT !.due = TRUE]]
    /\ UNCHANGED <<local, lastRow, heads, peer, delivery, expired>>

LeaseExpires(l) ==
    /\ l \notin expired
    /\ \E p \in Peers, o \in Ops : HoldsLease(p, o, l)
    /\ expired' = expired \cup {l}
    /\ UNCHANGED <<local, lastRow, heads, peer, target, delivery>>
===============================================================================
