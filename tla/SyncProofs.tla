------------------------------ MODULE SyncProofs ------------------------------
(***************************************************************************)
(* What Sync's runs check on a small instance, proved for every set of     *)
(* operations, spaces, peers and workers and every batch and page size.    *)
(*                                                                         *)
(* The inductive invariant SyncInv adds the local state of a worker        *)
(* between two of its transactions: an operation it is about to            *)
(* acknowledge is at the peer, and a page it is committing, together with  *)
(* what is stored, covers everything up to the cursor it will write.       *)
(* First the facts every proof uses: each operation of the client store,   *)
(* each step of a worker and each event of the environment keeps the       *)
(* tables and the worker records in their types; the logs only grow and    *)
(* stay closed under references; what a worker remembers stays true while  *)
(* others move; and a step acknowledges only what the peer already has.    *)
(*                                                                         *)
(* The client and its nodes implement ReplicatedLog: every transaction of  *)
(* Sync is a step of the abstract log, or changes no log. And two facts    *)
(* about steps: an acknowledgement is final, and a pull cursor never goes  *)
(* back.                                                                   *)
(***************************************************************************)
EXTENDS Sync, TLAPS

(* Everything node p holds of s up to n is in the client's log.            *)
Covered(p, s, n) ==
    /\ n <= remoteLast[p]
    /\ \A o \in Held(p) : SpaceOf[o] = s /\ remote[p][o] <= n => o \in Stored

RowsBelowLast ==
    /\ \A o \in Ops : local[o] <= lastRow
    /\ \A p \in Peers, o \in Ops : remote[p][o] <= remoteLast[p]

CursorsCovered == \A p \in Peers, s \in Spaces : Covered(p, s, target[p][s].after)

(* Worker state k is consistent with the logs.                             *)
PushSound(k) ==
    /\ k.pc \in {"push", "settle", "release"} => k.peer \in Peers
    /\ k.pc = "settle" => /\ k.op \in Ops /\ k.answer # "none"
                          /\ k.answer = "ok" /\ ~IsGenesis(k.op) => k.op \in Held(k.peer)

PageCovers(k) ==
    /\ k.target.after <= k.next /\ k.next <= remoteLast[k.target.p]
    /\ k.page \subseteq Held(k.target.p)
    /\ \A o \in Held(k.target.p) :
          SpaceOf[o] = k.target.s /\ remote[k.target.p][o] <= k.next
              => o \in Stored \cup k.page

PullSound(k) ==
    /\ \A t \in k.targets : Covered(t.p, t.s, t.after)
    /\ k.pc \in {"commit", "failed"} => k.target \in Targets
    /\ k.pc = "commit" => PageCovers(k)

WorkersSound == \A w \in Workers : PushSound(worker[w]) /\ PullSound(worker[w])

SyncInv ==
    /\ TypeOK
    /\ RowsBelowLast
    /\ LogsAreCausal
    /\ HeadsAreMaximal
    /\ AcknowledgedIsHeld
    /\ CursorsCovered
    /\ WorkersSound

USE GraphAssumption, GenesisIsRoot, StoreAssumption, SyncAssumption

-------------------------------------------------------------------------------
(* Type correctness.                                                       *)

(* The delivery row values the store writes are delivery rows.             *)
LEMMA RowTypes == /\ NoDelivery \in Delivery /\ Pending \in Delivery
                  /\ Acknowledged \in Delivery /\ NoTarget \in TargetRow
BY Zenon DEF NoDelivery, Pending, Acknowledged, NoTarget, Delivery, DeliveryStates, Errors,
       TargetRow

(* An idle worker's state is well typed.                                   *)
LEMMA IdleType == Idle \in WorkerState
BY Zenon DEF Idle, WorkerState, Steps, Answers

(* The empty store satisfies its type.                                     *)
LEMMA InitType == Init => TypeOK
<1> SUFFICES ASSUME Init PROVE TypeOK BY Zenon
<1>1. StoreTypeOK
  BY RowTypes, Zenon DEF Init, StoreInit, StoreTypeOK, PeerRow
<1> QED BY <1>1, IdleType DEF Init, TypeOK

(* INSERT OR IGNORE keeps a delivery table a delivery table.               *)
LEMMA BackfillType ==
    ASSUME NEW rows \in [Ops -> Delivery], NEW S
    PROVE  Backfill(rows, S) \in [Ops -> Delivery]
BY RowTypes, Zenon DEF Backfill

(* So does apply_delivery_source.                                          *)
LEMMA QueueFromType ==
    ASSUME StoreTypeOK, NEW o \in Ops, NEW source
    PROVE  QueueFrom(o, source) \in [Peers -> [Ops -> Delivery]]
<1> SUFFICES ASSUME NEW p \in Peers
             PROVE  QueueFrom(o, source)[p] \in [Ops -> Delivery]
  BY Zenon DEF QueueFrom
<1>1. delivery[p] \in [Ops -> Delivery] BY Zenon DEF StoreTypeOK
<1>2. [delivery[p] EXCEPT ![o] = Acknowledged] \in [Ops -> Delivery]
  BY <1>1, RowTypes, Zenon
<1>3. Backfill(delivery[p], {o}) \in [Ops -> Delivery]
  BY <1>1, BackfillType, Zenon
<1> QED BY <1>1, <1>2, <1>3, Zenon DEF QueueFrom

(* commit_transaction keeps the store's tables typed.                      *)
LEMMA InsertType ==
    ASSUME StoreTypeOK, NEW o \in Ops, Insert(o)
    PROVE  local' \in [Ops -> Nat] /\ lastRow' \in Nat /\ heads' \in SUBSET Ops
BY DEF StoreTypeOK, Insert, NextHeads

(* Committing an operation, from this device or from a peer.               *)
LEMMA CommitType ==
    ASSUME StoreTypeOK, NEW o \in Ops, NEW p \in Peers,
           CommitLocal(o) \/ CommitFromPeer(o, p)
    PROVE  StoreTypeOK'
BY InsertType, QueueFromType DEF CommitLocal, CommitFromPeer, StoreTypeOK

(* Storing a workspace.                                                    *)
LEMMA StoreWorkspaceType ==
    ASSUME StoreTypeOK, NEW g \in Ops, NEW c \in Ops, StoreWorkspace(g, c)
    PROVE  StoreTypeOK'
<1>1. lastRow' \in Nat BY DEF StoreWorkspace, StoreTypeOK
<1>2. local' \in [Ops -> Nat]
  <2> DEFINE first == IF g \in Stored THEN lastRow ELSE lastRow + 1
             last  == IF c \in Stored THEN first ELSE first + 1
  <2>1. first \in Nat /\ last \in Nat BY DEF StoreTypeOK
  <2>2. local' = [local EXCEPT ![g] = IF g \in Stored THEN @ ELSE first,
                               ![c] = IF c \in Stored THEN @ ELSE last]
    BY Zenon DEF StoreWorkspace
  <2> HIDE DEF first, last
  <2> QED BY <2>1, <2>2, Zenon DEF StoreTypeOK
<1>3. heads' = heads \cup ({g, c} \ Stored) BY Zenon DEF StoreWorkspace
<1>4. heads' \in SUBSET Ops BY <1>3, Zenon DEF StoreTypeOK
<1> QED BY <1>1, <1>2, <1>4, Zenon DEF StoreWorkspace, StoreTypeOK

(* The configuration of a peer.                                            *)
LEMMA UpsertPeerType ==
    ASSUME StoreTypeOK, NEW p \in Peers, NEW row \in PeerRow, UpsertPeer(p, row)
    PROVE  StoreTypeOK'
<1>1. peer' \in [Peers -> PeerRow] BY Zenon DEF UpsertPeer, StoreTypeOK
<1>2. delivery' \in [Peers -> [Ops -> Delivery]]
  <2>1. delivery[p] \in [Ops -> Delivery] BY Zenon DEF StoreTypeOK
  <2>2. \A S : Backfill(delivery[p], S) \in [Ops -> Delivery] BY <2>1, BackfillType, Zenon
  <2> QED BY <2>2, Zenon DEF UpsertPeer, StoreTypeOK
<1> QED BY <1>1, <1>2, Zenon DEF UpsertPeer, StoreTypeOK

(* Enabling or disabling a peer.                                           *)
LEMMA SetPeerEnabledType ==
    ASSUME StoreTypeOK, NEW p \in Peers, NEW e \in BOOLEAN, SetPeerEnabled(p, e)
    PROVE  StoreTypeOK'
<1>1. peer' \in [Peers -> PeerRow]
  <2>1. peer[p] \in PeerRow BY Zenon DEF StoreTypeOK
  <2>2. [peer[p] EXCEPT !.enabled = e] \in PeerRow BY <2>1, Zenon DEF PeerRow
  <2> QED BY <2>2, Zenon DEF SetPeerEnabled, StoreTypeOK
<1>2. delivery' \in [Peers -> [Ops -> Delivery]]
  <2>1. delivery[p] \in [Ops -> Delivery] BY Zenon DEF StoreTypeOK
  <2>2. \A S : Backfill(delivery[p], S) \in [Ops -> Delivery] BY <2>1, BackfillType, Zenon
  <2> QED BY <2>2, Zenon DEF SetPeerEnabled, StoreTypeOK
<1> QED BY <1>1, <1>2, Zenon DEF SetPeerEnabled, StoreTypeOK

(* Configuring a space, new or known.                                      *)
LEMMA ConfigurePeerSpaceType ==
    ASSUME StoreTypeOK, NEW p \in Peers, NEW s \in Spaces,
           NEW m \in {"supervisor_bearer", "paired"}, ConfigurePeerSpace(p, s, m)
    PROVE  StoreTypeOK'
<1>1. target' \in [Peers -> [Spaces -> TargetRow]]
  <2>1. target[p][s] \in TargetRow BY DEF StoreTypeOK
  <2>2. (IF target[p][s].known THEN [target[p][s] EXCEPT !.mode = m]
         ELSE [known |-> TRUE, mode |-> m, after |-> 0, due |-> TRUE]) \in TargetRow
    BY <2>1, Zenon DEF TargetRow
  <2> QED BY <2>2, Zenon DEF ConfigurePeerSpace, StoreTypeOK
<1>2. delivery' \in [Peers -> [Ops -> Delivery]]
  <2>1. delivery[p] \in [Ops -> Delivery] BY Zenon DEF StoreTypeOK
  <2>2. \A S : Backfill(delivery[p], S) \in [Ops -> Delivery] BY <2>1, BackfillType, Zenon
  <2> QED BY <2>2, Zenon DEF ConfigurePeerSpace, StoreTypeOK
<1> QED BY <1>1, <1>2, Zenon DEF ConfigurePeerSpace, StoreTypeOK

(* Requeueing what a peer has not acknowledged.                            *)
LEMMA RequeueType ==
    ASSUME StoreTypeOK, NEW p \in Peers, NEW s \in Spaces, RequeueUnacknowledged(p, s)
    PROVE  StoreTypeOK'
<1>1. delivery' \in [Peers -> [Ops -> Delivery]]
  <2>1. delivery[p] \in [Ops -> Delivery] BY Zenon DEF StoreTypeOK
  <2> DEFINE rows == Backfill(delivery[p], OfSpace(DataOps(Stored), s))
             new  == [o \in Ops |->
                 IF o \in OfSpace(Stored, s) /\ rows[o].state \notin {"none", "acknowledged"}
                 THEN Pending ELSE rows[o]]
  <2>2. rows \in [Ops -> Delivery] BY <2>1, BackfillType, Zenon
  <2>3. new \in [Ops -> Delivery] BY <2>2, RowTypes, Zenon
  <2>4. delivery' = [delivery EXCEPT ![p] = new] BY Zenon DEF RequeueUnacknowledged
  <2> HIDE DEF new
  <2> QED BY <2>3, <2>4, Zenon DEF StoreTypeOK
<1> QED BY <1>1, Zenon DEF RequeueUnacknowledged, StoreTypeOK

(* The lease and settlement of deliveries.                                 *)
LEMMA LeaseDueType ==
    ASSUME StoreTypeOK, NEW p \in Peers, NEW l \in LeaseIds, NEW B \in SUBSET Ops,
           LeaseDue(p, l, B)
    PROVE  StoreTypeOK'
<1>1. delivery' \in [Peers -> [Ops -> Delivery]]
  <2>1. \A o \in Ops : delivery[p][o] \in Delivery BY DEF StoreTypeOK
  <2> DEFINE new == [o \in Ops |->
               IF o \in B
               THEN [delivery[p][o] EXCEPT !.state = "leased", !.lease = l, !.due = TRUE]
               ELSE delivery[p][o]]
  <2>2. new \in [Ops -> Delivery] BY <2>1, ZenonT(30) DEF Delivery, DeliveryStates
  <2>3. delivery' = [delivery EXCEPT ![p] = new] BY Zenon DEF LeaseDue
  <2> HIDE DEF new
  <2> QED BY <2>2, <2>3, Zenon DEF StoreTypeOK
<1> QED BY <1>1, Zenon DEF LeaseDue, StoreTypeOK

(* Settling one delivery.                                                  *)
LEMMA FinishDeliveryType ==
    ASSUME StoreTypeOK, NEW p \in Peers, NEW o \in Ops, NEW l,
           NEW st \in DeliveryStates, NEW e \in Errors, FinishDelivery(p, o, l, st, e)
    PROVE  StoreTypeOK'
<1>1. [state |-> st, lease |-> NoLease, due |-> FALSE, error |-> e] \in Delivery
  BY Zenon DEF Delivery
<1>2. delivery' \in [Peers -> [Ops -> Delivery]]
  BY <1>1, Zenon DEF FinishDelivery, StoreTypeOK
<1> QED BY <1>2, Zenon DEF FinishDelivery, StoreTypeOK

(* Giving up what remains of a batch.                                      *)
LEMMA ReleaseLeaseType ==
    ASSUME StoreTypeOK, NEW p \in Peers, NEW l, ReleaseLease(p, l)
    PROVE  StoreTypeOK'
<1>1. delivery' \in [Peers -> [Ops -> Delivery]]
  <2>1. \A o \in Ops : delivery[p][o] \in Delivery BY DEF StoreTypeOK
  <2> DEFINE new == [o \in Ops |->
               IF HoldsLease(p, o, l)
               THEN [delivery[p][o] EXCEPT !.state = "pending", !.lease = NoLease]
               ELSE delivery[p][o]]
  <2>2. new \in [Ops -> Delivery] BY <2>1, ZenonT(30) DEF Delivery, DeliveryStates
  <2>3. delivery' = [delivery EXCEPT ![p] = new] BY Zenon DEF ReleaseLease
  <2> HIDE DEF new
  <2> QED BY <2>2, <2>3, Zenon DEF StoreTypeOK
<1> QED BY <1>1, Zenon DEF ReleaseLease, StoreTypeOK

(* The pull cursor.                                                        *)
LEMMA CursorType ==
    ASSUME StoreTypeOK, NEW p \in Peers, NEW s \in Spaces, NEW n, NEW next \in Nat,
           NEW more \in BOOLEAN,
           AdvancePullCursor(p, s, n, next, more) \/ RecordPullFailure(p, s, n)
    PROVE  StoreTypeOK'
<1>1. target[p][s] \in TargetRow BY DEF StoreTypeOK
<1>2. /\ [target[p][s] EXCEPT !.after = next, !.due = more] \in TargetRow
      /\ [target[p][s] EXCEPT !.due = FALSE] \in TargetRow
  BY <1>1, Zenon DEF TargetRow
<1>3. target' \in [Peers -> [Spaces -> TargetRow]]
  <2> DEFINE advanced == [target[p][s] EXCEPT !.after = next, !.due = more]
             delayed  == [target[p][s] EXCEPT !.due = FALSE]
  <2>1. \/ target' = [target EXCEPT ![p][s] = advanced]
        \/ target' = [target EXCEPT ![p][s] = delayed]
    BY Zenon DEF AdvancePullCursor, RecordPullFailure
  <2>2. advanced \in TargetRow /\ delayed \in TargetRow BY <1>2, Zenon
  <2> HIDE DEF advanced, delayed
  <2>3. CASE target' = [target EXCEPT ![p][s] = advanced]
    BY <2>2, <2>3, Zenon DEF StoreTypeOK
  <2>4. CASE target' = [target EXCEPT ![p][s] = delayed]
    BY <2>2, <2>4, Zenon DEF StoreTypeOK
  <2> QED BY <2>1, <2>3, <2>4, Zenon
<1> QED BY <1>3, Zenon DEF AdvancePullCursor, RecordPullFailure, StoreTypeOK

(* A worker that moves to a well-typed state leaves the workers typed.     *)
LEMMA BecomeType ==
    ASSUME TypeOK, NEW w \in Workers, NEW k \in WorkerState, Become(w, k)
    PROVE  worker' \in [Workers -> WorkerState]
BY Zenon DEF TypeOK, Become

(* A node's log stays typed as it grows.                                   *)
LEMMA NodeSubmitType ==
    ASSUME TypeOK, NEW p \in Peers, NEW o \in Ops, NodeSubmit(p, o) \/ NodeAppend(p, o)
    PROVE  remote' \in [Peers -> [Ops -> Nat]] /\ remoteLast' \in [Peers -> Nat]
<1>1. CASE NodeAppend(p, o)
  <2>1. remoteLast[p] \in Nat /\ remoteLast[p] + 1 \in Nat BY DEF TypeOK
  <2>2. remoteLast' \in [Peers -> Nat] BY <1>1, <2>1, Zenon DEF NodeAppend, TypeOK
  <2>3. remote' \in [Peers -> [Ops -> Nat]] BY <1>1, <2>1, Zenon DEF NodeAppend, TypeOK
  <2> QED BY <2>2, <2>3, Zenon
<1>2. CASE UNCHANGED nodeVars BY <1>2, Zenon DEF nodeVars, TypeOK
<1> QED BY <1>1, <1>2, Zenon DEF NodeSubmit

(* Where a worker goes once a delivery is settled.                         *)
LEMMA AfterSettleType ==
    ASSUME NEW w, worker[w] \in WorkerState
    PROVE  AfterSettle(w) \in WorkerState
<1> DEFINE k == worker[w]
<1>1. [k EXCEPT !.pc = "release", !.op = Nobody, !.answer = "none"] \in WorkerState
  BY Zenon DEF WorkerState, Steps, Answers
<1>2. [Idle EXCEPT !.pc = "peers", !.todo = k.todo] \in WorkerState
  BY IdleType, Zenon DEF WorkerState, Steps
<1>3. [k EXCEPT !.pc = "push", !.op = Nobody, !.answer = "none", !.batch = k.batch \ {k.op}]
         \in WorkerState
  BY Zenon DEF WorkerState, Steps, Answers
<1> QED BY <1>1, <1>2, <1>3, Zenon DEF AfterSettle

(* Steps of the push phase keep every variable typed.                      *)
LEMMA PushPhaseType ==
    ASSUME TypeOK, WorkersSound, NEW w \in Workers, PushPhase(w)
    PROVE  TypeOK'
<1> DEFINE k == worker[w]
<1>0. k \in WorkerState /\ PushSound(k) BY Zenon DEF TypeOK, WorkersSound
<1>1. CASE BeginCycle(w)
  <2>1. [Idle EXCEPT !.pc = "peers", !.todo = {p \in Peers : peer[p].enabled}] \in WorkerState
    BY IdleType, Zenon DEF WorkerState, Steps
  <2>2. worker' \in [Workers -> WorkerState] BY <1>1, <2>1, BecomeType, Zenon DEF BeginCycle
  <2> QED BY <1>1, <2>2, Zenon DEF BeginCycle, TypeOK, StoreTypeOK, storeVars, nodeVars
<1>2. ASSUME NEW p \in Peers, Lease(w, p) PROVE TypeOK'
  <2>1. PICK l \in LeaseIds, B \in SUBSET Ops :
          /\ LeaseDue(p, l, B)
          /\ Become(w, IF B = {}
                       THEN [k EXCEPT !.todo = @ \ {p}]
                       ELSE [k EXCEPT !.todo = @ \ {p}, !.pc = "push",
                                      !.peer = p, !.lease = l, !.batch = B])
    BY <1>2, Zenon DEF Lease
  <2>2. StoreTypeOK' BY <2>1, LeaseDueType, Zenon DEF TypeOK
  <2>3. [k EXCEPT !.todo = @ \ {p}] \in WorkerState BY <1>0, Zenon DEF WorkerState
  <2>4. [k EXCEPT !.todo = @ \ {p}, !.pc = "push",
                  !.peer = p, !.lease = l, !.batch = B] \in WorkerState
    BY <1>0, Zenon DEF WorkerState, Steps
  <2>5. worker' \in [Workers -> WorkerState] BY <2>1, <2>3, <2>4, BecomeType, Zenon
  <2> QED BY <1>2, <2>2, <2>5, Zenon DEF Lease, TypeOK, nodeVars
<1>3. ASSUME NEW o \in k.batch,
             Push(w, o) \/ PushRequestLost(w, o) \/ PushAnswerLost(w, o)
      PROVE  TypeOK'
  <2>1. o \in Ops /\ k.peer \in Peers
    BY <1>0, <1>3, Zenon DEF WorkerState, PushSound, Push, PushRequestLost, PushAnswerLost,
                      Current, At
  <2>2. \A a \in Answers : [k EXCEPT !.pc = "settle", !.op = o, !.answer = a] \in WorkerState
    BY <1>0, <2>1, Zenon DEF WorkerState, Steps
  <2>3. NodeAnswer(k.peer, o) \in Answers /\ "network" \in Answers
    BY Zenon DEF NodeAnswer, Answers
  <2>4. worker' \in [Workers -> WorkerState]
    BY <1>3, <2>2, <2>3, BecomeType, Zenon DEF Push, PushRequestLost, PushAnswerLost, Answered
  <2>5. remote' \in [Peers -> [Ops -> Nat]] /\ remoteLast' \in [Peers -> Nat]
    BY <1>3, <2>1, NodeSubmitType, Zenon DEF Push, PushRequestLost, PushAnswerLost, nodeVars, TypeOK
  <2> QED BY <1>3, <2>4, <2>5, Zenon DEF Push, PushRequestLost, PushAnswerLost, TypeOK,
                                 StoreTypeOK, storeVars
<1>4. CASE Settle(w)
  <2>1. k.peer \in Peers /\ k.op \in Ops BY <1>0, <1>4, Zenon DEF Settle, At, PushSound
  <2> DEFINE st == NewState(k.answer)
             er == IF k.answer = "ok" THEN "none" ELSE k.answer
  <2>2. k.answer \in Answers BY <1>0, Zenon DEF WorkerState
  <2>3. k.answer # "none" BY <1>0, <1>4, Zenon DEF Settle, At, PushSound
  <2>4. st \in DeliveryStates /\ er \in Errors
    BY <2>2, <2>3, Zenon DEF NewState, Answers, DeliveryStates, Errors
  <2>5. StoreTypeOK'
    BY <1>4, <2>1, <2>4, FinishDeliveryType, Zenon DEF Settle, TypeOK
  <2>6. AfterSettle(w) \in WorkerState BY <1>0, AfterSettleType, Zenon
  <2>7. worker' \in [Workers -> WorkerState] BY <1>4, <2>6, BecomeType, Zenon DEF Settle
  <2> QED BY <1>4, <2>5, <2>7, Zenon DEF Settle, TypeOK, nodeVars
<1>5. CASE SettleMismatch(w)
  <2>1. worker' \in [Workers -> WorkerState]
    BY <1>5, IdleType, BecomeType, Zenon DEF SettleMismatch, Abort
  <2> QED BY <1>5, <2>1, Zenon DEF SettleMismatch, TypeOK, StoreTypeOK, storeVars, nodeVars
<1>6. CASE Release(w)
  <2>1. k.peer \in Peers BY <1>0, <1>6, Zenon DEF Release, At, PushSound
  <2>2. [Idle EXCEPT !.pc = "peers", !.todo = k.todo] \in WorkerState
    BY <1>0, IdleType, Zenon DEF WorkerState, Steps
  <2>3. worker' \in [Workers -> WorkerState] BY <1>6, <2>2, BecomeType, Zenon DEF Release
  <2>4. StoreTypeOK' BY <1>6, <2>1, ReleaseLeaseType, Zenon DEF Release, TypeOK
  <2> QED BY <1>6, <2>3, <2>4, Zenon DEF Release, TypeOK, nodeVars
<1> QED BY <1>1, <1>2, <1>3, <1>4, <1>5, <1>6, Zenon DEF PushPhase

(* Steps of the pull phase keep every variable typed.                      *)
LEMMA PullPhaseType ==
    ASSUME TypeOK, WorkersSound, NEW w \in Workers, PullPhase(w)
    PROVE  TypeOK'
<1> DEFINE k == worker[w]
<1>0. k \in WorkerState /\ PullSound(k) BY Zenon DEF TypeOK, WorkersSound
<1>1. CASE ScanTargets(w)
  <2>1. DueTargets \subseteq Targets
    <3>1. \A p \in Peers, s \in Spaces : target[p][s].after \in Nat
      BY DEF TypeOK, StoreTypeOK, TargetRow
    <3> QED BY <3>1 DEF DueTargets, Targets
  <2>2. [Idle EXCEPT !.pc = "targets", !.targets = DueTargets] \in WorkerState
    BY <2>1, IdleType, Zenon DEF WorkerState, Steps
  <2>3. worker' \in [Workers -> WorkerState] BY <1>1, <2>2, BecomeType, Zenon DEF ScanTargets
  <2> QED BY <1>1, <2>3, Zenon DEF ScanTargets, TypeOK, StoreTypeOK, storeVars, nodeVars
<1>2. ASSUME NEW t \in k.targets, Pull(w, t) \/ PullFails(w, t) PROVE TypeOK'
  <2>1. t \in Targets BY <1>0, Zenon DEF WorkerState
  <2>2. t.p \in Peers /\ t.after \in Nat BY <2>1, Zenon DEF Targets
  <2>3. \A n \in Nat, P \in SUBSET Ops, m \in BOOLEAN :
          [k EXCEPT !.pc = "commit", !.targets = @ \ {t}, !.target = t, !.page = P,
                    !.next = n, !.more = m] \in WorkerState
    BY <1>0, <2>1, Zenon DEF WorkerState, Steps
  <2>4. [k EXCEPT !.pc = "failed", !.targets = @ \ {t}, !.target = t] \in WorkerState
    BY <1>0, <2>1, Zenon DEF WorkerState, Steps
  <2>5. CASE Pull(w, t)
    <3>1. \A o \in Ops : remote[t.p][o] \in Nat BY <2>2 DEF TypeOK
    <3>2. PICK P \in SUBSET Ops, n \in {t.after} \cup {remote[t.p][o] : o \in Ops} :
            Become(w, [k EXCEPT
               !.pc = "commit", !.targets = @ \ {t}, !.target = t, !.page = P,
               !.next = n, !.more = (P # After(t.p, t.s, t.after))])
      BY <2>5, Zenon DEF Pull
    <3>3. n \in Nat BY <2>2, <3>1
    <3>4. worker' \in [Workers -> WorkerState] BY <2>3, <3>2, <3>3, BecomeType, Zenon
    <3> QED BY <2>5, <3>4, Zenon DEF Pull, TypeOK, StoreTypeOK, storeVars, nodeVars
  <2>6. CASE PullFails(w, t)
    <3>1. worker' \in [Workers -> WorkerState] BY <2>4, <2>6, BecomeType, Zenon DEF PullFails
    <3> QED BY <2>6, <3>1, Zenon DEF PullFails, TypeOK, StoreTypeOK, storeVars, nodeVars
  <2> QED BY <1>2, <2>5, <2>6, Zenon
<1>3. ASSUME NEW o \in k.page, CommitPulled(w, o) PROVE TypeOK'
  <2>1. o \in Ops /\ k.target.p \in Peers
    BY <1>0, <1>3, Zenon DEF WorkerState, PullSound, CommitPulled, NextPulled, At, Targets
  <2>2. StoreTypeOK' BY <1>3, <2>1, CommitType, Zenon DEF CommitPulled, TypeOK
  <2>3. [k EXCEPT !.page = @ \ {o}] \in WorkerState BY <1>0, Zenon DEF WorkerState
  <2>4. worker' \in [Workers -> WorkerState] BY <1>3, <2>3, BecomeType, Zenon DEF CommitPulled
  <2> QED BY <1>3, <2>2, <2>4, Zenon DEF CommitPulled, TypeOK, nodeVars
<1>4. ASSUME NEW o \in k.page, CommitFails(w, o) PROVE TypeOK'
  <2>1. worker' \in [Workers -> WorkerState]
    BY <1>4, IdleType, BecomeType, Zenon DEF CommitFails, Abort
  <2> QED BY <1>4, <2>1, Zenon DEF CommitFails, TypeOK, StoreTypeOK, storeVars, nodeVars
<1>5. CASE Advance(w) \/ RecordFailure(w)
  <2>1. k.target.p \in Peers /\ k.target.s \in Spaces /\ k.next \in Nat /\ k.more \in BOOLEAN
    BY <1>0, <1>5, Zenon DEF WorkerState, PullSound, Advance, RecordFailure, At, Targets
  <2>2. StoreTypeOK'
    <3>0. StoreTypeOK BY Zenon DEF TypeOK
    <3>1. \/ AdvancePullCursor(k.target.p, k.target.s, k.target.after, k.next, k.more)
          \/ RecordPullFailure(k.target.p, k.target.s, k.target.after)
      BY <1>5, Zenon DEF Advance, RecordFailure
    <3>2. ASSUME NEW p \in Peers, NEW s \in Spaces, NEW n, NEW next \in Nat,
                 NEW more \in BOOLEAN,
                 AdvancePullCursor(p, s, n, next, more) \/ RecordPullFailure(p, s, n)
          PROVE  StoreTypeOK'
      BY <3>0, <3>2, CursorType
    <3> HIDE DEF k
    <3> QED BY ONLY <2>1, <3>1, <3>2, Zenon
  <2>3. NextTarget(w) \in WorkerState
    BY <1>0, IdleType, Zenon DEF NextTarget, WorkerState, Steps
  <2>4. worker' \in [Workers -> WorkerState]
    BY <1>5, <2>3, BecomeType, Zenon DEF Advance, RecordFailure
  <2> QED BY <1>5, <2>2, <2>4, Zenon DEF Advance, RecordFailure, TypeOK, nodeVars
<1>6. CASE CursorMismatch(w) \/ EndCycle(w)
  <2>1. worker' \in [Workers -> WorkerState]
    BY <1>6, IdleType, BecomeType, Zenon DEF CursorMismatch, EndCycle, Abort
  <2> QED BY <1>6, <2>1, Zenon DEF CursorMismatch, EndCycle, TypeOK, StoreTypeOK, storeVars,
                           nodeVars
<1> QED BY <1>1, <1>2, <1>3, <1>4, <1>5, <1>6, Zenon DEF PullPhase

(* Steps of the application, the nodes and time keep every variable typed. *)
LEMMA EnvironmentType ==
    ASSUME TypeOK, Environment
    PROVE  TypeOK'
<1>1. ASSUME NEW o \in Ops, Author(o) PROVE TypeOK'
  <2>1. StoreTypeOK'
    BY <1>1, InsertType, QueueFromType, Zenon DEF Author, CommitLocal, StoreTypeOK, TypeOK
  <2> QED BY <1>1, <2>1, Zenon DEF Author, TypeOK, nodeVars
<1>2. ASSUME NEW a \in WorkspaceAnchors, NewWorkspace(a) PROVE TypeOK'
  <2>1. a[1] \in Ops /\ a[2] \in Ops BY Zenon
  <2>2. StoreTypeOK' BY <1>2, <2>1, StoreWorkspaceType, Zenon DEF NewWorkspace, TypeOK
  <2> QED BY <1>2, <2>2, Zenon DEF NewWorkspace, TypeOK, nodeVars
<1>3. ASSUME NEW p \in Peers, Configure(p) PROVE TypeOK'
  <2>1. \A row \in PeerConfigs : row \in PeerRow BY Zenon
  <2>2. StoreTypeOK'
    BY <1>3, <2>1, UpsertPeerType, SetPeerEnabledType, ConfigurePeerSpaceType, RequeueType
       DEF Configure, TypeOK
  <2>3. budget' \in [changes : 0..MaxChanges, crashes : 0..MaxCrashes]
    BY <1>3 DEF Configure, TypeOK
  <2> QED BY <1>3, <2>2, <2>3, Zenon DEF Configure, TypeOK, nodeVars
<1>4. ASSUME NEW p \in Peers, NEW o \in Ops, Import(o, p) PROVE TypeOK'
  <2>1. StoreTypeOK' BY <1>4, CommitType, Zenon DEF Import, TypeOK
  <2> QED BY <1>4, <2>1, Zenon DEF Import, TypeOK, nodeVars
<1>5. ASSUME NEW p \in Peers, NEW o \in Ops, ForeignSubmit(p, o) PROVE TypeOK'
  <2>1. remote' \in [Peers -> [Ops -> Nat]] /\ remoteLast' \in [Peers -> Nat]
    BY <1>5, NodeSubmitType, Zenon DEF ForeignSubmit
  <2> QED BY <1>5, <2>1, Zenon DEF ForeignSubmit, TypeOK, StoreTypeOK, storeVars
<1>6. CASE TimePasses
  <2>1. ASSUME NEW p \in Peers, NEW o \in Ops, RetryTimeReached(p, o) PROVE StoreTypeOK'
    <3>1. [delivery[p][o] EXCEPT !.due = TRUE] \in Delivery
      <4>1. delivery[p][o] \in Delivery BY DEF TypeOK, StoreTypeOK
      <4> QED BY <4>1, Zenon DEF Delivery
    <3>2. delivery' \in [Peers -> [Ops -> Delivery]]
      BY <2>1, <3>1, Zenon DEF RetryTimeReached, TypeOK, StoreTypeOK
    <3> QED BY <2>1, <3>2, Zenon DEF RetryTimeReached, TypeOK, StoreTypeOK
  <2>2. ASSUME NEW p \in Peers, NEW s \in Spaces, PullTimeReached(p, s) PROVE StoreTypeOK'
    <3>1. [target[p][s] EXCEPT !.due = TRUE] \in TargetRow
      <4>1. target[p][s] \in TargetRow BY DEF TypeOK, StoreTypeOK
      <4> QED BY <4>1, Zenon DEF TargetRow
    <3>2. target' \in [Peers -> [Spaces -> TargetRow]]
      BY <2>2, <3>1, Zenon DEF PullTimeReached, TypeOK, StoreTypeOK
    <3> QED BY <2>2, <3>2, Zenon DEF PullTimeReached, TypeOK, StoreTypeOK
  <2>3. ASSUME NEW l \in LeaseIds, LeaseExpires(l) PROVE StoreTypeOK'
    BY <2>3, Zenon DEF LeaseExpires, TypeOK, StoreTypeOK
  <2>4. StoreTypeOK' BY <1>6, <2>1, <2>2, <2>3, Zenon DEF TimePasses
  <2> QED BY <1>6, <2>4, Zenon DEF TimePasses, TypeOK, nodeVars
<1>7. CASE Crash
  <2>1. worker' \in [Workers -> WorkerState] BY <1>7, IdleType, Zenon DEF Crash
  <2>2. budget' \in [changes : 0..MaxChanges, crashes : 0..MaxCrashes]
    BY <1>7 DEF Crash, TypeOK
  <2> QED BY <1>7, <2>1, <2>2, Zenon DEF Crash, TypeOK, StoreTypeOK, storeVars, nodeVars
<1> QED BY <1>1, <1>2, <1>3, <1>4, <1>5, <1>6, <1>7, Zenon DEF Environment

-------------------------------------------------------------------------------
(* The logs.  A step adds at most one operation to one node's log and      *)
(* commits at most one operation, or a workspace's two, to the client's.   *)

NodesGrow ==
    \/ UNCHANGED nodeVars
    \/ \E p \in Peers, o \in Ops :
          o \notin Held(p) /\ Refs(o) \subseteq Held(p) /\ NodeAppend(p, o)

ClientGrows ==
    \/ UNCHANGED <<local, lastRow, heads>>
    \/ \E o \in Ops : o \notin Stored /\ Refs(o) \subseteq Stored /\ Insert(o)
    \/ \E g, c \in Ops : StoreWorkspace(g, c)

(* A genesis refers to nothing.                                            *)
LEMMA GenesisRefs == \A o \in Ops : IsGenesis(o) => Refs(o) = {}
<1> SUFFICES ASSUME NEW o \in Ops, IsGenesis(o) PROVE Refs(o) = {} BY Zenon
<1>1. Authorization[o] = {} /\ Parents[o] = {} BY Zenon DEF IsGenesis
<1> QED BY <1>1, Zenon DEF Refs

(* An admitted operation is new to the node, which holds its references.   *)
LEMMA SubmitGrows ==
    ASSUME NEW p \in Peers, NEW o \in Ops, NodeSubmit(p, o)
    PROVE  NodesGrow
BY Zenon DEF NodeSubmit, Admits, NodeAnswer, NodesGrow

(* A commit adds the operation after its references, or is a replay.       *)
LEMMA CommitGrows ==
    ASSUME NEW o \in Ops, Committable(o), Insert(o)
    PROVE  ClientGrows
BY Zenon DEF Committable, Insert, ClientGrows

(* Every step grows the logs that way.                                     *)
LEMMA LogsGrow ==
    ASSUME TypeOK, WorkersSound, [Next]_vars
    PROVE  NodesGrow /\ ClientGrows
<1>1. CASE UNCHANGED vars BY <1>1, Zenon DEF vars, NodesGrow, ClientGrows, nodeVars
<1>2. ASSUME NEW w \in Workers, PushPhase(w) PROVE NodesGrow /\ ClientGrows
  <2> DEFINE k == worker[w]
  <2>0. k \in WorkerState /\ PushSound(k) BY Zenon DEF TypeOK, WorkersSound
  <2>1. CASE UNCHANGED nodeVars
    <3>1. UNCHANGED <<local, lastRow, heads>>
      BY <1>2, Zenon DEF PushPhase, BeginCycle, Lease, LeaseDue, Push, PushRequestLost,
         PushAnswerLost, Settle, FinishDelivery, SettleMismatch, Release, ReleaseLease,
         storeVars
    <3> QED BY <2>1, <3>1, Zenon DEF NodesGrow, ClientGrows
  <2>2. ASSUME NEW o \in k.batch, Push(w, o) \/ PushAnswerLost(w, o)
        PROVE  NodesGrow /\ ClientGrows
    <3>1. o \in Ops /\ k.peer \in Peers
      BY <2>0, <2>2, Zenon DEF WorkerState, PushSound, Push, PushAnswerLost, Current, At
    <3>2. NodesGrow BY <2>2, <3>1, SubmitGrows, Zenon DEF Push, PushAnswerLost
    <3> QED BY <2>2, <3>2, Zenon DEF Push, PushAnswerLost, ClientGrows, storeVars
  <2> QED BY <1>2, <2>1, <2>2, Zenon DEF PushPhase, BeginCycle, Lease, PushRequestLost, Settle,
             SettleMismatch, Release
<1>3. ASSUME NEW w \in Workers, PullPhase(w) PROVE NodesGrow /\ ClientGrows
  <2> DEFINE k == worker[w]
  <2>0. k \in WorkerState BY Zenon DEF TypeOK
  <2>1. UNCHANGED nodeVars
    BY <1>3, Zenon DEF PullPhase, ScanTargets, Pull, PullFails, CommitPulled, CommitFails, Advance,
       RecordFailure, CursorMismatch, EndCycle
  <2>2. ASSUME NEW o \in k.page, CommitPulled(w, o) PROVE ClientGrows
    <3>1. o \in Ops BY <2>0, Zenon DEF WorkerState
    <3> QED BY <2>2, <3>1, CommitGrows, Zenon DEF CommitPulled, CommitFromPeer
  <2>3. ASSUME ~\E o \in k.page : CommitPulled(w, o)
        PROVE  UNCHANGED <<local, lastRow, heads>>
    BY <1>3, <2>3, Zenon DEF PullPhase, ScanTargets, Pull, PullFails, CommitFails, Advance,
       RecordFailure, CursorMismatch, EndCycle, AdvancePullCursor, RecordPullFailure, storeVars
  <2> QED BY <2>1, <2>2, <2>3, Zenon DEF NodesGrow, ClientGrows
<1>4. CASE Environment
  <2>1. ASSUME NEW o \in Ops, Author(o) PROVE NodesGrow /\ ClientGrows
    BY <2>1, CommitGrows, Zenon DEF Author, CommitLocal, NodesGrow
  <2>2. ASSUME NEW a \in WorkspaceAnchors, NewWorkspace(a) PROVE NodesGrow /\ ClientGrows
    <3>1. a[1] \in Ops /\ a[2] \in Ops BY Zenon
    <3> QED BY <2>2, <3>1, Zenon DEF NewWorkspace, NodesGrow, ClientGrows
  <2>3. ASSUME NEW p \in Peers, Configure(p) PROVE NodesGrow /\ ClientGrows
    BY <2>3, Zenon DEF Configure, UpsertPeer, SetPeerEnabled, ConfigurePeerSpace,
       RequeueUnacknowledged, NodesGrow, ClientGrows
  <2>4. ASSUME NEW p \in Peers, NEW o \in Ops, Import(o, p) PROVE NodesGrow /\ ClientGrows
    BY <2>4, CommitGrows, Zenon DEF Import, CommitFromPeer, NodesGrow
  <2>5. ASSUME NEW p \in Peers, NEW o \in Ops, ForeignSubmit(p, o)
        PROVE  NodesGrow /\ ClientGrows
    <3>1. Refs(o) \subseteq Held(p) /\ o \notin Held(p)
      <4>1. IsGenesis(o) => Refs(o) = {} BY GenesisRefs, Zenon
      <4>2. Admits(p, o) => Refs(o) \subseteq Held(p) BY Zenon DEF Admits, NodeAnswer
      <4> QED BY <2>5, <4>1, <4>2, Zenon DEF ForeignSubmit
    <3> QED BY <2>5, <3>1, Zenon DEF ForeignSubmit, NodesGrow, ClientGrows, storeVars
  <2>6. CASE TimePasses
    BY <2>6, Zenon DEF TimePasses, RetryTimeReached, PullTimeReached, LeaseExpires, NodesGrow,
       ClientGrows
  <2>7. CASE Crash BY <2>7, Zenon DEF Crash, storeVars, NodesGrow, ClientGrows
  <2> QED BY <1>4, <2>1, <2>2, <2>3, <2>4, <2>5, <2>6, <2>7, Zenon DEF Environment
<1> QED BY <1>1, <1>2, <1>3, <1>4, Zenon DEF Next

(* What the growth of the logs leaves alone.                               *)
LEMMA NodesKeep ==
    ASSUME TypeOK, RowsBelowLast, NodesGrow, NEW p \in Peers
    PROVE  /\ remoteLast[p] <= remoteLast'[p]
           /\ Held(p) \subseteq Held(p)'
           /\ \A o \in Held(p) : remote'[p][o] = remote[p][o]
           /\ \A o \in Held(p)' \ Held(p) : /\ remote'[p][o] > remoteLast[p]
                                            /\ Refs(o) \subseteq Held(p)
           /\ \A o \in Ops : remote'[p][o] <= remoteLast'[p]
<1>0. /\ remoteLast \in [Peers -> Nat] /\ remote \in [Peers -> [Ops -> Nat]]
      /\ \A o \in Ops : remote[p][o] <= remoteLast[p]
  BY Zenon DEF TypeOK, RowsBelowLast
<1>1. CASE UNCHANGED nodeVars BY <1>0, <1>1 DEF nodeVars, Held
<1>2. ASSUME NEW q \in Peers, NEW o \in Ops, o \notin Held(q), Refs(o) \subseteq Held(q),
             NodeAppend(q, o)
      PROVE  /\ remoteLast[p] <= remoteLast'[p]
             /\ Held(p) \subseteq Held(p)'
             /\ \A r \in Held(p) : remote'[p][r] = remote[p][r]
             /\ \A r \in Held(p)' \ Held(p) : /\ remote'[p][r] > remoteLast[p]
                                              /\ Refs(r) \subseteq Held(p)
             /\ \A r \in Ops : remote'[p][r] <= remoteLast'[p]
  <2>1. CASE p # q BY <1>0, <1>2, <2>1 DEF NodeAppend, Held
  <2>2. CASE p = q
    <3>1. remoteLast'[p] = remoteLast[p] + 1 BY <1>0, <1>2, <2>2, Zenon DEF NodeAppend
    <3>2. \A r \in Ops : remote'[p][r] = IF r = o THEN remoteLast[p] + 1 ELSE remote[p][r]
      BY <1>0, <1>2, <2>2, Zenon DEF NodeAppend
    <3>3. Held(p)' = Held(p) \cup {o}
      BY <1>0, <3>2 DEF Held
    <3> QED BY <1>0, <1>2, <2>2, <3>1, <3>2, <3>3 DEF Held
  <2> QED BY <2>1, <2>2, Zenon
<1> QED BY <1>1, <1>2, Zenon DEF NodesGrow


(* The nodes' rows stay numbers.                                           *)
LEMMA NodeRowsTyped ==
    ASSUME TypeOK, NodesGrow
    PROVE  remote' \in [Peers -> [Ops -> Nat]] /\ remoteLast' \in [Peers -> Nat]
<1>0. remote \in [Peers -> [Ops -> Nat]] /\ remoteLast \in [Peers -> Nat] BY Zenon DEF TypeOK
<1>1. CASE UNCHANGED nodeVars BY <1>0, <1>1, Zenon DEF nodeVars
<1>2. ASSUME NEW q \in Peers, NEW e \in Ops, NodeAppend(q, e)
      PROVE  remote' \in [Peers -> [Ops -> Nat]] /\ remoteLast' \in [Peers -> Nat]
  <2>1. remoteLast[q] + 1 \in Nat BY <1>0
  <2> QED BY <1>0, <1>2, <2>1, Zenon DEF NodeAppend
<1> QED BY <1>1, <1>2, Zenon DEF NodesGrow

ClientKept ==
    /\ lastRow <= lastRow'
    /\ Stored \subseteq Stored'
    /\ \A o \in Stored : local'[o] = local[o]
    /\ \A o \in Stored' \ Stored :
          \A r \in Refs(o) : local'[r] > 0 /\ local'[r] < local'[o]
    /\ \A o \in Ops : local'[o] <= lastRow'
    /\ heads' = MaximalOf(Stored)'

(* Inserting one operation after its references keeps the rows there are.  *)
LEMMA InsertKeeps ==
    ASSUME TypeOK, RowsBelowLast, LogsAreCausal, HeadsAreMaximal,
           NEW o \in Ops, o \notin Stored, Refs(o) \subseteq Stored, Insert(o)
    PROVE  ClientKept
<1>0. local \in [Ops -> Nat] /\ lastRow \in Nat BY Zenon DEF TypeOK, StoreTypeOK
<1>1. lastRow' = lastRow + 1 BY Zenon DEF Insert
<1>2. \A q \in Ops : local'[q] = IF q = o THEN lastRow + 1 ELSE local[q]
  BY <1>0, Zenon DEF Insert
<1>3. Stored' = Stored \cup {o} BY <1>0, <1>2 DEF Stored
<1>4. \A q \in Ops : local[q] <= lastRow BY Zenon DEF RowsBelowLast
<1>5. \A r \in Refs(o) : r \in Ops /\ r # o /\ local[r] > 0 BY Zenon DEF Stored
<1>6. heads' = MaximalOf(Stored)'
  <2>1. \A q \in Stored : Parents[q] \subseteq Stored /\ o \notin Parents[q]
    BY Zenon DEF LogsAreCausal, Refs, Stored
  <2>2. o \notin Parents[o] /\ Parents[o] \subseteq Stored BY Zenon DEF Refs
  <2>3. heads' = (MaximalOf(Stored) \ Parents[o]) \cup {o}
    BY Zenon DEF Insert, NextHeads, HeadsAreMaximal
  <2> QED BY <1>3, <2>1, <2>2, <2>3, Zenon DEF MaximalOf
<1>7. \A q \in Stored' \ Stored : \A r \in Refs(q) : local'[r] > 0 /\ local'[r] < local'[q]
  BY <1>0, <1>2, <1>3, <1>4, <1>5
<1>8. \A q \in Stored : local'[q] = local[q] BY <1>2, Zenon DEF Stored
<1>9. \A q \in Ops : local'[q] <= lastRow' BY <1>0, <1>1, <1>2, <1>4
<1> QED BY <1>0, <1>1, <1>3, <1>6, <1>7, <1>8, <1>9 DEF ClientKept

(* So does storing a workspace: its genesis first, then its grant.         *)
LEMMA WorkspaceKeeps ==
    ASSUME TypeOK, RowsBelowLast, LogsAreCausal, HeadsAreMaximal,
           NEW g \in Ops, NEW c \in Ops, StoreWorkspace(g, c)
    PROVE  ClientKept
<1>0. local \in [Ops -> Nat] /\ lastRow \in Nat BY Zenon DEF TypeOK, StoreTypeOK
<1>1. Refs(g) = {} /\ Refs(c) = {g} /\ Parents[g] = {} /\ Parents[c] = {}
  <2>1. IsGenesis(g) BY Zenon DEF StoreWorkspace
  <2>2. Refs(g) = {} BY <2>1, GenesisRefs, Zenon
  <2> QED BY <2>2, Zenon DEF StoreWorkspace, Refs
<1>2. g # c
  <2>1. g \in Refs(c) /\ g \notin Refs(g) BY <1>1, Zenon
  <2> QED BY <2>1, Zenon
<1>3. c \in Stored => g \in Stored BY <1>1, Zenon DEF LogsAreCausal, Stored
<1> DEFINE first == IF g \in Stored THEN lastRow ELSE lastRow + 1
           last  == IF c \in Stored THEN first ELSE first + 1
<1>4. lastRow' = last BY Zenon DEF StoreWorkspace
<1>5. \A q \in Ops : local'[q] = IF q = g /\ g \notin Stored THEN first
                                ELSE IF q = c /\ c \notin Stored THEN last
                                ELSE local[q]
  BY <1>0, <1>2, Zenon DEF StoreWorkspace
<1>6. first \in Nat /\ last \in Nat BY <1>0
<1>7. g \notin Stored => first > 0 BY <1>0
<1>8. c \notin Stored => last > 0 /\ last > first BY <1>0
<1>9. Stored' = Stored \cup {g, c} BY <1>0, <1>5, <1>7, <1>8, Zenon DEF Stored
<1>10. \A q \in Ops : local[q] <= lastRow BY Zenon DEF RowsBelowLast
<1>11. lastRow <= first /\ first <= last BY <1>0
<1>12. heads' = MaximalOf(Stored)'
  <2>1. \A q \in Stored : Parents[q] \subseteq Stored
    BY Zenon DEF LogsAreCausal, Refs, Stored
  <2>2. heads' = MaximalOf(Stored) \cup ({g, c} \ Stored)
    BY Zenon DEF StoreWorkspace, HeadsAreMaximal
  <2> QED BY <1>1, <1>9, <2>1, <2>2, Zenon DEF MaximalOf
<1>13. \A q \in Stored : local'[q] = local[q] BY <1>5, Zenon DEF Stored
<1>14. \A q \in Ops : local'[q] <= lastRow' BY <1>0, <1>4, <1>5, <1>6, <1>10, <1>11
<1>15. c \notin Stored => local'[g] > 0 /\ local'[g] < local'[c]
  <2>1. CASE g \in Stored
    BY <1>0, <1>2, <1>5, <1>8, <1>10, <2>1 DEF Stored
  <2>2. CASE g \notin Stored
    BY <1>0, <1>2, <1>5, <1>7, <1>8, <2>2, Zenon
  <2> QED BY <2>1, <2>2, Zenon
<1>16. \A q \in Stored' \ Stored : \A r \in Refs(q) : local'[r] > 0 /\ local'[r] < local'[q]
  BY <1>1, <1>9, <1>15, Zenon
<1> HIDE DEF first, last
<1> QED BY <1>0, <1>4, <1>6, <1>9, <1>11, <1>12, <1>13, <1>14, <1>16 DEF ClientKept

(* Whatever the step commits, the rows already there keep their place.     *)
LEMMA ClientKeeps ==
    ASSUME TypeOK, RowsBelowLast, LogsAreCausal, HeadsAreMaximal, ClientGrows
    PROVE  ClientKept
<1>1. CASE UNCHANGED <<local, lastRow, heads>>
  <2>1. Stored' = Stored BY <1>1, Zenon DEF Stored
  <2>2. lastRow \in Nat BY Zenon DEF TypeOK, StoreTypeOK
  <2> QED BY <1>1, <2>1, <2>2 DEF ClientKept, RowsBelowLast, HeadsAreMaximal, MaximalOf
<1> QED BY <1>1, InsertKeeps, WorkspaceKeeps, Zenon DEF ClientGrows

(* The graph part of the invariant: causal order, row bounds, heads.       *)
LEMMA GraphPreserved ==
    ASSUME TypeOK, RowsBelowLast, LogsAreCausal, HeadsAreMaximal, NodesGrow, ClientGrows
    PROVE  RowsBelowLast' /\ LogsAreCausal' /\ HeadsAreMaximal'
<1>1. ClientKept BY ClientKeeps, Zenon
<1>2. RowsBelowLast' BY <1>1, NodesKeep, Zenon DEF ClientKept, RowsBelowLast
<1>3. HeadsAreMaximal' BY <1>1, Zenon DEF ClientKept, HeadsAreMaximal
<1>4. ASSUME NEW o \in Stored', NEW r \in Refs(o)
      PROVE  local'[r] > 0 /\ local'[r] < local'[o]
  <2>1. CASE o \in Stored
    <3>1. r \in Ops /\ local[r] > 0 /\ local[r] < local[o]
      BY <2>1, Zenon DEF LogsAreCausal, Refs, Stored
    <3>2. r \in Stored BY <3>1, Zenon DEF Stored
    <3> QED BY <1>1, <2>1, <3>1, <3>2, Zenon DEF ClientKept
  <2> QED BY <1>1, <2>1, Zenon DEF ClientKept
<1>5. ASSUME NEW p \in Peers, NEW o \in Held(p)', NEW r \in Refs(o)
      PROVE  remote'[p][r] > 0 /\ remote'[p][r] < remote'[p][o]
  <2>0. remote \in [Peers -> [Ops -> Nat]] /\ o \in Ops BY Zenon DEF TypeOK, Held
  <2>1. CASE o \in Held(p)
    <3>1. r \in Ops /\ remote[p][r] > 0 /\ remote[p][r] < remote[p][o]
      BY <2>0, <2>1, Zenon DEF LogsAreCausal, Refs
    <3>2. r \in Held(p) BY <3>1, Zenon DEF Held
    <3> QED BY <2>1, <3>1, <3>2, NodesKeep, Zenon
  <2>2. CASE o \notin Held(p)
    <3>1. r \in Held(p) /\ remote'[p][o] > remoteLast[p] BY <2>2, NodesKeep, Zenon
    <3>2. r \in Ops /\ remote[p][r] > 0 /\ remote[p][r] <= remoteLast[p]
      BY <3>1, Zenon DEF RowsBelowLast, Held
    <3>3. remote'[p][r] = remote[p][r] BY <3>1, NodesKeep, Zenon
    <3>4. remoteLast[p] \in Nat /\ remote[p][r] \in Nat BY <2>0, <3>2 DEF TypeOK
    <3>5. remote'[p][o] \in Int
      <4>1. remote' \in [Peers -> [Ops -> Nat]] BY NodeRowsTyped, Zenon
      <4> QED BY <2>0, <4>1
    <3> QED BY <3>1, <3>2, <3>3, <3>4, <3>5
  <2> QED BY <2>1, <2>2, Zenon
<1> QED BY <1>2, <1>3, <1>4, <1>5, Zenon DEF LogsAreCausal

-------------------------------------------------------------------------------
(* What a worker or a cursor relies on does not go away as the logs grow.  *)

(* A row below a sequence the node had already given out is an old row.    *)
LEMMA OldRow ==
    ASSUME TypeOK, RowsBelowLast, NodesGrow, NEW p \in Peers, NEW n \in Nat,
           n <= remoteLast[p], NEW o \in Held(p)', remote'[p][o] <= n
    PROVE  o \in Held(p) /\ remote[p][o] <= n
<1>1. remoteLast[p] \in Nat BY Zenon DEF TypeOK
<1>2. remote'[p][o] \in Nat BY NodeRowsTyped DEF Held
<1>3. o \in Held(p)
  <2>1. o \notin Held(p) => remote'[p][o] > remoteLast[p] BY NodesKeep, Zenon
  <2> QED BY <1>1, <1>2, <2>1
<1>4. remote'[p][o] = remote[p][o] BY <1>3, NodesKeep, Zenon
<1> QED BY <1>3, <1>4, Zenon

(* A covered prefix of a node's log stays covered.                         *)
LEMMA CoveredStable ==
    ASSUME SyncInv, NodesGrow, ClientGrows, NEW p \in Peers, NEW s, NEW n \in Nat,
           Covered(p, s, n)
    PROVE  Covered(p, s, n)'
<1>0. TypeOK /\ RowsBelowLast BY Zenon DEF SyncInv
<1>1. Stored \subseteq Stored' BY ClientKeeps, Zenon DEF SyncInv, ClientKept
<1>2. n <= remoteLast'[p]
  <2>1. remoteLast[p] \in Nat /\ remoteLast'[p] \in Nat BY <1>0, NodeRowsTyped, Zenon DEF TypeOK
  <2>2. remoteLast[p] <= remoteLast'[p] BY <1>0, NodesKeep, Zenon
  <2> QED BY <2>1, <2>2 DEF Covered
<1>3. ASSUME NEW o \in Held(p)', SpaceOf[o] = s, remote'[p][o] <= n PROVE o \in Stored'
  <2>1. n <= remoteLast[p] BY Zenon DEF Covered
  <2>2. o \in Held(p) /\ remote[p][o] <= n BY <1>0, <1>3, <2>1, OldRow, Zenon
  <2> QED BY <1>1, <1>3, <2>2, Zenon DEF Covered
<1> QED BY <1>2, <1>3, Zenon DEF Covered

(* A page that covers its cursor still does.                               *)
LEMMA PageStable ==
    ASSUME SyncInv, NodesGrow, ClientGrows, NEW k \in WorkerState, k.target \in Targets,
           PageCovers(k)
    PROVE  PageCovers(k)'
<1>0. TypeOK /\ RowsBelowLast BY Zenon DEF SyncInv
<1> DEFINE p == k.target.p
<1>1. p \in Peers /\ k.next \in Nat /\ k.page \subseteq Ops
  BY Zenon DEF Targets, WorkerState
<1>2. Stored \subseteq Stored' BY ClientKeeps, Zenon DEF SyncInv, ClientKept
<1>3. remoteLast[p] \in Nat /\ remoteLast'[p] \in Nat /\ remoteLast[p] <= remoteLast'[p]
  BY <1>0, <1>1, NodesKeep, NodeRowsTyped, Zenon DEF TypeOK
<1>4. Held(p) \subseteq Held(p)' BY <1>0, <1>1, NodesKeep, Zenon
<1>5. ASSUME NEW o \in Held(p)', SpaceOf[o] = k.target.s, remote'[p][o] <= k.next
      PROVE  o \in Stored' \cup k.page
  <2>1. k.next <= remoteLast[p] BY Zenon DEF PageCovers
  <2>2. o \in Held(p) /\ remote[p][o] <= k.next BY <1>0, <1>1, <1>5, <2>1, OldRow, Zenon
  <2> QED BY <1>2, <1>5, <2>2, Zenon DEF PageCovers
<1>6. k.target.after <= k.next /\ k.next <= remoteLast'[p]
  BY <1>1, <1>3 DEF PageCovers
<1>7. k.page \subseteq Held(p)' BY <1>4, Zenon DEF PageCovers
<1> QED BY <1>5, <1>6, <1>7, Zenon DEF PageCovers

(* What a worker is pulling stays sound.                                   *)
LEMMA PullStable ==
    ASSUME SyncInv, NodesGrow, ClientGrows, NEW k \in WorkerState, PullSound(k)
    PROVE  PullSound(k)'
<1>1. ASSUME NEW t \in k.targets PROVE Covered(t.p, t.s, t.after)'
  <2>1. t.p \in Peers /\ t.after \in Nat BY Zenon DEF WorkerState, Targets
  <2>2. Covered(t.p, t.s, t.after) BY Zenon DEF PullSound
  <2> QED BY <2>1, <2>2, CoveredStable, Zenon
<1>2. k.pc = "commit" => PageCovers(k)' BY PageStable, Zenon DEF PullSound
<1> QED BY <1>1, <1>2, Zenon DEF PullSound

(* A worker that does not move stays sound.                                *)
LEMMA WorkerStable ==
    ASSUME SyncInv, NodesGrow, ClientGrows, NEW k \in WorkerState,
           PushSound(k), PullSound(k)
    PROVE  PushSound(k)' /\ PullSound(k)'
<1>1. PushSound(k)'
  <2>1. k.pc = "settle" => k.peer \in Peers BY Zenon DEF PushSound
  <2>2. k.pc = "settle" => Held(k.peer) \subseteq Held(k.peer)'
    BY <2>1, NodesKeep, Zenon DEF SyncInv
  <2> QED BY <2>2, Zenon DEF PushSound
<1> QED BY <1>1, PullStable, Zenon

(* A step that moves one worker to a sound state keeps all of them sound.  *)
LEMMA BecomeSound ==
    ASSUME SyncInv, NodesGrow, ClientGrows, NEW w \in Workers, NEW k \in WorkerState,
           Become(w, k), PushSound(k)', PullSound(k)'
    PROVE  WorkersSound'
<1>0. worker \in [Workers -> WorkerState] BY Zenon DEF SyncInv, TypeOK
<1> SUFFICES ASSUME NEW v \in Workers PROVE (PushSound(worker[v]) /\ PullSound(worker[v]))'
  BY Zenon DEF WorkersSound
<1>1. CASE v = w
  <2>1. worker'[v] = k BY <1>0, <1>1, Zenon DEF Become
  <2> QED BY <2>1, Zenon DEF PushSound, PullSound, PageCovers
<1>2. CASE v # w
  <2>1. worker'[v] = worker[v] BY <1>0, <1>2, Zenon DEF Become
  <2>2. PICK j \in WorkerState : j = worker[v] BY <1>0, Zenon
  <2>3. PushSound(j) /\ PullSound(j) BY <2>2, Zenon DEF SyncInv, WorkersSound
  <2>4. PushSound(j)' /\ PullSound(j)' BY <2>3, WorkerStable, Zenon
  <2>5. worker'[v] = j BY <2>1, <2>2, Zenon
  <2> QED BY <2>4, <2>5, Zenon DEF PushSound, PullSound, PageCovers
<1> QED BY <1>1, <1>2, Zenon

-------------------------------------------------------------------------------
(* Acknowledgements.  A step acknowledges only what the peer already has.  *)

AcksJustified ==
    \A p \in Peers, o \in Ops :
        delivery'[p][o].state = "acknowledged" /\ ~IsGenesis(o)
            => delivery[p][o].state = "acknowledged" \/ o \in Held(p)

(* Backfilling acknowledges nothing.                                       *)
LEMMA BackfillNoAck ==
    ASSUME NEW rows, NEW S, NEW o \in Ops, Backfill(rows, S)[o].state = "acknowledged"
    PROVE  rows[o].state = "acknowledged"
BY Zenon DEF Backfill, Pending

(* A commit acknowledges the operation for its source peer only.           *)
LEMMA QueueAcks ==
    ASSUME TypeOK, NEW o \in Ops, NEW source, NEW p \in Peers, NEW q \in Ops,
           QueueFrom(o, source)[p][q].state = "acknowledged"
    PROVE  delivery[p][q].state = "acknowledged" \/ (p \in source /\ q = o)
<1>0. delivery[p] \in [Ops -> Delivery] BY Zenon DEF TypeOK, StoreTypeOK
<1>1. CASE p \in source
  <2>1. QueueFrom(o, source)[p] = [delivery[p] EXCEPT ![o] = Acknowledged]
    BY <1>1, Zenon DEF QueueFrom
  <2> QED BY <1>0, <1>1, <2>1, Zenon
<1>2. CASE p \notin source
  <2>1. \/ QueueFrom(o, source)[p] = Backfill(delivery[p], {o})
        \/ QueueFrom(o, source)[p] = delivery[p]
    BY <1>2, Zenon DEF QueueFrom
  <2> QED BY <2>1, BackfillNoAck
<1> QED BY <1>1, <1>2, Zenon

(* A commit is justified when its source peer holds the operation.         *)
LEMMA QueueJustified ==
    ASSUME TypeOK, NEW o \in Ops, NEW source, \A p \in source : o \in Held(p),
           delivery' = QueueFrom(o, source)
    PROVE  AcksJustified
<1> SUFFICES ASSUME NEW p \in Peers, NEW q \in Ops, delivery'[p][q].state = "acknowledged"
             PROVE  delivery[p][q].state = "acknowledged" \/ q \in Held(p)
  BY Zenon DEF AcksJustified
<1>1. QueueFrom(o, source)[p][q].state = "acknowledged" BY Zenon
<1>2. delivery[p][q].state = "acknowledged" \/ (p \in source /\ q = o)
  BY <1>1, QueueAcks
<1> QED BY <1>2, Zenon

(* Changing the peers or their spaces acknowledges nothing.                *)
LEMMA ConfigureNoAck ==
    ASSUME TypeOK, NEW p \in Peers, Configure(p)
    PROVE  AcksJustified
<1>0. delivery \in [Peers -> [Ops -> Delivery]] BY Zenon DEF TypeOK, StoreTypeOK
<1> SUFFICES ASSUME NEW q \in Peers, NEW o \in Ops, delivery'[q][o].state = "acknowledged"
             PROVE  delivery[q][o].state = "acknowledged"
  BY Zenon DEF AcksJustified
<1>1. ASSUME NEW S, delivery' = [delivery EXCEPT ![p] = Backfill(@, S)]
      PROVE  delivery[q][o].state = "acknowledged"
  <2>1. delivery'[q] = delivery[q] \/ delivery'[q] = Backfill(delivery[q], S) BY <1>0, <1>1, Zenon
  <2>2. Backfill(delivery[q], S)[o].state = "acknowledged" => delivery[q][o].state = "acknowledged"
    BY BackfillNoAck, Zenon
  <2> QED BY <2>1, <2>2, Zenon
<1>2. ASSUME NEW s \in Spaces, RequeueUnacknowledged(p, s)
      PROVE  delivery[q][o].state = "acknowledged"
  <2> DEFINE rows == Backfill(delivery[p], OfSpace(DataOps(Stored), s))
  <2>1. \/ delivery'[q] = delivery[q]
        \/ q = p /\ (delivery'[q][o] = Pending \/ delivery'[q][o] = rows[o])
    BY <1>0, <1>2, Zenon DEF RequeueUnacknowledged
  <2>2. Pending.state # "acknowledged" BY Zenon DEF Pending
  <2>3. rows[o].state = "acknowledged" => delivery[p][o].state = "acknowledged"
    BY BackfillNoAck, Zenon
  <2> QED BY <2>1, <2>2, <2>3, Zenon
<1>3. ASSUME NEW row \in PeerConfigs, UpsertPeer(p, row)
      PROVE  delivery[q][o].state = "acknowledged"
  BY <1>1, <1>3, Zenon DEF UpsertPeer
<1>4. ASSUME NEW e \in BOOLEAN, SetPeerEnabled(p, e)
      PROVE  delivery[q][o].state = "acknowledged"
  BY <1>1, <1>4, Zenon DEF SetPeerEnabled
<1>5. ASSUME NEW s \in Spaces, NEW m, ConfigurePeerSpace(p, s, m)
      PROVE  delivery[q][o].state = "acknowledged"
  BY <1>1, <1>5, Zenon DEF ConfigurePeerSpace
<1> QED BY <1>2, <1>3, <1>4, <1>5, Zenon DEF Configure

(* Neither does leasing a batch.                                           *)
LEMMA LeaseNoAck ==
    ASSUME StoreTypeOK, NEW p \in Peers, NEW l \in LeaseIds, NEW B \in SUBSET Ops,
           LeaseDue(p, l, B)
    PROVE  AcksJustified
<1> DEFINE new == [o \in Ops |->
             IF o \in B
             THEN [delivery[p][o] EXCEPT !.state = "leased", !.lease = l, !.due = TRUE]
             ELSE delivery[p][o]]
<1>0. delivery \in [Peers -> [Ops -> Delivery]] BY Zenon DEF StoreTypeOK
<1>1. \A o \in Ops : new[o].state = delivery[p][o].state \/ new[o].state = "leased"
  BY <1>0 DEF Delivery
<1>2. delivery' = [delivery EXCEPT ![p] = new] BY Zenon DEF LeaseDue
<1> HIDE DEF new
<1> QED BY <1>0, <1>1, <1>2, Zenon DEF AcksJustified

(* Neither does giving up a lease.                                         *)
LEMMA ReleaseNoAck ==
    ASSUME StoreTypeOK, NEW p \in Peers, NEW l, ReleaseLease(p, l)
    PROVE  AcksJustified
<1> DEFINE new == [o \in Ops |->
             IF HoldsLease(p, o, l)
             THEN [delivery[p][o] EXCEPT !.state = "pending", !.lease = NoLease]
             ELSE delivery[p][o]]
<1>0. delivery \in [Peers -> [Ops -> Delivery]] BY Zenon DEF StoreTypeOK
<1>1. \A o \in Ops : new[o].state = delivery[p][o].state \/ new[o].state = "pending"
  BY <1>0 DEF Delivery
<1>2. delivery' = [delivery EXCEPT ![p] = new] BY Zenon DEF ReleaseLease
<1> HIDE DEF new
<1> QED BY <1>0, <1>1, <1>2, Zenon DEF AcksJustified

(* Of a worker's push steps, only the settlement of a success does.        *)
LEMMA PushAcks ==
    ASSUME SyncInv, NEW w \in Workers, PushPhase(w)
    PROVE  AcksJustified
<1> DEFINE k == worker[w]
<1>0. delivery \in [Peers -> [Ops -> Delivery]] /\ k \in WorkerState /\ PushSound(k)
  BY Zenon DEF SyncInv, TypeOK, StoreTypeOK, WorkersSound
<1>1. CASE UNCHANGED delivery BY <1>1, Zenon DEF AcksJustified
<1>2. ASSUME NEW p \in Peers, Lease(w, p) PROVE AcksJustified
  <2>1. PICK l \in LeaseIds, B \in SUBSET Ops : LeaseDue(p, l, B) BY <1>2, Zenon DEF Lease
  <2> QED BY <2>1, LeaseNoAck, Zenon DEF SyncInv, TypeOK
<1>3. CASE Settle(w)
  <2>1. k.pc = "settle" /\ k.peer \in Peers /\ k.op \in Ops
    BY <1>0, <1>3, Zenon DEF Settle, At, PushSound
  <2>2. PICK e : FinishDelivery(k.peer, k.op, k.lease, NewState(k.answer), e)
    BY <1>3, Zenon DEF Settle
  <2>3. \A q \in Peers, o \in Ops :
           \/ delivery'[q][o] = delivery[q][o]
           \/ q = k.peer /\ o = k.op /\ delivery'[q][o].state = NewState(k.answer)
    BY <1>0, <2>1, <2>2, Zenon DEF FinishDelivery
  <2>4. k.answer \in Answers /\ k.answer # "none" BY <1>0, <2>1, Zenon DEF PushSound, WorkerState
  <2>5. NewState(k.answer) = "acknowledged" => k.answer = "ok"
    BY <2>4, Zenon DEF NewState, Answers
  <2>6. k.answer = "ok" /\ ~IsGenesis(k.op) => k.op \in Held(k.peer)
    BY <1>0, <2>1, Zenon DEF PushSound
  <2>7. ASSUME NEW q \in Peers, NEW o \in Ops, delivery'[q][o].state = "acknowledged",
               ~IsGenesis(o)
        PROVE  delivery[q][o].state = "acknowledged" \/ o \in Held(q)
    <3>1. CASE delivery'[q][o] = delivery[q][o] BY <2>7, <3>1, Zenon
    <3>2. CASE q = k.peer /\ o = k.op /\ delivery'[q][o].state = NewState(k.answer)
      BY <2>5, <2>6, <2>7, <3>2, Zenon
    <3> QED BY <2>3, <3>1, <3>2, ZenonT(30)
  <2> QED BY <2>7, Zenon DEF AcksJustified
<1>4. CASE Release(w)
  <2>0. k.peer \in Peers BY <1>0, <1>4, Zenon DEF Release, At, PushSound
  <2>1. ReleaseLease(k.peer, k.lease) BY <1>4, Zenon DEF Release
  <2> QED BY <2>0, <2>1, ReleaseNoAck, Zenon DEF SyncInv, TypeOK
<1> QED BY <1>1, <1>2, <1>3, <1>4, Zenon DEF PushPhase, BeginCycle, Push, PushRequestLost,
           PushAnswerLost, SettleMismatch, storeVars

(* Every step acknowledges only what the peer has.                         *)
LEMMA StepAcks ==
    ASSUME SyncInv, [Next]_vars
    PROVE  AcksJustified
<1>0. TypeOK /\ delivery \in [Peers -> [Ops -> Delivery]]
  BY Zenon DEF SyncInv, TypeOK, StoreTypeOK
<1>1. CASE UNCHANGED delivery BY <1>1, Zenon DEF AcksJustified
<1>2. ASSUME NEW w \in Workers, PullPhase(w) PROVE AcksJustified
  <2> DEFINE k == worker[w]
  <2>1. ASSUME NEW o \in k.page, CommitPulled(w, o) PROVE AcksJustified
    <3>0. k \in WorkerState /\ k.pc = "commit" /\ PullSound(k)
      BY <2>1, Zenon DEF CommitPulled, NextPulled, At, SyncInv, WorkersSound, TypeOK
    <3>1. o \in Held(k.target.p) /\ o \in Ops
      BY <3>0, Zenon DEF PullSound, PageCovers, WorkerState
    <3>2. delivery' = QueueFrom(o, {k.target.p}) BY <2>1, Zenon DEF CommitPulled, CommitFromPeer
    <3>3. \A p \in {k.target.p} : o \in Held(p) BY <3>1, Zenon
    <3> QED BY <1>0, <3>1, <3>2, <3>3, QueueJustified
  <2>2. ASSUME ~\E o \in k.page : CommitPulled(w, o) PROVE delivery' = delivery
    BY ONLY <1>2, <2>2, Zenon DEF PullPhase, ScanTargets, Pull, PullFails, CommitFails, Advance,
       RecordFailure, CursorMismatch, EndCycle, AdvancePullCursor, RecordPullFailure, storeVars
  <2> QED BY <1>1, <2>1, <2>2, Zenon
<1>3. ASSUME NEW o \in Ops, Author(o) PROVE AcksJustified
  <2>1. delivery' = QueueFrom(o, {}) BY <1>3, Zenon DEF Author, CommitLocal
  <2> QED BY <1>0, <2>1, QueueJustified, Zenon
<1>4. ASSUME NEW p \in Peers, NEW o \in Ops, Import(o, p) PROVE AcksJustified
  <2>1. o \in Held(p) /\ delivery' = QueueFrom(o, {p}) BY <1>4, Zenon DEF Import, CommitFromPeer
  <2>2. \A q \in {p} : o \in Held(q) BY <2>1, Zenon
  <2> QED BY <1>0, <2>1, <2>2, QueueJustified
<1>5. ASSUME NEW p \in Peers, NEW o \in Ops, RetryTimeReached(p, o) PROVE AcksJustified
  <2> DEFINE row == [delivery[p][o] EXCEPT !.due = TRUE]
  <2>1. row.state = delivery[p][o].state
    <3>1. delivery[p][o] \in Delivery BY <1>0
    <3> QED BY <3>1, Zenon DEF Delivery
  <2>2. delivery' = [delivery EXCEPT ![p][o] = row] BY <1>5, Zenon DEF RetryTimeReached
  <2> HIDE DEF row
  <2> QED BY <1>0, <2>1, <2>2, Zenon DEF AcksJustified
<1>6. CASE Environment
  BY <1>0, <1>1, <1>3, <1>4, <1>5, <1>6, ConfigureNoAck, Zenon
     DEF Environment, NewWorkspace, StoreWorkspace, ForeignSubmit, TimePasses,
         PullTimeReached, LeaseExpires, Crash, storeVars
<1> QED BY <1>1, <1>2, <1>6, PushAcks, Zenon DEF Next, vars

(* So an acknowledged operation is at the peer in the next state too.      *)
LEMMA AcknowledgedPreserved ==
    ASSUME SyncInv, [Next]_vars, NodesGrow
    PROVE  AcknowledgedIsHeld'
<1>1. AcksJustified BY StepAcks, Zenon
<1>2. \A p \in Peers : Held(p) \subseteq Held(p)' BY NodesKeep, Zenon DEF SyncInv
<1> QED BY <1>1, <1>2, Zenon DEF AcksJustified, AcknowledgedIsHeld, SyncInv

-------------------------------------------------------------------------------
(* Pull cursors.                                                           *)

(* A fresh cursor covers nothing, and so is covered.                       *)
LEMMA ZeroCovered ==
    ASSUME TypeOK, NEW p \in Peers, NEW s
    PROVE  Covered(p, s, 0)
BY DEF TypeOK, Covered, Held

(* A step leaves a cursor, creates it at zero, or advances it over a page. *)
CursorsMove ==
    \A p \in Peers, s \in Spaces :
        /\ target[p][s].known => target'[p][s].known
        /\ \/ target'[p][s].after = target[p][s].after
           \/ target'[p][s].after = 0 /\ ~target[p][s].known
           \/ /\ Covered(p, s, target'[p][s].after) /\ target[p][s].known
              /\ target'[p][s].after >= target[p][s].after

(* Only a worker whose page is fully committed moves a cursor forward.     *)
LEMMA StepMovesCursors ==
    ASSUME SyncInv, [Next]_vars
    PROVE  CursorsMove
<1>0. target \in [Peers -> [Spaces -> TargetRow]] BY Zenon DEF SyncInv, TypeOK, StoreTypeOK
<1>1. CASE UNCHANGED target BY <1>1, Zenon DEF CursorsMove
<1>2. ASSUME NEW w \in Workers, Advance(w) PROVE CursorsMove
  <2> DEFINE k == worker[w]
             row == [target[k.target.p][k.target.s] EXCEPT !.after = k.next, !.due = k.more]
  <2>1. k.pc = "commit" /\ k.page = {} /\ PullSound(k)
    BY <1>2, Zenon DEF Advance, At, SyncInv, WorkersSound
  <2>2. k.target.p \in Peers /\ k.target.s \in Spaces BY <2>1, Zenon DEF PullSound, Targets
  <2>3. Covered(k.target.p, k.target.s, k.next) BY <2>1, Zenon DEF PullSound, PageCovers, Covered
  <2>4. row.after = k.next /\ row.known = target[k.target.p][k.target.s].known
    <3>1. target[k.target.p][k.target.s] \in TargetRow BY <1>0, <2>2
    <3> QED BY <3>1, Zenon DEF TargetRow
  <2>5. target' = [target EXCEPT ![k.target.p][k.target.s] = row]
    BY <1>2, Zenon DEF Advance, AdvancePullCursor
  <2>6. /\ target[k.target.p][k.target.s].known
        /\ k.next >= target[k.target.p][k.target.s].after
    BY <1>2, Zenon DEF Advance, AdvancePullCursor, CursorIs
  <2> HIDE DEF row
  <2> QED BY <1>0, <2>2, <2>3, <2>4, <2>5, <2>6, Zenon DEF CursorsMove
<1>3. ASSUME NEW w \in Workers, RecordFailure(w) PROVE CursorsMove
  <2> DEFINE k == worker[w]
             row == [target[k.target.p][k.target.s] EXCEPT !.due = FALSE]
  <2>1. k.pc = "failed" /\ PullSound(k) BY <1>3, Zenon DEF RecordFailure, At, SyncInv, WorkersSound
  <2>2. k.target.p \in Peers /\ k.target.s \in Spaces BY <2>1, Zenon DEF PullSound, Targets
  <2>3. /\ row.after = target[k.target.p][k.target.s].after
        /\ row.known = target[k.target.p][k.target.s].known
    <3>1. target[k.target.p][k.target.s] \in TargetRow BY <1>0, <2>2
    <3> QED BY <3>1, Zenon DEF TargetRow
  <2>4. target' = [target EXCEPT ![k.target.p][k.target.s] = row]
    BY <1>3, Zenon DEF RecordFailure, RecordPullFailure
  <2> HIDE DEF row
  <2> QED BY <1>0, <2>2, <2>3, <2>4, Zenon DEF CursorsMove
<1>4. ASSUME NEW p \in Peers, NEW s \in Spaces, PullTimeReached(p, s) PROVE CursorsMove
  <2> DEFINE row == [target[p][s] EXCEPT !.due = TRUE]
  <2>1. row.after = target[p][s].after /\ row.known = target[p][s].known
    <3>1. target[p][s] \in TargetRow BY <1>0
    <3> QED BY <3>1, Zenon DEF TargetRow
  <2>2. target' = [target EXCEPT ![p][s] = row] BY <1>4, Zenon DEF PullTimeReached
  <2> HIDE DEF row
  <2> QED BY <1>0, <2>1, <2>2, Zenon DEF CursorsMove
<1>5. ASSUME NEW p \in Peers, NEW s \in Spaces, NEW m, ConfigurePeerSpace(p, s, m)
      PROVE  CursorsMove
  <2> DEFINE row == IF target[p][s].known THEN [target[p][s] EXCEPT !.mode = m]
                    ELSE [known |-> TRUE, mode |-> m, after |-> 0, due |-> TRUE]
  <2>1. /\ row.known = TRUE
        /\ row.after = target[p][s].after \/ (row.after = 0 /\ ~target[p][s].known)
    <3>1. target[p][s] \in TargetRow BY <1>0
    <3> QED BY <3>1, Zenon DEF TargetRow
  <2>2. target' = [target EXCEPT ![p][s] = row] BY <1>5, Zenon DEF ConfigurePeerSpace
  <2> HIDE DEF row
  <2> QED BY <1>0, <2>1, <2>2, Zenon DEF CursorsMove
<1>6. ASSUME NEW w \in Workers, PushPhase(w) PROVE target' = target
  BY ONLY <1>6, Zenon DEF PushPhase, BeginCycle, Lease, LeaseDue, Push, PushRequestLost,
     PushAnswerLost, Settle, FinishDelivery, SettleMismatch, Release, ReleaseLease, storeVars
<1>7. ASSUME NEW w \in Workers, PullPhase(w), ~Advance(w), ~RecordFailure(w)
      PROVE  target' = target
  BY ONLY <1>7, Zenon DEF PullPhase, ScanTargets, Pull, PullFails, CommitPulled, CommitFromPeer,
     CommitFails, CursorMismatch, EndCycle, storeVars
<1>8. CASE Environment
  <2>1. ASSUME NEW p \in Peers, Configure(p) PROVE CursorsMove
    BY <1>1, <1>5, <2>1, Zenon DEF Configure, UpsertPeer, SetPeerEnabled, RequeueUnacknowledged
  <2>2. CASE TimePasses BY <1>1, <1>4, <2>2, Zenon DEF TimePasses, RetryTimeReached, LeaseExpires
  <2> QED BY <1>1, <1>8, <2>1, <2>2, Zenon DEF Environment, Author, CommitLocal, NewWorkspace,
             StoreWorkspace, Import, CommitFromPeer, ForeignSubmit, Crash, storeVars
<1> QED BY <1>1, <1>2, <1>3, <1>6, <1>7, <1>8, Zenon DEF Next, vars

(* So no cursor ever passes an operation that was not committed.           *)
LEMMA CursorsPreserved ==
    ASSUME SyncInv, [Next]_vars, TypeOK', NodesGrow, ClientGrows
    PROVE  CursorsCovered'
<1> SUFFICES ASSUME NEW p \in Peers, NEW s \in Spaces
             PROVE  Covered(p, s, target[p][s].after)'
  BY Zenon DEF CursorsCovered
<1>1. PICK n \in Nat : n = target'[p][s].after
  <2>1. target'[p][s] \in TargetRow BY DEF TypeOK, StoreTypeOK
  <2> QED BY <2>1, Zenon DEF TargetRow
<1>2. Covered(p, s, n)'
  <2>1. Covered(p, s, n)
    <3>1. \/ n = target[p][s].after \/ n = 0 \/ Covered(p, s, n)
      BY <1>1, StepMovesCursors, Zenon DEF CursorsMove
    <3>2. Covered(p, s, target[p][s].after) /\ TypeOK BY Zenon DEF SyncInv, CursorsCovered
    <3> QED BY <3>1, <3>2, ZeroCovered
  <2> QED BY <2>1, CoveredStable, Zenon
<1>3. Covered(p, s, n)' => Covered(p, s, target[p][s].after)' BY <1>1, Zenon DEF Covered
<1> QED BY <1>2, <1>3, Zenon

-------------------------------------------------------------------------------
(* Workers.                                                                *)

(* A worker with no delivery and no page in hand is sound.                 *)
LEMMA RestingSound ==
    ASSUME NEW k \in WorkerState, k.pc \in {"idle", "peers"}, k.targets = {}
    PROVE  PushSound(k) /\ PullSound(k)
BY Zenon DEF PushSound, PullSound

(* The steps that move w to a state that is sound already.                 *)
LEMMA SoundMove ==
    ASSUME SyncInv, NodesGrow, ClientGrows, NEW w \in Workers, NEW k \in WorkerState,
           Become(w, k), PushSound(k), PullSound(k)
    PROVE  WorkersSound'
<1>1. PushSound(k)' /\ PullSound(k)' BY WorkerStable, Zenon
<1> QED BY <1>1, BecomeSound, Zenon

(* Aborting, or ending, a cycle.                                           *)
LEMMA AbortSound ==
    ASSUME SyncInv, NodesGrow, ClientGrows, NEW w \in Workers, Become(w, Idle)
    PROVE  WorkersSound'
<1>1. Idle.pc = "idle" /\ Idle.targets = {} BY Zenon DEF Idle
<1>2. PushSound(Idle) /\ PullSound(Idle) BY <1>1, IdleType, RestingSound, Zenon
<1> QED BY <1>2, IdleType, SoundMove, Zenon

(* A node that answers "ok" to anything but a genesis has it afterwards.   *)
LEMMA SubmitHolds ==
    ASSUME TypeOK, NEW p \in Peers, NEW o \in Ops, NodeSubmit(p, o),
           NodeAnswer(p, o) = "ok", ~IsGenesis(o)
    PROVE  remote'[p][o] > 0
<1>0. remote \in [Peers -> [Ops -> Nat]] /\ remoteLast \in [Peers -> Nat] BY Zenon DEF TypeOK
<1>1. CASE o \in Held(p) BY <1>1, Zenon DEF NodeSubmit, Admits, nodeVars, Held
<1>2. CASE o \notin Held(p)
  <2>1. NodeAppend(p, o) BY <1>2, Zenon DEF NodeSubmit, Admits
  <2> QED BY <1>0, <2>1 DEF NodeAppend
<1> QED BY <1>1, <1>2, Zenon

(* The push half of a cycle: the answer a worker remembers is the node's.  *)
LEMMA PushSoundness ==
    ASSUME SyncInv, NodesGrow, ClientGrows, NEW w \in Workers, PushPhase(w)
    PROVE  WorkersSound'
<1> DEFINE k == worker[w]
<1>0. TypeOK /\ k \in WorkerState /\ PushSound(k) /\ PullSound(k)
  BY Zenon DEF SyncInv, TypeOK, WorkersSound
<1>1. CASE BeginCycle(w)
  <2>1. PICK j \in WorkerState :
          /\ j = [Idle EXCEPT !.pc = "peers", !.todo = {p \in Peers : peer[p].enabled}]
          /\ Become(w, j)
    <3>1. [Idle EXCEPT !.pc = "peers", !.todo = {p \in Peers : peer[p].enabled}]
             \in WorkerState
      BY IdleType, Zenon DEF WorkerState, Steps
    <3> QED BY <1>1, <3>1, Zenon DEF BeginCycle
  <2>2. j.pc = "peers" /\ j.targets = {} BY <2>1, Zenon DEF Idle
  <2> QED BY <2>1, <2>2, RestingSound, SoundMove, Zenon
<1>2. ASSUME NEW p \in Peers, Lease(w, p) PROVE WorkersSound'
  <2>0. k.pc = "peers" BY <1>2, Zenon DEF Lease, At
  <2>1. PICK l \in LeaseIds, B \in SUBSET Ops :
          Become(w, IF B = {}
                    THEN [k EXCEPT !.todo = @ \ {p}]
                    ELSE [k EXCEPT !.todo = @ \ {p}, !.pc = "push",
                                   !.peer = p, !.lease = l, !.batch = B])
    BY <1>2, Zenon DEF Lease
  <2>2. CASE B = {}
    <3>1. PICK j \in WorkerState : j = [k EXCEPT !.todo = @ \ {p}] /\ Become(w, j)
      <4>1. [k EXCEPT !.todo = @ \ {p}] \in WorkerState BY <1>0, Zenon DEF WorkerState
      <4> QED BY <2>1, <2>2, <4>1, Zenon
    <3>2. j.pc = k.pc /\ j.targets = k.targets BY <1>0, <3>1, Zenon DEF WorkerState
    <3>3. PushSound(j) /\ PullSound(j) BY <1>0, <2>0, <3>2, Zenon DEF PushSound, PullSound
    <3> QED BY <3>1, <3>3, SoundMove, Zenon
  <2>3. CASE B # {}
    <3>1. PICK j \in WorkerState :
            /\ j = [k EXCEPT !.todo = @ \ {p}, !.pc = "push", !.peer = p, !.lease = l,
                             !.batch = B]
            /\ Become(w, j)
      <4>1. [k EXCEPT !.todo = @ \ {p}, !.pc = "push", !.peer = p, !.lease = l, !.batch = B]
               \in WorkerState
        BY <1>0, Zenon DEF WorkerState, Steps
      <4> QED BY <2>1, <2>3, <4>1, Zenon
    <3>2. j.pc = "push" /\ j.peer = p /\ j.targets = k.targets
      BY <1>0, <3>1, Zenon DEF WorkerState
    <3>3. PushSound(j) /\ PullSound(j) BY <1>0, <3>2, Zenon DEF PushSound, PullSound
    <3> QED BY <3>1, <3>3, SoundMove, Zenon
  <2> QED BY <2>2, <2>3, Zenon
<1>3. ASSUME NEW o \in k.batch, NEW a \in Answers \ {"none"}, Current(w, o),
             Answered(w, o, a), a = "ok" /\ ~IsGenesis(o) => remote'[k.peer][o] > 0
      PROVE  WorkersSound'
  <2>0. k.pc = "push" /\ k.peer \in Peers /\ o \in Ops
    BY <1>0, <1>3, Zenon DEF Current, At, PushSound, WorkerState
  <2>1. PICK j \in WorkerState :
          j = [k EXCEPT !.pc = "settle", !.op = o, !.answer = a] /\ Become(w, j)
    <3>1. [k EXCEPT !.pc = "settle", !.op = o, !.answer = a] \in WorkerState
      BY <1>0, <2>0, Zenon DEF WorkerState, Steps
    <3> QED BY <1>3, <3>1, Zenon DEF Answered
  <2>2. /\ j.pc = "settle" /\ j.op = o /\ j.answer = a
        /\ j.peer = k.peer /\ j.targets = k.targets
    BY <1>0, <2>1, Zenon DEF WorkerState
  <2>4. PushSound(j)' BY <1>3, <2>0, <2>2, Zenon DEF PushSound, Held
  <2>5. PullSound(j) BY <1>0, <2>2, Zenon DEF PullSound
  <2>6. PullSound(j)' BY <2>5, PullStable, Zenon
  <2> QED BY <2>1, <2>4, <2>6, BecomeSound, Zenon
<1>4. ASSUME NEW o \in k.batch, Push(w, o) PROVE WorkersSound'
  <2>0. k.peer \in Peers /\ o \in Ops
    BY <1>0, <1>4, Zenon DEF Push, Current, At, PushSound, WorkerState
  <2>1. NodeAnswer(k.peer, o) \in Answers \ {"none"} BY Zenon DEF NodeAnswer, Answers
  <2>2. NodeAnswer(k.peer, o) = "ok" /\ ~IsGenesis(o) => remote'[k.peer][o] > 0
    BY <1>0, <1>4, <2>0, SubmitHolds, Zenon DEF Push
  <2> QED BY <1>3, <1>4, <2>1, <2>2, Zenon DEF Push
<1>5. ASSUME NEW o \in k.batch, PushRequestLost(w, o) \/ PushAnswerLost(w, o)
      PROVE  WorkersSound'
  <2>1. "network" \in Answers \ {"none"} BY Zenon DEF Answers
  <2> QED BY <1>3, <1>5, <2>1, Zenon DEF PushRequestLost, PushAnswerLost
<1>6. CASE Settle(w)
  <2>0. k.peer \in Peers /\ k.batch \subseteq Ops
    BY <1>0, <1>6, Zenon DEF Settle, At, PushSound, WorkerState
  <2>1. PICK j \in WorkerState : j = AfterSettle(w) /\ Become(w, j)
    <3>1. AfterSettle(w) \in WorkerState BY <1>0, AfterSettleType, Zenon
    <3> QED BY <1>6, <3>1, Zenon DEF Settle
  <2>2. \/ j.pc = "peers" /\ j.targets = {}
        \/ j.pc \in {"push", "release"} /\ j.peer = k.peer /\ j.targets = k.targets
    BY <1>0, <2>1, Zenon DEF AfterSettle, WorkerState, Idle
  <2>3. PushSound(j) /\ PullSound(j) BY <1>0, <2>0, <2>2, Zenon DEF PushSound, PullSound
  <2> QED BY <2>1, <2>3, SoundMove, Zenon
<1>7. CASE SettleMismatch(w) BY <1>7, AbortSound, Zenon DEF SettleMismatch, Abort
<1>8. CASE Release(w)
  <2>1. PICK j \in WorkerState :
          j = [Idle EXCEPT !.pc = "peers", !.todo = k.todo] /\ Become(w, j)
    <3>1. [Idle EXCEPT !.pc = "peers", !.todo = k.todo] \in WorkerState
      BY <1>0, IdleType, Zenon DEF WorkerState, Steps
    <3> QED BY <1>8, <3>1, Zenon DEF Release
  <2>2. j.pc = "peers" /\ j.targets = {} BY <2>1, Zenon DEF Idle
  <2> QED BY <2>1, <2>2, RestingSound, SoundMove, Zenon
<1> QED BY <1>1, <1>2, <1>4, <1>5, <1>6, <1>7, <1>8, Zenon DEF PushPhase

(* A page of changes, as a node returns it, covers the cursor it comes with. *)
LEMMA PageIsCovering ==
    ASSUME TypeOK, RowsBelowLast, NEW p \in Peers, NEW s, NEW after \in Nat,
           Covered(p, s, after), NEW P \in SUBSET Ops, IsPage(P, p, s, after), NEW next \in Nat,
           IF P = {} THEN next = after
           ELSE \E o \in P : IsLast(o, P, remote[p]) /\ next = remote[p][o]
    PROVE  /\ after <= next /\ next <= remoteLast[p] /\ P \subseteq Held(p)
           /\ \A o \in Held(p) : SpaceOf[o] = s /\ remote[p][o] <= next => o \in Stored \cup P
<1>0. remote[p] \in [Ops -> Nat] /\ remoteLast[p] \in Nat BY Zenon DEF TypeOK
<1>1. P \subseteq Held(p) /\ \A o \in P : remote[p][o] > after BY Zenon DEF IsPage, After
<1>2. \A o \in Ops : remote[p][o] <= remoteLast[p] BY Zenon DEF RowsBelowLast
<1>3. \A o \in Held(p) : SpaceOf[o] = s /\ remote[p][o] <= after => o \in Stored
  BY Zenon DEF Covered
<1>4. CASE P = {} BY <1>0, <1>1, <1>3, <1>4 DEF Covered
<1>5. ASSUME NEW l \in P, IsLast(l, P, remote[p]), next = remote[p][l]
      PROVE  /\ after <= next /\ next <= remoteLast[p] /\ P \subseteq Held(p)
             /\ \A o \in Held(p) : SpaceOf[o] = s /\ remote[p][o] <= next
                                      => o \in Stored \cup P
  <2>1. after <= next /\ next <= remoteLast[p] BY <1>0, <1>1, <1>2, <1>5
  <2>2. ASSUME NEW o \in Held(p), SpaceOf[o] = s, remote[p][o] <= next, o \notin Stored,
               o \notin P
        PROVE  FALSE
    <3>0. o \in Ops BY Zenon DEF Held
    <3>1. ~(remote[p][o] <= after) BY <1>3, <2>2, Zenon
    <3>2. o \in After(p, s, after) \ P BY <1>0, <2>2, <3>0, <3>1 DEF After
    <3>3. remote[p][l] < remote[p][o] BY <1>5, <3>2, Zenon DEF IsPage
    <3> QED BY <1>0, <1>5, <2>2, <3>0, <3>3
  <2> QED BY <1>1, <2>1, <2>2, Zenon
<1> QED BY <1>4, <1>5, Zenon

(* The pull half of a cycle: page and cursor go together.                  *)
LEMMA PullSoundness ==
    ASSUME SyncInv, NodesGrow, ClientGrows, NEW w \in Workers, PullPhase(w)
    PROVE  WorkersSound'
<1> DEFINE k == worker[w]
<1>0. TypeOK /\ RowsBelowLast /\ k \in WorkerState /\ PushSound(k) /\ PullSound(k)
  BY Zenon DEF SyncInv, TypeOK, WorkersSound
<1>1. CASE ScanTargets(w)
  <2>0. \A t \in DueTargets : t \in Targets /\ Covered(t.p, t.s, t.after)
    <3> SUFFICES ASSUME NEW t \in DueTargets PROVE t \in Targets /\ Covered(t.p, t.s, t.after)
      BY Zenon
    <3>1. t.p \in Peers /\ t.s \in Spaces /\ target[t.p][t.s].after = t.after
      BY DEF DueTargets
    <3>2. target[t.p][t.s] \in TargetRow BY <1>0, <3>1 DEF TypeOK, StoreTypeOK
    <3>3. t.after \in Nat BY <3>1, <3>2, Zenon DEF TargetRow
    <3>4. t \in Targets BY <3>1, <3>3 DEF DueTargets, Targets
    <3>5. Covered(t.p, t.s, target[t.p][t.s].after) BY <3>1, Zenon DEF SyncInv, CursorsCovered
    <3> QED BY <3>1, <3>4, <3>5, Zenon
  <2>1. PICK j \in WorkerState :
          j = [Idle EXCEPT !.pc = "targets", !.targets = DueTargets] /\ Become(w, j)
    <3>1. [Idle EXCEPT !.pc = "targets", !.targets = DueTargets] \in WorkerState
      BY <2>0, IdleType, Zenon DEF WorkerState, Steps
    <3> QED BY <1>1, <3>1, Zenon DEF ScanTargets
  <2>2. j.pc = "targets" /\ j.targets = DueTargets BY <2>1, Zenon DEF Idle
  <2>3. PushSound(j) /\ PullSound(j) BY <2>0, <2>2, Zenon DEF PushSound, PullSound
  <2> QED BY <2>1, <2>3, SoundMove, Zenon
<1>2. ASSUME NEW t \in k.targets, Pull(w, t) PROVE WorkersSound'
  <2>0. t \in Targets /\ t.p \in Peers /\ t.after \in Nat BY <1>0, Zenon DEF WorkerState, Targets
  <2>1. PICK P \in SUBSET Ops, next \in {t.after} \cup {remote[t.p][o] : o \in Ops} :
          /\ IsPage(P, t.p, t.s, t.after)
          /\ IF P = {} THEN next = t.after
             ELSE \E o \in P : IsLast(o, P, remote[t.p]) /\ next = remote[t.p][o]
          /\ Become(w, [k EXCEPT
                !.pc = "commit", !.targets = @ \ {t}, !.target = t, !.page = P,
                !.next = next, !.more = (P # After(t.p, t.s, t.after))])
    BY <1>2, Zenon DEF Pull
  <2>2. next \in Nat BY <1>0, <2>0, <2>1 DEF TypeOK
  <2>3. PICK more \in BOOLEAN : more = (P # After(t.p, t.s, t.after)) BY Zenon
  <2>4. PICK j \in WorkerState :
          /\ j = [k EXCEPT !.pc = "commit", !.targets = @ \ {t}, !.target = t, !.page = P,
                           !.next = next, !.more = more]
          /\ Become(w, j)
    <3>1. [k EXCEPT !.pc = "commit", !.targets = @ \ {t}, !.target = t, !.page = P,
                    !.next = next, !.more = more] \in WorkerState
      BY <1>0, <2>0, <2>2, Zenon DEF WorkerState, Steps
    <3> QED BY <2>1, <2>3, <3>1, Zenon
  <2>5. /\ j.pc = "commit" /\ j.targets \subseteq k.targets /\ j.target = t
        /\ j.page = P /\ j.next = next
    BY <1>0, <2>4, Zenon DEF WorkerState
  <2>6. Covered(t.p, t.s, t.after) BY <1>0, Zenon DEF PullSound
  <2>7. /\ t.after <= next /\ next <= remoteLast[t.p] /\ P \subseteq Held(t.p)
        /\ \A o \in Held(t.p) :
              SpaceOf[o] = t.s /\ remote[t.p][o] <= next => o \in Stored \cup P
    BY <1>0, <2>0, <2>1, <2>2, <2>6, PageIsCovering
  <2>8. PageCovers(j) BY <2>5, <2>7, Zenon DEF PageCovers
  <2>9. PushSound(j) /\ PullSound(j) BY <1>0, <2>0, <2>5, <2>8, Zenon DEF PushSound, PullSound
  <2> QED BY <2>4, <2>9, SoundMove, Zenon
<1>3. ASSUME NEW t \in k.targets, PullFails(w, t) PROVE WorkersSound'
  <2>0. t \in Targets BY <1>0, Zenon DEF WorkerState
  <2>1. PICK j \in WorkerState :
          /\ j = [k EXCEPT !.pc = "failed", !.targets = @ \ {t}, !.target = t]
          /\ Become(w, j)
    <3>1. [k EXCEPT !.pc = "failed", !.targets = @ \ {t}, !.target = t] \in WorkerState
      BY <1>0, <2>0, Zenon DEF WorkerState, Steps
    <3> QED BY <1>3, <3>1, Zenon DEF PullFails
  <2>2. j.pc = "failed" /\ j.targets \subseteq k.targets /\ j.target = t
    BY <1>0, <2>1, Zenon DEF WorkerState
  <2>3. PushSound(j) /\ PullSound(j) BY <1>0, <2>0, <2>2, Zenon DEF PushSound, PullSound
  <2> QED BY <2>1, <2>3, SoundMove, Zenon
<1>4. ASSUME NEW o \in k.page, CommitPulled(w, o) PROVE WorkersSound'
  <2>0. k.pc = "commit" /\ k.target \in Targets /\ PageCovers(k) /\ o \in Ops
    BY <1>0, <1>4, Zenon DEF CommitPulled, NextPulled, At, PullSound, WorkerState
  <2>1. PICK j \in WorkerState : j = [k EXCEPT !.page = @ \ {o}] /\ Become(w, j)
    <3>1. [k EXCEPT !.page = @ \ {o}] \in WorkerState BY <1>0, Zenon DEF WorkerState
    <3> QED BY <1>4, <3>1, Zenon DEF CommitPulled
  <2>2. /\ j.pc = "commit" /\ j.targets = k.targets /\ j.target = k.target
        /\ j.page = k.page \ {o} /\ j.next = k.next
    BY <1>0, <2>0, <2>1, Zenon DEF WorkerState
  <2>3. o \in Stored'
    <3>1. Insert(o) /\ local \in [Ops -> Nat] /\ lastRow \in Nat
      BY <1>0, <1>4, Zenon DEF CommitPulled, CommitFromPeer, TypeOK, StoreTypeOK
    <3>2. local'[o] > 0 BY <2>0, <3>1 DEF Insert, Stored
    <3> QED BY <2>0, <3>2, Zenon DEF Stored
  <2>4. PICK i \in WorkerState : i = k BY <1>0, Zenon
  <2>5. PageCovers(i)' BY <2>0, <2>4, PageStable, Zenon
  <2>6. PageCovers(j)' BY <2>2, <2>3, <2>4, <2>5, Zenon DEF PageCovers
  <2>7. PushSound(j)' BY <2>2, Zenon DEF PushSound
  <2>8. PullSound(i)' BY <1>0, <2>4, PullStable, Zenon
  <2>9. PullSound(j)' BY <2>0, <2>2, <2>4, <2>6, <2>8, Zenon DEF PullSound
  <2> QED BY <2>1, <2>7, <2>9, BecomeSound, Zenon
<1>5. ASSUME NEW o \in k.page, CommitFails(w, o) PROVE WorkersSound'
  BY <1>5, AbortSound, Zenon DEF CommitFails, Abort
<1>6. CASE Advance(w) \/ RecordFailure(w)
  <2>1. PICK j \in WorkerState : j = NextTarget(w) /\ Become(w, j)
    <3>1. NextTarget(w) \in WorkerState BY <1>0, IdleType, Zenon DEF NextTarget, WorkerState, Steps
    <3> QED BY <1>6, <3>1, Zenon DEF Advance, RecordFailure
  <2>2. j.pc = "targets" /\ j.targets = k.targets BY <2>1, Zenon DEF NextTarget, Idle
  <2>3. PushSound(j) /\ PullSound(j) BY <1>0, <2>2, Zenon DEF PushSound, PullSound
  <2> QED BY <2>1, <2>3, SoundMove, Zenon
<1>7. CASE CursorMismatch(w) \/ EndCycle(w)
  BY <1>7, AbortSound, Zenon DEF CursorMismatch, EndCycle, Abort
<1> QED BY <1>1, <1>2, <1>3, <1>4, <1>5, <1>6, <1>7, Zenon DEF PullPhase

(* Every step keeps every worker consistent with the logs.                 *)
LEMMA WorkersPreserved ==
    ASSUME SyncInv, [Next]_vars, NodesGrow, ClientGrows
    PROVE  WorkersSound'
<1>0. worker \in [Workers -> WorkerState] /\ WorkersSound BY Zenon DEF SyncInv, TypeOK
<1>1. CASE UNCHANGED worker
  <2> SUFFICES ASSUME NEW w \in Workers PROVE (PushSound(worker[w]) /\ PullSound(worker[w]))'
    BY Zenon DEF WorkersSound
  <2>1. PICK j \in WorkerState : j = worker[w] BY <1>0, Zenon
  <2>2. PushSound(j)' /\ PullSound(j)' BY <1>0, <2>1, WorkerStable, Zenon DEF WorkersSound
  <2>3. worker'[w] = j BY <1>1, <2>1, Zenon
  <2> QED BY <2>2, <2>3, Zenon DEF PushSound, PullSound, PageCovers
<1>2. CASE Crash
  <2>1. \A w \in Workers : worker'[w] = Idle BY <1>2, Zenon DEF Crash
  <2>2. Idle.pc = "idle" /\ Idle.targets = {} BY Zenon DEF Idle
  <2> QED BY <2>1, <2>2, Zenon DEF WorkersSound, PushSound, PullSound
<1>3. CASE Environment
  BY <1>1, <1>2, <1>3, Zenon
  DEF Environment, Author, NewWorkspace, Configure, Import, ForeignSubmit,
     TimePasses
<1> QED BY <1>1, <1>3, PushSoundness, PullSoundness, Zenon DEF Next, vars
-------------------------------------------------------------------------------
(* The inductive invariant and what follows from it.                       *)

(* It holds of the empty store and the empty nodes.                        *)
LEMMA InitSyncInv == Init => SyncInv
<1> SUFFICES ASSUME Init PROVE SyncInv BY Zenon
<1>1. TypeOK BY InitType, Zenon
<1>2. Stored = {} /\ \A p \in Peers : Held(p) = {} BY DEF Init, StoreInit, Stored, Held
<1>3. RowsBelowLast BY DEF Init, StoreInit, RowsBelowLast
<1>4. LogsAreCausal /\ HeadsAreMaximal
  BY <1>2, Zenon DEF LogsAreCausal, HeadsAreMaximal, MaximalOf, Init, StoreInit
<1>5. AcknowledgedIsHeld BY Zenon DEF Init, StoreInit, NoDelivery, AcknowledgedIsHeld
<1>6. CursorsCovered
  <2>1. \A p \in Peers, s \in Spaces : target[p][s].after = 0
    BY Zenon DEF Init, StoreInit, NoTarget
  <2> QED BY <1>1, <2>1, ZeroCovered DEF CursorsCovered
<1>7. WorkersSound
  <2>1. \A w \in Workers : worker[w] = Idle BY Zenon DEF Init
  <2>2. Idle.pc = "idle" /\ Idle.targets = {} BY Zenon DEF Idle
  <2> QED BY <2>1, <2>2, Zenon DEF WorkersSound, PushSound, PullSound
<1> QED BY <1>1, <1>3, <1>4, <1>5, <1>6, <1>7, Zenon DEF SyncInv

(* Every step preserves it.                                                *)
LEMMA NextSyncInv ==
    ASSUME SyncInv, [Next]_vars
    PROVE  SyncInv'
<1>0. TypeOK /\ WorkersSound /\ RowsBelowLast /\ LogsAreCausal /\ HeadsAreMaximal
  BY Zenon DEF SyncInv
<1>1. NodesGrow /\ ClientGrows BY <1>0, LogsGrow, Zenon
<1>2. TypeOK'
  <2>1. CASE UNCHANGED vars BY <1>0, <2>1, Zenon DEF vars, TypeOK, StoreTypeOK
  <2> QED BY <1>0, <2>1, PushPhaseType, PullPhaseType, EnvironmentType, Zenon DEF Next
<1>3. RowsBelowLast' /\ LogsAreCausal' /\ HeadsAreMaximal' BY <1>0, <1>1, GraphPreserved, Zenon
<1>4. AcknowledgedIsHeld' BY <1>1, AcknowledgedPreserved, Zenon
<1>5. CursorsCovered' BY <1>1, <1>2, CursorsPreserved, Zenon
<1>6. WorkersSound' BY <1>1, WorkersPreserved, Zenon
<1> QED BY <1>2, <1>3, <1>4, <1>5, <1>6, Zenon DEF SyncInv

(* The inductive invariant holds throughout.                               *)
THEOREM SyncInvariant == Spec => []SyncInv
<1>1. SyncInv /\ [Next]_vars => SyncInv' BY NextSyncInv, Zenon
<1> QED BY <1>1, InitSyncInv, PTL DEF Spec

(* Every variable keeps its type.                                          *)
THEOREM SyncTypeCorrect == Spec => []TypeOK
<1>1. SyncInv => TypeOK BY Zenon DEF SyncInv
<1> QED BY <1>1, SyncInvariant, PTL

(* The client's log and every node's are causally closed and ordered,      *)
(* whatever is lost, repeated, relayed or interrupted.                     *)
THEOREM LogsStayCausal == Spec => []LogsAreCausal
<1>1. SyncInv => LogsAreCausal BY Zenon DEF SyncInv
<1> QED BY <1>1, SyncInvariant, PTL

(* client_entity_heads is the frontier of the client's log.                *)
THEOREM ClientHeadsCorrect == Spec => []HeadsAreMaximal
<1>1. SyncInv => HeadsAreMaximal BY Zenon DEF SyncInv
<1> QED BY <1>1, SyncInvariant, PTL

(* A delivery recorded as acknowledged is at the peer: run_cycle never     *)
(* forgets an operation that the peer does not have.                       *)
THEOREM AcknowledgementsAreTrue == Spec => []AcknowledgedIsHeld
<1>1. SyncInv => AcknowledgedIsHeld BY Zenon DEF SyncInv
<1> QED BY <1>1, SyncInvariant, PTL

(* No pull cursor passes an operation the client does not have, through    *)
(* lost pages, concurrent workers and crashes between commit and advance.  *)
THEOREM CursorsNeverSkip == Spec => []CursorCoversLog
<1>1. SyncInv => CursorCoversLog BY Zenon DEF SyncInv, CursorsCovered, Covered, CursorCoversLog
<1> QED BY <1>1, SyncInvariant, PTL

-------------------------------------------------------------------------------
(* Refinement of ReplicatedLog.                                            *)

(* A worker pushes only what the client has stored.                        *)
BatchesStored == \A w \in Workers : worker[w].batch \subseteq Stored

(* A step leaves a worker's batch, shrinks it, or leases stored operations. *)
LEMMA BatchesPreserved ==
    ASSUME SyncInv, BatchesStored, [Next]_vars
    PROVE  BatchesStored'
<1>0. worker \in [Workers -> WorkerState] BY Zenon DEF SyncInv, TypeOK
<1>1. Stored \subseteq Stored'
  <2>1. ClientGrows BY LogsGrow, Zenon DEF SyncInv
  <2> QED BY <2>1, ClientKeeps, Zenon DEF SyncInv, ClientKept
<1>2. CASE UNCHANGED worker BY <1>1, <1>2, Zenon DEF BatchesStored
<1>3. CASE Crash BY <1>3, Zenon DEF Crash, BatchesStored, Idle
<1>4. ASSUME NEW w \in Workers, NEW k, Become(w, k), k.batch \subseteq Stored
      PROVE  BatchesStored'
  BY <1>0, <1>1, <1>4, Zenon DEF Become, BatchesStored
<1>5. ASSUME NEW w \in Workers, Become(w, Idle) PROVE BatchesStored'
  BY <1>4, <1>5, Zenon DEF Idle
<1>6. ASSUME NEW w \in Workers, PushPhase(w) PROVE BatchesStored'
  <2> DEFINE k == worker[w]
  <2>0. k \in WorkerState /\ k.batch \subseteq Stored BY <1>0, Zenon DEF BatchesStored
  <2>1. CASE BeginCycle(w)
    <3>1. PICK j : /\ j = [Idle EXCEPT !.pc = "peers", !.todo = {p \in Peers : peer[p].enabled}]
                   /\ Become(w, j)
      BY <2>1, Zenon DEF BeginCycle
    <3>2. j.batch = {} BY <2>0, <3>1, Zenon DEF Idle
    <3> QED BY <1>4, <2>0, <3>1, <3>2, Zenon
  <2>2. ASSUME NEW p \in Peers, Lease(w, p) PROVE BatchesStored'
    <3>1. PICK l \in LeaseIds, B \in SUBSET Ops :
            /\ LeaseDue(p, l, B)
            /\ Become(w, IF B = {}
                         THEN [k EXCEPT !.todo = @ \ {p}]
                         ELSE [k EXCEPT !.todo = @ \ {p}, !.pc = "push",
                                        !.peer = p, !.lease = l, !.batch = B])
      BY <2>2, Zenon DEF Lease
    <3>2. B \subseteq Stored BY <3>1, Zenon DEF LeaseDue, IsBatch, Due
    <3>3. PICK j : /\ Become(w, j)
                   /\ j = IF B = {}
                          THEN [k EXCEPT !.todo = @ \ {p}]
                          ELSE [k EXCEPT !.todo = @ \ {p}, !.pc = "push",
                                         !.peer = p, !.lease = l, !.batch = B]
      BY <3>1, Zenon
    <3>4. j.batch = k.batch \/ j.batch = B BY <2>0, <3>3, Zenon DEF WorkerState
    <3> QED BY <1>4, <2>0, <3>2, <3>3, <3>4, Zenon
  <2>3. ASSUME NEW o, NEW a, Answered(w, o, a) PROVE BatchesStored'
    <3>1. PICK j : j = [k EXCEPT !.pc = "settle", !.op = o, !.answer = a] /\ Become(w, j)
      BY <2>3, Zenon DEF Answered
    <3>2. j.batch = k.batch BY <2>0, <3>1, Zenon DEF WorkerState
    <3> QED BY <1>4, <2>0, <3>1, <3>2, Zenon
  <2>4. CASE Settle(w)
    <3>1. AfterSettle(w).batch \subseteq Stored BY <2>0, Zenon DEF AfterSettle, WorkerState, Idle
    <3> QED BY <1>4, <2>4, <3>1, Zenon DEF Settle
  <2>5. CASE SettleMismatch(w) BY <1>5, <2>5, Zenon DEF SettleMismatch, Abort
  <2>6. CASE Release(w)
    <3>1. PICK j : j = [Idle EXCEPT !.pc = "peers", !.todo = k.todo] /\ Become(w, j)
      BY <2>6, Zenon DEF Release
    <3>2. j.batch = {} BY <2>0, <3>1, Zenon DEF Idle
    <3> QED BY <1>4, <2>0, <3>1, <3>2, Zenon
  <2> QED BY <1>6, <2>1, <2>2, <2>3, <2>4, <2>5, <2>6, Zenon
          DEF PushPhase, Push, PushRequestLost, PushAnswerLost
<1>7. ASSUME NEW w \in Workers, PullPhase(w) PROVE BatchesStored'
  <2> DEFINE k == worker[w]
  <2>0. k \in WorkerState /\ k.batch \subseteq Stored BY <1>0, Zenon DEF BatchesStored
  <2>1. CASE ScanTargets(w)
    <3>1. PICK j : j = [Idle EXCEPT !.pc = "targets", !.targets = DueTargets] /\ Become(w, j)
      BY <2>1, Zenon DEF ScanTargets
    <3>2. j.batch = {} BY <2>0, <3>1, Zenon DEF Idle
    <3> QED BY <1>4, <2>0, <3>1, <3>2, Zenon
  <2>2. ASSUME NEW t \in k.targets, Pull(w, t) PROVE BatchesStored'
    <3>1. PICK P, next, more :
            Become(w, [k EXCEPT !.pc = "commit", !.targets = @ \ {t}, !.target = t,
                                !.page = P, !.next = next, !.more = more])
      BY <2>2, Zenon DEF Pull
    <3>2. PICK j : /\ Become(w, j)
                   /\ j = [k EXCEPT !.pc = "commit", !.targets = @ \ {t}, !.target = t,
                                    !.page = P, !.next = next, !.more = more]
      BY <3>1, Zenon
    <3>3. j.batch = k.batch BY <2>0, <3>2, Zenon DEF WorkerState
    <3> QED BY <1>4, <2>0, <3>2, <3>3, Zenon
  <2>3. ASSUME NEW t \in k.targets, PullFails(w, t) PROVE BatchesStored'
    <3>1. PICK j : j = [k EXCEPT !.pc = "failed", !.targets = @ \ {t}, !.target = t] /\ Become(w, j)
      BY <2>3, Zenon DEF PullFails
    <3>2. j.batch = k.batch BY <2>0, <3>1, Zenon DEF WorkerState
    <3> QED BY <1>4, <2>0, <3>1, <3>2, Zenon
  <2>4. ASSUME NEW o \in k.page, CommitPulled(w, o) PROVE BatchesStored'
    <3>1. PICK j : j = [k EXCEPT !.page = @ \ {o}] /\ Become(w, j)
      BY <2>4, Zenon DEF CommitPulled
    <3>2. j.batch = k.batch BY <2>0, <3>1, Zenon DEF WorkerState
    <3> QED BY <1>4, <2>0, <3>1, <3>2, Zenon
  <2>5. CASE Become(w, NextTarget(w))
    <3>1. PICK j : j = [Idle EXCEPT !.pc = "targets", !.targets = k.targets] /\ Become(w, j)
      BY <2>5, Zenon DEF NextTarget
    <3>2. j.batch = {} BY <2>0, <3>1, Zenon DEF Idle
    <3> QED BY <1>4, <2>0, <3>1, <3>2, Zenon
  <2> QED BY <1>5, <1>7, <2>1, <2>2, <2>3, <2>4, <2>5, Zenon
          DEF PullPhase, CommitFails, Advance, RecordFailure, CursorMismatch, EndCycle, Abort
<1>8. CASE Environment
  BY <1>2, <1>3, <1>8, Zenon
  DEF Environment, Author, NewWorkspace, Configure, Import, ForeignSubmit,
     TimePasses
<1> QED BY <1>2, <1>6, <1>7, <1>8, Zenon DEF Next, vars


(* The client gains the operations D, after what they refer to.            *)
LEMMA ClientGain ==
    ASSUME NEW D \in SUBSET Ops, \A o \in D : Refs(o) \subseteq Stored \cup D,
           Stored' = Stored \cup D, UNCHANGED nodeVars
    PROVE  Replica!Gain(Client, D)
<1>1. Logs' = [Logs EXCEPT ![Client] = @ \cup D]
  BY Zenon DEF Logs, Replicas, Client, Held, nodeVars
<1>2. Logs[Client] = Stored BY Zenon DEF Logs, Replicas
<1> QED BY <1>1, <1>2, Zenon DEF Replica!Gain

(* Node p gains one operation, after what it refers to.                    *)
LEMMA NodeGain ==
    ASSUME TypeOK, NEW p \in Peers, NEW o \in Ops, Refs(o) \subseteq Held(p), NodeAppend(p, o),
           UNCHANGED local
    PROVE  Replica!Gain(p, {o})
<1>0. remote \in [Peers -> [Ops -> Nat]] /\ remoteLast \in [Peers -> Nat] /\ p # Client
  BY Zenon DEF TypeOK, Client
<1>1. \A q \in Peers : Held(q)' = IF q = p THEN Held(q) \cup {o} ELSE Held(q)
  BY <1>0 DEF NodeAppend, Held
<1>2. Stored' = Stored BY Zenon DEF Stored
<1>3. Logs' = [Logs EXCEPT ![p] = @ \cup {o}]
  BY <1>0, <1>1, <1>2, Zenon DEF Logs, Replicas, Client
<1>4. Logs[p] = Held(p) BY <1>0, Zenon DEF Logs, Replicas
<1> QED BY <1>3, <1>4 DEF Replica!Gain

(* A commit of o at the client, which somebody had or which is new here.   *)
LEMMA CommitMaps ==
    ASSUME TypeOK, NEW o \in Ops, Committable(o), Insert(o), UNCHANGED nodeVars,
           o \in LocalOps \/ \E p \in Peers : o \in Held(p)
    PROVE  Replica!Next \/ UNCHANGED Logs
<1>0. local \in [Ops -> Nat] /\ lastRow \in Nat BY Zenon DEF TypeOK, StoreTypeOK
<1>1. CASE o \in Stored
  BY <1>1, Zenon DEF Insert, Logs, Stored, Held, nodeVars
<1>2. CASE o \notin Stored
  <2>1. Stored' = Stored \cup {o} BY <1>0, <1>2 DEF Insert, Stored
  <2>2. Refs(o) \subseteq Stored BY <1>2, Zenon DEF Committable
  <2>3. Replica!Gain(Client, {o}) BY <2>1, <2>2, ClientGain
  <2>4. Client \in Replicas BY Zenon DEF Replicas
  <2>5. CASE o \in LocalOps
    <3>1. {o} \in SUBSET Origins[Client] BY <2>5, <2>4, Zenon DEF Origins
    <3> QED BY <2>3, <2>4, <3>1, Zenon DEF Replica!Next, Replica!Originate
  <2>6. ASSUME NEW p \in Peers, o \in Held(p) PROVE Replica!Next
    <3>1. p \in Replicas /\ o \in Logs[p] BY <2>6, Zenon DEF Logs, Replicas, Client
    <3> QED BY <2>3, <2>4, <3>1, Zenon DEF Replica!Next, Replica!Copy
  <2> QED BY <2>5, <2>6, Zenon
<1> QED BY <1>1, <1>2, Zenon

(* A submission of o to node p by a client that has it.                    *)
LEMMA SubmitMaps ==
    ASSUME TypeOK, NEW p \in Peers, NEW o \in Stored, NodeSubmit(p, o), UNCHANGED local
    PROVE  Replica!Next \/ UNCHANGED Logs
<1>0. o \in Ops BY Zenon DEF Stored
<1>1. CASE Admits(p, o)
  <2>1. Refs(o) \subseteq Held(p) BY <1>1, Zenon DEF Admits, NodeAnswer
  <2>2. Replica!Gain(p, {o}) BY <1>0, <1>1, <2>1, NodeGain, Zenon DEF NodeSubmit
  <2>3. p \in Replicas /\ Client \in Replicas /\ o \in Logs[Client] BY Zenon DEF Replicas, Logs
  <2> QED BY <2>2, <2>3, Zenon DEF Replica!Next, Replica!Copy
<1>2. CASE ~Admits(p, o)
  BY <1>2 DEF NodeSubmit, nodeVars, Logs, Stored, Held
<1> QED BY <1>1, <1>2, Zenon

(* Storing a workspace originates its anchors at the client.               *)
LEMMA WorkspaceMaps ==
    ASSUME TypeOK, LogsAreCausal, NEW a \in WorkspaceAnchors, NewWorkspace(a)
    PROVE  Replica!Next
<1> DEFINE g == a[1]
           c == a[2]
<1>0. local \in [Ops -> Nat] /\ lastRow \in Nat /\ g \in Ops /\ c \in Ops
  BY Zenon DEF TypeOK, StoreTypeOK
<1>1. StoreWorkspace(g, c) /\ UNCHANGED nodeVars BY Zenon DEF NewWorkspace
<1>2. Refs(g) = {} /\ Refs(c) = {g}
  <2>1. IsGenesis(g) BY <1>1, Zenon DEF StoreWorkspace
  <2>2. Refs(g) = {} BY <1>0, <2>1, GenesisRefs, Zenon
  <2> QED BY <1>1, <2>2, Zenon DEF StoreWorkspace, Refs
<1>3. g # c
  <2>1. g \in Refs(c) /\ g \notin Refs(g) BY <1>2, Zenon
  <2> QED BY <2>1, Zenon
<1>4. Stored' = Stored \cup {g, c}
  <2>1. \A q \in Ops : q \notin {g, c} => local'[q] = local[q]
    BY <1>0, <1>1, Zenon DEF StoreWorkspace
  <2>2. local'[g] > 0 BY <1>0, <1>1, <1>3 DEF StoreWorkspace, Stored
  <2>3. local'[c] > 0 BY <1>0, <1>1, <1>3 DEF StoreWorkspace, Stored
  <2> QED BY <1>0, <2>1, <2>2, <2>3, Zenon DEF Stored
<1>5. Replica!Gain(Client, {g, c}) BY <1>0, <1>1, <1>2, <1>4, ClientGain
<1>6. Client \in Replicas /\ {g, c} \in SUBSET Origins[Client] BY DEF Replicas, Origins
<1> QED BY <1>5, <1>6, Zenon DEF Replica!Next, Replica!Originate

(* Every step is a step of ReplicatedLog or leaves all logs alone.         *)
LEMMA StepMaps ==
    ASSUME SyncInv, BatchesStored, [Next]_vars
    PROVE  Replica!Next \/ UNCHANGED Logs
<1>0. TypeOK /\ worker \in [Workers -> WorkerState] BY Zenon DEF SyncInv, TypeOK
<1>1. CASE UNCHANGED <<local, nodeVars>> BY <1>1 DEF nodeVars, Logs, Stored, Held
<1>2. ASSUME NEW w \in Workers, PushPhase(w) PROVE Replica!Next \/ UNCHANGED Logs
  <2> DEFINE k == worker[w]
  <2>1. ASSUME NEW o \in k.batch, Push(w, o) \/ PushAnswerLost(w, o)
        PROVE  Replica!Next \/ UNCHANGED Logs
    <3>1. o \in Stored /\ k.peer \in Peers
      BY <2>1, Zenon DEF BatchesStored, SyncInv, WorkersSound, PushSound, Push, PushAnswerLost,
                  Current, At
    <3> QED BY <1>0, <2>1, <3>1, SubmitMaps, Zenon DEF Push, PushAnswerLost, storeVars
  <2>2. ASSUME ~\E o \in k.batch : Push(w, o) \/ PushAnswerLost(w, o)
        PROVE  UNCHANGED <<local, nodeVars>>
    BY ONLY <1>2, <2>2, Zenon DEF PushPhase, BeginCycle, Lease, LeaseDue, PushRequestLost,
       Settle, FinishDelivery, SettleMismatch, Release, ReleaseLease, storeVars
  <2> QED BY <1>1, <2>1, <2>2, Zenon
<1>3. ASSUME NEW w \in Workers, PullPhase(w) PROVE Replica!Next \/ UNCHANGED Logs
  <2> DEFINE k == worker[w]
  <2>1. ASSUME NEW o \in k.page, CommitPulled(w, o)
        PROVE  Replica!Next \/ UNCHANGED Logs
    <3>1. k.target.p \in Peers /\ o \in Held(k.target.p)
      BY <2>1, Zenon DEF SyncInv, WorkersSound, PullSound, PageCovers, CommitPulled, NextPulled, At,
                  Targets
    <3>2. o \in Ops BY <3>1, Zenon DEF Held
    <3> QED BY <1>0, <2>1, <3>1, <3>2, CommitMaps, Zenon DEF CommitPulled, CommitFromPeer
  <2>2. ASSUME ~\E o \in k.page : CommitPulled(w, o)
        PROVE  UNCHANGED <<local, nodeVars>>
    BY ONLY <1>3, <2>2, Zenon DEF PullPhase, ScanTargets, Pull, PullFails, CommitFails, Advance,
       RecordFailure, CursorMismatch, EndCycle, AdvancePullCursor, RecordPullFailure, storeVars
  <2> QED BY <1>1, <2>1, <2>2, Zenon
<1>4. ASSUME NEW o \in Ops, Author(o) PROVE Replica!Next \/ UNCHANGED Logs
  BY <1>0, <1>4, CommitMaps, Zenon DEF Author, CommitLocal
<1>5. ASSUME NEW p \in Peers, NEW o \in Ops, Import(o, p) PROVE Replica!Next \/ UNCHANGED Logs
  BY <1>0, <1>5, CommitMaps, Zenon DEF Import, CommitFromPeer
<1>6. ASSUME NEW p \in Peers, NEW o \in Ops, ForeignSubmit(p, o) PROVE Replica!Next
  <2>1. Refs(o) \subseteq Held(p)
    <3>1. IsGenesis(o) => Refs(o) = {} BY GenesisRefs, Zenon
    <3>2. Admits(p, o) => Refs(o) \subseteq Held(p) BY Zenon DEF Admits, NodeAnswer
    <3> QED BY <1>6, <3>1, <3>2, Zenon DEF ForeignSubmit
  <2>2. Replica!Gain(p, {o}) BY <1>0, <1>6, <2>1, NodeGain, Zenon DEF ForeignSubmit, storeVars
  <2>3. p \in Replicas /\ {o} \in SUBSET Origins[p]
    BY <1>6, Zenon DEF ForeignSubmit, Replicas, Origins, Client
  <2> QED BY <2>2, <2>3, Zenon DEF Replica!Next, Replica!Originate
<1>7. ASSUME NEW a \in WorkspaceAnchors, NewWorkspace(a) PROVE Replica!Next
  BY <1>0, <1>7, WorkspaceMaps, Zenon DEF SyncInv
<1>8. ASSUME NEW p \in Peers, Configure(p) PROVE UNCHANGED <<local, nodeVars>>
  BY <1>8, Zenon DEF Configure, UpsertPeer, SetPeerEnabled, ConfigurePeerSpace,
     RequeueUnacknowledged
<1>9. CASE TimePasses \/ Crash
  BY <1>1, <1>9, Zenon
  DEF TimePasses, RetryTimeReached, PullTimeReached, LeaseExpires, Crash, storeVars
<1>10. CASE Environment
  BY <1>1, <1>4, <1>5, <1>6, <1>7, <1>8, <1>9, <1>10, Zenon DEF Environment
<1>11. CASE UNCHANGED vars BY <1>1, <1>11, Zenon DEF vars, nodeVars
<1> QED BY <1>2, <1>3, <1>10, <1>11, Zenon DEF Next

(* The client, its nodes and its workers implement the replicated log: no  *)
(* loss, retry, relay, crash or second worker makes a replica hold an      *)
(* operation nobody authored, lose one, or hold it before its references.  *)
THEOREM SyncImplementsReplicatedLog == Spec => ImplementsReplicatedLog
<1>1. Init => Replica!Init
  BY DEF Init, StoreInit, Replica!Init, Logs, Stored, Held, Replicas
<1>2. Init => BatchesStored BY DEF Init, BatchesStored, Idle
<1>3. SyncInv /\ BatchesStored /\ [Next]_vars => BatchesStored' BY BatchesPreserved, Zenon
<1>4. SyncInv /\ BatchesStored /\ [Next]_vars => [Replica!Next]_Logs BY StepMaps, Zenon
<1> QED BY <1>1, <1>2, <1>3, <1>4, SyncInvariant, PTL
        DEF Spec, ImplementsReplicatedLog, Replica!Spec

-------------------------------------------------------------------------------
(* What a step may never do.                                               *)

AcksKept ==
    \A p \in Peers, o \in Ops :
        delivery[p][o].state = "acknowledged" => delivery'[p][o].state = "acknowledged"

(* INSERT OR IGNORE leaves an acknowledged row alone.                      *)
LEMMA BackfillKeepsAck ==
    ASSUME NEW rows, NEW S, NEW o \in Ops, rows[o].state = "acknowledged"
    PROVE  Backfill(rows, S)[o].state = "acknowledged"
BY Zenon DEF Backfill

(* A commit acknowledges, queues or leaves; it never takes back.           *)
LEMMA QueueKeepsAcks ==
    ASSUME TypeOK, NEW o \in Ops, NEW source, delivery' = QueueFrom(o, source)
    PROVE  AcksKept
<1> SUFFICES ASSUME NEW p \in Peers, NEW q \in Ops, delivery[p][q].state = "acknowledged"
             PROVE  delivery'[p][q].state = "acknowledged"
  BY Zenon DEF AcksKept
<1>0. delivery[p] \in [Ops -> Delivery] BY Zenon DEF TypeOK, StoreTypeOK
<1>1. CASE p \in source
  <2>1. delivery'[p] = [delivery[p] EXCEPT ![o] = Acknowledged] BY <1>1, Zenon DEF QueueFrom
  <2> QED BY <1>0, <2>1 DEF Acknowledged
<1>2. CASE p \notin source
  <2>1. delivery'[p] = Backfill(delivery[p], {o}) \/ delivery'[p] = delivery[p]
    BY <1>2, Zenon DEF QueueFrom
  <2> QED BY <2>1, BackfillKeepsAck
<1> QED BY <1>1, <1>2, Zenon

(* Neither configuring a peer nor requeueing a space takes one back.       *)
LEMMA ConfigureKeepsAcks ==
    ASSUME TypeOK, NEW p \in Peers, Configure(p)
    PROVE  AcksKept
<1>0. delivery \in [Peers -> [Ops -> Delivery]] BY Zenon DEF TypeOK, StoreTypeOK
<1> SUFFICES ASSUME NEW q \in Peers, NEW o \in Ops, delivery[q][o].state = "acknowledged"
             PROVE  delivery'[q][o].state = "acknowledged"
  BY Zenon DEF AcksKept
<1>1. ASSUME NEW S, delivery' = [delivery EXCEPT ![p] = Backfill(@, S)]
      PROVE  delivery'[q][o].state = "acknowledged"
  <2>1. delivery'[q] = delivery[q] \/ delivery'[q] = Backfill(delivery[q], S) BY <1>0, <1>1, Zenon
  <2>2. Backfill(delivery[q], S)[o].state = "acknowledged" \/ delivery[q] = delivery'[q]
    BY BackfillKeepsAck, Zenon
  <2> QED BY <2>1, <2>2, Zenon
<1>2. ASSUME NEW s \in Spaces, RequeueUnacknowledged(p, s)
      PROVE  delivery'[q][o].state = "acknowledged"
  <2> DEFINE rows == Backfill(delivery[p], OfSpace(DataOps(Stored), s))
  <2>1. delivery[p][o].state = "acknowledged" => rows[o].state = "acknowledged"
    BY BackfillKeepsAck, Zenon
  <2>2. \/ delivery'[q] = delivery[q]
        \/ q = p /\ (rows[o].state = "acknowledged" => delivery'[q][o] = rows[o])
    BY <1>0, <1>2, Zenon DEF RequeueUnacknowledged
  <2> QED BY <2>1, <2>2, Zenon
<1>3. ASSUME NEW row \in PeerConfigs, UpsertPeer(p, row)
      PROVE  delivery'[q][o].state = "acknowledged"
  BY <1>1, <1>3, Zenon DEF UpsertPeer
<1>4. ASSUME NEW e \in BOOLEAN, SetPeerEnabled(p, e)
      PROVE  delivery'[q][o].state = "acknowledged"
  BY <1>1, <1>4, Zenon DEF SetPeerEnabled
<1>5. ASSUME NEW s \in Spaces, NEW m, ConfigurePeerSpace(p, s, m)
      PROVE  delivery'[q][o].state = "acknowledged"
  BY <1>1, <1>5, Zenon DEF ConfigurePeerSpace
<1> QED BY <1>2, <1>3, <1>4, <1>5, Zenon DEF Configure

(* A worker touches a delivery only while the row is due or leased to it.  *)
LEMMA PushKeepsAcks ==
    ASSUME SyncInv, NEW w \in Workers, PushPhase(w)
    PROVE  AcksKept
<1> DEFINE k == worker[w]
<1>0. delivery \in [Peers -> [Ops -> Delivery]] /\ k \in WorkerState /\ PushSound(k)
  BY Zenon DEF SyncInv, TypeOK, StoreTypeOK, WorkersSound
<1>1. CASE UNCHANGED delivery BY <1>1, Zenon DEF AcksKept
<1>2. ASSUME NEW p \in Peers, Lease(w, p) PROVE AcksKept
  <2>1. PICK l \in LeaseIds, B \in SUBSET Ops : LeaseDue(p, l, B) BY <1>2, Zenon DEF Lease
  <2>2. \A o \in B : delivery[p][o].state # "acknowledged"
    BY <2>1, Zenon DEF LeaseDue, IsBatch, Due
  <2>3. \A q \in Peers, o \in Ops : q # p \/ o \notin B => delivery'[q][o] = delivery[q][o]
    BY <1>0, <2>1, Zenon DEF LeaseDue
  <2> QED BY <2>2, <2>3 DEF AcksKept
<1>3. CASE Settle(w)
  <2>1. k.peer \in Peers /\ k.op \in Ops BY <1>0, <1>3, Zenon DEF Settle, At, PushSound
  <2>2. PICK st, e : FinishDelivery(k.peer, k.op, k.lease, st, e) BY <1>3, Zenon DEF Settle
  <2>3. delivery[k.peer][k.op].state # "acknowledged"
    BY <2>2, Zenon DEF FinishDelivery, HoldsLease
  <2>4. \A q \in Peers, o \in Ops :
           q # k.peer \/ o # k.op => delivery'[q][o] = delivery[q][o]
    BY <1>0, <2>1, <2>2, Zenon DEF FinishDelivery
  <2> QED BY <2>3, <2>4 DEF AcksKept
<1>4. CASE Release(w)
  <2>1. k.peer \in Peers /\ ReleaseLease(k.peer, k.lease)
    BY <1>0, <1>4, Zenon DEF Release, At, PushSound
  <2>2. \A o \in Ops : HoldsLease(k.peer, o, k.lease)
                          => delivery[k.peer][o].state # "acknowledged"
    BY Zenon DEF HoldsLease
  <2>3. \A q \in Peers, o \in Ops :
           q # k.peer \/ ~HoldsLease(k.peer, o, k.lease) => delivery'[q][o] = delivery[q][o]
    <3> HIDE DEF k
    <3> QED BY <1>0, <2>1, Zenon DEF ReleaseLease
  <2> QED BY <2>2, <2>3, Zenon DEF AcksKept
<1> QED BY <1>1, <1>2, <1>3, <1>4, Zenon DEF PushPhase, BeginCycle, Push, PushRequestLost,
           PushAnswerLost, SettleMismatch, storeVars

(* No step takes an acknowledgement back.                                  *)
LEMMA StepKeepsAcks ==
    ASSUME SyncInv, [Next]_vars
    PROVE  AcksKept
<1>0. TypeOK /\ delivery \in [Peers -> [Ops -> Delivery]]
  BY Zenon DEF SyncInv, TypeOK, StoreTypeOK
<1>1. CASE UNCHANGED delivery BY <1>1, Zenon DEF AcksKept
<1>2. ASSUME NEW w \in Workers, PullPhase(w) PROVE AcksKept
  <2> DEFINE k == worker[w]
  <2>1. ASSUME NEW o \in k.page, CommitPulled(w, o) PROVE AcksKept
    <3>1. o \in Ops BY Zenon DEF SyncInv, TypeOK, WorkerState
    <3> QED BY <1>0, <2>1, <3>1, QueueKeepsAcks, Zenon DEF CommitPulled, CommitFromPeer
  <2>2. ASSUME ~\E o \in k.page : CommitPulled(w, o) PROVE delivery' = delivery
    BY ONLY <1>2, <2>2, Zenon DEF PullPhase, ScanTargets, Pull, PullFails, CommitFails, Advance,
       RecordFailure, CursorMismatch, EndCycle, AdvancePullCursor, RecordPullFailure, storeVars
  <2> QED BY <1>1, <2>1, <2>2, Zenon
<1>3. ASSUME NEW o \in Ops, Author(o) PROVE AcksKept
  BY <1>0, <1>3, QueueKeepsAcks, Zenon DEF Author, CommitLocal
<1>4. ASSUME NEW p \in Peers, NEW o \in Ops, Import(o, p) PROVE AcksKept
  BY <1>0, <1>4, QueueKeepsAcks, Zenon DEF Import, CommitFromPeer
<1>5. ASSUME NEW p \in Peers, NEW o \in Ops, RetryTimeReached(p, o) PROVE AcksKept
  <2>1. \A q \in Peers, r \in Ops : q # p \/ r # o => delivery'[q][r] = delivery[q][r]
    BY <1>0, <1>5, Zenon DEF RetryTimeReached
  <2> QED BY <1>5, <2>1 DEF RetryTimeReached, AcksKept
<1>6. CASE Environment
  BY <1>0, <1>1, <1>3, <1>4, <1>5, <1>6, ConfigureKeepsAcks, Zenon
     DEF Environment, NewWorkspace, StoreWorkspace, ForeignSubmit, TimePasses,
         PullTimeReached, LeaseExpires, Crash, storeVars
<1> QED BY <1>1, <1>2, <1>6, PushKeepsAcks, Zenon DEF Next, vars

(* A worker whose lease ran out cannot undo what another acknowledged.     *)
THEOREM AcknowledgementsStay == Spec => AcknowledgementsAreFinal
<1>1. SyncInv /\ [Next]_vars => [AcksKept]_vars BY StepKeepsAcks, Zenon
<1>2. [AcksKept]_vars => [\A p \in Peers, o \in Ops :
          delivery[p][o].state = "acknowledged"
              => delivery'[p][o].state = "acknowledged"]_vars
  BY Zenon DEF AcksKept
<1> QED BY <1>1, <1>2, SyncInvariant, PTL DEF Spec, AcknowledgementsAreFinal


(* A cursor exists only for a configured space.                            *)
UnconfiguredAtZero ==
    \A p \in Peers, s \in Spaces : ~target[p][s].known => target[p][s].after = 0

(* No worker and no reconfiguration moves a pull cursor back.              *)
THEOREM CursorsNeverGoBack == Spec => CursorsOnlyAdvance
<1>1. Init => UnconfiguredAtZero BY DEF Init, StoreInit, NoTarget, UnconfiguredAtZero
<1>2. SyncInv /\ UnconfiguredAtZero /\ [Next]_vars => UnconfiguredAtZero'
  BY StepMovesCursors, Zenon DEF CursorsMove, UnconfiguredAtZero
<1>3. ASSUME SyncInv, UnconfiguredAtZero, [Next]_vars
      PROVE  [\A p \in Peers, s \in Spaces :
                 target'[p][s].after >= target[p][s].after]_vars
  <2>1. ASSUME NEW p \in Peers, NEW s \in Spaces
        PROVE  target'[p][s].after >= target[p][s].after
    <3>1. target[p][s] \in TargetRow BY <1>3 DEF SyncInv, TypeOK, StoreTypeOK
    <3>2. target[p][s].after \in Nat BY <3>1, Zenon DEF TargetRow
    <3> QED BY <1>3, <3>2, StepMovesCursors DEF CursorsMove, UnconfiguredAtZero
  <2> QED BY <2>1, Zenon
<1> QED BY <1>1, <1>2, <1>3, SyncInvariant, PTL DEF Spec, CursorsOnlyAdvance
===============================================================================
