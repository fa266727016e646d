--------------------------------- MODULE Sync ---------------------------------
(***************************************************************************)
(* Synchronization workers (fractonica-sync) of one client, its store, and *)
(* the nodes the client is a peer of.  A worker's cycle is a sequence of   *)
(* store transactions and network calls; between any two of them the       *)
(* application, another worker, a node or a crash may act.                 *)
(*                                                                         *)
(* A node is its operation log: what submit_operation admits and           *)
(* changes_after returns.  Whether its capabilities allow an operation is  *)
(* the constant Refused; module NodeLog models how they decide.            *)
(***************************************************************************)
EXTENDS ClientStore

CONSTANTS
    Workers,
    Nobody,         \* no peer or target is being served
    PageSize,       \* operations in a page of changes
    LocalOps,       \* operations this device authors
    ForeignOps,     \* operations that reach the nodes from other devices
    WorkspaceAnchors, \* <<genesis, initial grant>> of the spaces stored here
    PeerConfigs,    \* the peer rows the runtime writes
    Refused,        \* <<p, o>>: node p's capabilities deny operation o
    MaxChanges,     \* bound on changes of the peer configuration
    MaxCrashes      \* bound on process crashes

(* A due pull as due_sync_targets returned it.                             *)
Targets == [p : Peers, s : Spaces, after : Nat]

ASSUME SyncAssumption ==
    /\ Nobody \notin Peers \cup Targets \cup Ops
    /\ PageSize \in Nat \ {0}
    /\ LocalOps \subseteq Ops /\ ForeignOps \subseteq Ops
    /\ WorkspaceAnchors \subseteq Ops \X Ops
    /\ PeerConfigs \subseteq {row \in PeerRow : row.known}
    /\ Refused \subseteq Peers \X Ops
    /\ MaxChanges \in Nat /\ MaxCrashes \in Nat

VARIABLES
    remote,     \* remote[p][o]: local_sequence of o in node p's log, 0 if absent
    remoteLast, \* the highest local_sequence of node p
    worker,     \* the state of each worker's cycle
    budget      \* configuration changes and crashes so far

nodeVars == <<remote, remoteLast>>
vars == <<local, lastRow, heads, peer, target, delivery, expired,
          remote, remoteLast, worker, budget>>


Steps == {"idle", "peers", "push", "settle", "release",
          "targets", "commit", "failed"}
Answers == {"none", "ok", "network", "missing", "denied"}

WorkerState ==
    [pc : Steps, todo : SUBSET Peers, peer : Peers \cup {Nobody},
     lease : LeaseIds \cup {NoLease}, batch : SUBSET Ops,
     op : Ops \cup {Nobody}, answer : Answers,
     targets : SUBSET Targets, target : Targets \cup {Nobody},
     page : SUBSET Ops, next : Nat, more : BOOLEAN]

Idle == [pc |-> "idle", todo |-> {}, peer |-> Nobody, lease |-> NoLease,
         batch |-> {}, op |-> Nobody, answer |-> "none", targets |-> {},
         target |-> Nobody, page |-> {}, next |-> 0, more |-> FALSE]

Held(p) == {o \in Ops : remote[p][o] > 0}

(* The tables of the client and the nodes, and the workers, are typed.     *)
TypeOK ==
    /\ StoreTypeOK
    /\ remote \in [Peers -> [Ops -> Nat]]
    /\ remoteLast \in [Peers -> Nat]
    /\ worker \in [Workers -> WorkerState]
    /\ budget \in [changes : 0..MaxChanges, crashes : 0..MaxCrashes]

Init ==
    /\ StoreInit
    /\ remote = [p \in Peers |-> [o \in Ops |-> 0]]
    /\ remoteLast = [p \in Peers |-> 0]
    /\ worker = [w \in Workers |-> Idle]
    /\ budget = [changes |-> 0, crashes |-> 0]
-------------------------------------------------------------------------------
(* Node p's answer to POST /operations, as NodeHttpTransport::push reads   *)
(* it: a conflict on a genesis and a replay count as success; a missing    *)
(* reference (404, 409) and a denial (403, 409) are permanent failures.    *)
NodeAnswer(p, o) ==
    IF IsGenesis(o) \/ o \in Held(p) THEN "ok"
    ELSE IF ~(Refs(o) \subseteq Held(p)) THEN "missing"
    ELSE IF ~ValidTopology(o, Held(p), MaximalOf(Held(p))) \/ <<p, o>> \in Refused
    THEN "denied"
    ELSE "ok"

Admits(p, o) == ~IsGenesis(o) /\ o \notin Held(p) /\ NodeAnswer(p, o) = "ok"

NodeAppend(p, o) ==
    /\ remoteLast' = [remoteLast EXCEPT ![p] = @ + 1]
    /\ remote' = [remote EXCEPT ![p][o] = remoteLast[p] + 1]

NodeSubmit(p, o) == IF Admits(p, o) THEN NodeAppend(p, o) ELSE UNCHANGED nodeVars

(* load_changes: the first PageSize operations of s after a cursor.        *)
After(p, s, after) == {o \in Held(p) : SpaceOf[o] = s /\ remote[p][o] > after}

(* Mutant of IsPage: the page is not ordered by sequence.                  *)
IsPage_Unordered(P, p, s, after) ==
    /\ P \subseteq After(p, s, after)
    /\ P # After(p, s, after) => Cardinality(P) = PageSize
    /\ Cardinality(P) <= PageSize

IsPage(P, p, s, after) ==
    /\ P \subseteq After(p, s, after)
    /\ \A o \in P, q \in After(p, s, after) \ P : remote[p][o] < remote[p][q]
    /\ P # After(p, s, after) => Cardinality(P) = PageSize
    /\ Cardinality(P) <= PageSize

(* The earliest and the latest member of S by a sequence number.           *)
IsFirst(o, S, seq) == o \in S /\ \A q \in S : seq[o] <= seq[q]
IsLast(o, S, seq) == o \in S /\ \A q \in S : seq[q] <= seq[o]

-------------------------------------------------------------------------------
(* One cycle of worker w.                                                  *)

Become(w, state) == worker' = [worker EXCEPT ![w] = state]
At(w, step) == worker[w].pc = step

(* A store error aborts the cycle: every `?` in run_cycle.                 *)
Abort(w) == Become(w, Idle)

BeginCycle(w) ==
    /\ At(w, "idle")
    /\ Become(w, [Idle EXCEPT !.pc = "peers",
                              !.todo = {p \in Peers : peer[p].enabled}])
    /\ UNCHANGED <<storeVars, nodeVars, budget>>

(* DeliveryLeaseId::new is a random id: one that nothing refers to.        *)
FreshLease(l) ==
    /\ \A p \in Peers, o \in Ops : delivery[p][o].lease # l
    /\ \A w \in Workers : worker[w].lease # l

Lease(w, p) ==
    /\ At(w, "peers") /\ p \in worker[w].todo
    /\ \E l \in LeaseIds, B \in SUBSET Ops :
         /\ FreshLease(l)
         /\ LeaseDue(p, l, B)
         /\ Become(w, IF B = {}
                      THEN [worker[w] EXCEPT !.todo = @ \ {p}]
                      ELSE [worker[w] EXCEPT !.todo = @ \ {p}, !.pc = "push",
                                             !.peer = p, !.lease = l, !.batch = B])
    /\ UNCHANGED <<nodeVars, budget>>

(* The next delivery of the batch is sent, and its outcome remembered.     *)
Current(w, o) == At(w, "push") /\ IsFirst(o, worker[w].batch, local)

Answered(w, o, answer) ==
    Become(w, [worker[w] EXCEPT !.pc = "settle", !.op = o, !.answer = answer])

Push(w, o) ==
    /\ Current(w, o)
    /\ Answered(w, o, NodeAnswer(worker[w].peer, o))
    /\ NodeSubmit(worker[w].peer, o)
    /\ UNCHANGED <<storeVars, budget>>

(* The request is lost, or the node's answer to it is.                     *)
PushRequestLost(w, o) ==
    /\ Current(w, o)
    /\ Answered(w, o, "network")
    /\ UNCHANGED <<storeVars, nodeVars, budget>>

PushAnswerLost(w, o) ==
    /\ Current(w, o)
    /\ Answered(w, o, "network")
    /\ NodeSubmit(worker[w].peer, o)
    /\ UNCHANGED <<storeVars, budget>>

(* acknowledge, reject or retry the answered operation; a batch goes on    *)
(* only after a success.                                                   *)
NewState(answer) ==
    CASE answer = "ok" -> "acknowledged"
      [] answer \in {"missing", "denied"} -> "rejected"
      [] answer = "network" -> "pending"

AfterSettle(w) ==
    LET rest == worker[w].batch \ {worker[w].op}
    IN  IF worker[w].answer # "ok"
        THEN [worker[w] EXCEPT !.pc = "release", !.op = Nobody, !.answer = "none"]
        ELSE IF rest = {}
        THEN [Idle EXCEPT !.pc = "peers", !.todo = worker[w].todo]
        ELSE [worker[w] EXCEPT !.pc = "push", !.op = Nobody, !.answer = "none",
                               !.batch = rest]

Settle(w) ==
    /\ At(w, "settle")
    /\ FinishDelivery(worker[w].peer, worker[w].op, worker[w].lease,
                      NewState(worker[w].answer),
                      IF worker[w].answer = "ok" THEN "none" ELSE worker[w].answer)
    /\ Become(w, AfterSettle(w))
    /\ UNCHANGED <<nodeVars, budget>>

SettleMismatch(w) ==
    /\ At(w, "settle")
    /\ ~HoldsLease(worker[w].peer, worker[w].op, worker[w].lease)
    /\ Abort(w)
    /\ UNCHANGED <<storeVars, nodeVars, budget>>

Release(w) ==
    /\ At(w, "release")
    /\ ReleaseLease(worker[w].peer, worker[w].lease)
    /\ Become(w, [Idle EXCEPT !.pc = "peers", !.todo = worker[w].todo])
    /\ UNCHANGED <<nodeVars, budget>>

(* due_sync_targets, once every peer of the cycle has been pushed to.      *)
DueTargets ==
    {t \in [p : Peers, s : Spaces, after : {target[p][s].after : p \in Peers, s \in Spaces}] :
        /\ peer[t.p].enabled
        /\ target[t.p][t.s].known /\ target[t.p][t.s].due
        /\ target[t.p][t.s].after = t.after}

ScanTargets(w) ==
    /\ At(w, "peers") /\ worker[w].todo = {}
    /\ Become(w, [Idle EXCEPT !.pc = "targets", !.targets = DueTargets])
    /\ UNCHANGED <<storeVars, nodeVars, budget>>

Pull(w, t) ==
    /\ At(w, "targets") /\ t \in worker[w].targets
    /\ \E P \in SUBSET Ops, next \in {t.after} \cup {remote[t.p][o] : o \in Ops} :
         /\ IsPage(P, t.p, t.s, t.after)
         /\ IF P = {} THEN next = t.after
            ELSE \E o \in P : IsLast(o, P, remote[t.p]) /\ next = remote[t.p][o]
         /\ Become(w, [worker[w] EXCEPT
               !.pc = "commit", !.targets = @ \ {t}, !.target = t, !.page = P,
               !.next = next, !.more = (P # After(t.p, t.s, t.after))])
    /\ UNCHANGED <<storeVars, nodeVars, budget>>

PullFails(w, t) ==
    /\ At(w, "targets") /\ t \in worker[w].targets
    /\ Become(w, [worker[w] EXCEPT !.pc = "failed", !.targets = @ \ {t}, !.target = t])
    /\ UNCHANGED <<storeVars, nodeVars, budget>>

NextPulled(w, o) ==
    At(w, "commit") /\ IsFirst(o, worker[w].page, remote[worker[w].target.p])

CommitPulled(w, o) ==
    /\ NextPulled(w, o)
    /\ CommitFromPeer(o, worker[w].target.p)
    /\ Become(w, [worker[w] EXCEPT !.page = @ \ {o}])
    /\ UNCHANGED <<nodeVars, budget>>

CommitFails(w, o) ==
    /\ NextPulled(w, o)
    /\ ~(Committable(o) /\ peer[worker[w].target.p].known)
    /\ Abort(w)
    /\ UNCHANGED <<storeVars, nodeVars, budget>>

NextTarget(w) == [Idle EXCEPT !.pc = "targets", !.targets = worker[w].targets]

(* Mutant of Advance: the cursor does not wait for the page.               *)
Advance_Early(w) ==
    LET t == worker[w].target
    IN  /\ At(w, "commit")
        /\ AdvancePullCursor(t.p, t.s, t.after, worker[w].next, worker[w].more)
        /\ Become(w, NextTarget(w))
        /\ UNCHANGED <<nodeVars, budget>>

Advance(w) ==
    LET t == worker[w].target
    IN  /\ At(w, "commit") /\ worker[w].page = {}
        /\ AdvancePullCursor(t.p, t.s, t.after, worker[w].next, worker[w].more)
        /\ Become(w, NextTarget(w))
        /\ UNCHANGED <<nodeVars, budget>>

RecordFailure(w) ==
    LET t == worker[w].target
    IN  /\ At(w, "failed")
        /\ RecordPullFailure(t.p, t.s, t.after)
        /\ Become(w, NextTarget(w))
        /\ UNCHANGED <<nodeVars, budget>>

(* PullCursorMismatch from either.                                         *)
CursorMismatch(w) ==
    LET t == worker[w].target
    IN  /\ At(w, "failed") \/ (At(w, "commit") /\ worker[w].page = {})
        /\ ~CursorIs(t.p, t.s, t.after)
        /\ Abort(w)
        /\ UNCHANGED <<storeVars, nodeVars, budget>>

EndCycle(w) ==
    /\ At(w, "targets") /\ worker[w].targets = {}
    /\ Become(w, Idle)
    /\ UNCHANGED <<storeVars, nodeVars, budget>>

(* The process dies: the cycle is forgotten, the store is not.             *)
Crash ==
    /\ budget.crashes < MaxCrashes
    /\ budget' = [budget EXCEPT !.crashes = @ + 1]
    /\ worker' = [w \in Workers |-> Idle]
    /\ UNCHANGED <<storeVars, nodeVars>>

-------------------------------------------------------------------------------
(* The application, the other devices and time.                            *)

Author(o) ==
    /\ o \in LocalOps \ Stored
    /\ CommitLocal(o)
    /\ UNCHANGED <<nodeVars, worker, budget>>

NewWorkspace(a) ==
    /\ StoreWorkspace(a[1], a[2])
    /\ UNCHANGED <<nodeVars, worker, budget>>

(* configure_paired_peer imports the node's log before the peer is enabled. *)
Import(o, p) ==
    /\ o \in Held(p) \ Stored
    /\ CommitFromPeer(o, p)
    /\ UNCHANGED <<nodeVars, worker, budget>>

Configure(p) ==
    /\ \/ \E row \in PeerConfigs : UpsertPeer(p, row)
       \/ \E e \in BOOLEAN : e # peer[p].enabled /\ SetPeerEnabled(p, e)
       \/ \E s \in Spaces :
            \/ \E m \in {"supervisor_bearer", "paired"} : ConfigurePeerSpace(p, s, m)
            \/ RequeueUnacknowledged(p, s)
    /\ budget.changes < MaxChanges
    /\ budget' = [budget EXCEPT !.changes = @ + 1]
    /\ UNCHANGED <<nodeVars, worker>>

(* Another device's operation, or the node's own bootstrap, reaches p.     *)
ForeignSubmit(p, o) ==
    /\ o \in ForeignOps \ Held(p)
    /\ \/ Admits(p, o)
       \/ IsGenesis(o) /\ ValidTopology(o, Held(p), MaximalOf(Held(p)))
    /\ NodeAppend(p, o)
    /\ UNCHANGED <<storeVars, worker, budget>>

TimePasses ==
    /\ \/ \E p \in Peers, o \in Ops : RetryTimeReached(p, o)
       \/ \E p \in Peers, s \in Spaces : PullTimeReached(p, s)
       \/ \E l \in LeaseIds : LeaseExpires(l)
    /\ UNCHANGED <<nodeVars, worker, budget>>

PushPhase(w) ==
    \/ BeginCycle(w)
    \/ \E p \in Peers : Lease(w, p)
    \/ \E o \in worker[w].batch : Push(w, o) \/ PushRequestLost(w, o) \/ PushAnswerLost(w, o)
    \/ Settle(w) \/ SettleMismatch(w) \/ Release(w)

PullPhase(w) ==
    \/ ScanTargets(w)
    \/ \E t \in worker[w].targets : Pull(w, t) \/ PullFails(w, t)
    \/ \E o \in worker[w].page : CommitPulled(w, o) \/ CommitFails(w, o)
    \/ Advance(w) \/ RecordFailure(w) \/ CursorMismatch(w) \/ EndCycle(w)

Environment ==
    \/ \E o \in Ops : Author(o)
    \/ \E a \in WorkspaceAnchors : NewWorkspace(a)
    \/ \E p \in Peers : Configure(p) \/ \E o \in Ops : Import(o, p) \/ ForeignSubmit(p, o)
    \/ TimePasses \/ Crash

Next == Environment \/ \E w \in Workers : PushPhase(w) \/ PullPhase(w)

Spec == Init /\ [][Next]_vars

(***************************************************************************)
(* The worker loop runs as long as the process does, the network lets a    *)
(* request through again and again, and time passes.  Nothing is assumed   *)
(* of the application, the other devices or crashes.                       *)
(***************************************************************************)
Fairness ==
    /\ \A w \in Workers :
         /\ WF_vars(PushPhase(w) \/ PullPhase(w))
         /\ SF_vars(\E o \in worker[w].batch : Push(w, o))
         /\ SF_vars(\E t \in worker[w].targets : Pull(w, t))
    /\ \A p \in Peers, o \in Ops :
         WF_vars(RetryTimeReached(p, o) /\ UNCHANGED <<nodeVars, worker, budget>>)
    /\ \A p \in Peers, s \in Spaces :
         WF_vars(PullTimeReached(p, s) /\ UNCHANGED <<nodeVars, worker, budget>>)
    /\ \A l \in LeaseIds :
         WF_vars(LeaseExpires(l) /\ UNCHANGED <<nodeVars, worker, budget>>)

FairSpec == Spec /\ Fairness

-------------------------------------------------------------------------------
(* The client's log, and each node's, holds an operation only after what   *)
(* it refers to: commit_transaction and submit_operation refuse it before. *)
LogsAreCausal ==
    /\ \A o \in Stored : \A r \in Refs(o) : local[r] > 0 /\ local[r] < local[o]
    /\ \A p \in Peers : \A o \in Held(p) : \A r \in Refs(o) :
          remote[p][r] > 0 /\ remote[p][r] < remote[p][o]

(* insert_graph keeps client_entity_heads equal to the operations that no  *)
(* stored operation supersedes, whatever order they arrived in.            *)
HeadsAreMaximal == heads = MaximalOf(Stored)

(* A delivery marked acknowledged names an operation the node really has,  *)
(* by push, lost answers and retries or by pull; except a genesis, whose   *)
(* conflict answer run_cycle takes for success.                            *)
AcknowledgedIsHeld ==
    \A p \in Peers, o \in Ops :
        delivery[p][o].state = "acknowledged" /\ ~IsGenesis(o) => o \in Held(p)

(* A late failure never undoes an acknowledgement: a worker whose lease    *)
(* has passed to another cannot put an acknowledged delivery back.         *)
AcknowledgementsAreFinal ==
    [][\A p \in Peers, o \in Ops :
          delivery[p][o].state = "acknowledged"
              => delivery'[p][o].state = "acknowledged"]_vars

(* A pull cursor never goes back, though two workers advance it from pages *)
(* they fetched at different times and the space is configured again.      *)
CursorsOnlyAdvance ==
    [][\A p \in Peers, s \in Spaces : target'[p][s].after >= target[p][s].after]_vars

(* "A cursor advances only after every operation in its page has been      *)
(* verified and committed" (docs/client-core.md): nothing before a pull    *)
(* cursor is missing from the client's log.                                *)
CursorCoversLog ==
    \A p \in Peers, s \in Spaces : \A o \in Held(p) :
        SpaceOf[o] = s /\ remote[p][o] <= target[p][s].after => o \in Stored

Unsettled(p, o) == delivery[p][o].state \in {"pending", "leased"}

(* Work is never stranded: a queued or leased delivery to a peer that      *)
(* stays enabled is settled, though workers abort and crash holding it.    *)
OutboxDrains ==
    \A p \in Peers, o \in Ops :
        Unsettled(p, o) ~> (~Unsettled(p, o) \/ ~peer[p].enabled)

(* The client cannot take an operation of the node, because the entity has *)
(* as many heads as it may: the page that holds it is never committed.     *)
PullIsBlocked(p, s) ==
    \E o \in Held(p) \ Stored :
        SpaceOf[o] = s /\ Refs(o) \subseteq Stored /\ ~ValidTopology(o, Stored, heads)

(* What a configured node holds of a space reaches the client's log while  *)
(* the peer stays enabled and nothing it holds is refused here.            *)
PullsCatchUp ==
    \A p \in Peers, o \in Ops :
        (o \in Held(p) /\ target[p][SpaceOf[o]].known)
            ~> (o \in Stored \/ ~peer[p].enabled \/ PullIsBlocked(p, SpaceOf[o]))

(* "pushing later dependent operations in this cycle would turn a          *)
(* temporary gap into permanent missing-authorization rejections at the    *)
(* peer" (run_cycle): no operation is rejected for want of one that is     *)
(* still waiting in the same outbox.                                       *)
NoRejectionBehindAGap ==
    \A p \in Peers, o \in Ops :
        delivery[p][o].state = "rejected" /\ delivery[p][o].error = "missing"
            => \A r \in Refs(o) : ~Unsettled(p, r)

(* The client and its nodes as replicas of one causal log.                 *)
Client == Nobody
Replicas == Peers \cup {Client}
Logs == [r \in Replicas |-> IF r = Client THEN Stored ELSE Held(r)]
Origins == [r \in Replicas |->
              IF r = Client
              THEN LocalOps \cup UNION {{a[1], a[2]} : a \in WorkspaceAnchors}
              ELSE ForeignOps]

Replica == INSTANCE ReplicatedLog WITH
    Needs <- [o \in Ops |-> Refs(o)], Origin <- Origins, have <- Logs

(* No step of the protocol invents, loses or reorders an operation: every  *)
(* change of a log is an operation entering the system where it may, or a  *)
(* copy of one another replica holds, after everything it refers to.       *)
ImplementsReplicatedLog == Replica!Spec
===============================================================================
