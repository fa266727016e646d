------------------------------- MODULE Workspaces -------------------------------
(***************************************************************************)
(* The lifecycle of a client's workspaces (fractonica-client-runtime over  *)
(* fractonica-client-sqlite): the client starts, standalone (mobile) or    *)
(* beside its own node (desktop), creates, activates and deletes           *)
(* workspaces, joins the workspace of another node by pairing, with or     *)
(* without merging its records, writes records, and may crash between any  *)
(* two transactions.                                                       *)
(*                                                                         *)
(* Calls of the user interface run concurrently: one step of a call is one *)
(* store transaction, one use of the author lock or one HTTP exchange.     *)
(* Deliveries, cursors and leases are in ClientStore and Sync; here a      *)
(* record operation is what the merge and the authority checks tell apart: *)
(* its entity, its payload, its local_sequence, its parents, its grant.    *)
(***************************************************************************)
EXTENDS Naturals, FiniteSets, Sequences, Functions

CONSTANTS
    Kinds,          \* subset of BOOLEAN: may the client be supervised?
    Spaces,         \* spaces this installation may create
    Remote,         \* the space of the other node
    Entities,
    Sessions,       \* pairing invitations of the other node
    Callers,        \* calls that may be in flight at once
    None,
    MaxWrites,      \* bound on local_sequence
    BatchSize,      \* records read at once by the merge (100 in the code)
    MaxAttempts,    \* acceptance attempts (5 in the code)
    MaxPairings,    \* acceptances in flight at once
    MaxFaults       \* crashes, lost keys and resets

ASSUME WorkspaceAssumption ==
    /\ Remote \notin Spaces /\ None \notin Spaces \cup {Remote} \cup Sessions
    /\ Kinds \subseteq BOOLEAN /\ BatchSize \in Nat \ {0}

VARIABLES
    supervised,     \* is there an own node?
    hosted,         \* the spaces of the own node
    session,        \* the other node's invitations
    admitted,       \* the pairing grants the other node admitted, in order
    rows,           \* client_workspaces
    ops,            \* the control operations of client_operations
    recs,           \* the record operations of client_operations, per space
    sequence,       \* the last local_sequence
    active,         \* client_active_workspace
    served,         \* client_peer_spaces rows for the own node
    peer,           \* client_peers row of the other node
    link,           \* session of its client_peer_spaces row
    binding,        \* client_local_installation
    keys,           \* the protected identity
    author,         \* ClientRuntime.author
    pending,        \* ClientRuntime.pending_pairings
    boot,           \* bootstrap_standalone or bootstrap_supervised
    call,           \* the calls in flight
    page,           \* a pulled page the worker has not committed yet
    minted,         \* spaces and entities whose random identifiers were drawn
    dropped,        \* workspaces deleted with success
    faults

database == <<rows, ops, recs, sequence, active, served, peer, link, binding>>
memory == <<author, pending, boot, call, page>>
nodes == <<hosted, session, admitted>>
vars == <<supervised, nodes, database, keys, memory, minted, dropped, faults>>

Genesis(s) == [kind |-> "genesis", of |-> s]
Owner(s) == [kind |-> "owner", of |-> s]        \* the initial grant
Paired(k) == [kind |-> "paired", of |-> k]      \* the grant of a session
ControlOps == {Genesis(s) : s \in Spaces \cup {Remote}}
              \cup {Owner(s) : s \in Spaces \cup {Remote}}
              \cup {Paired(k) : k \in Sessions}

(* A dormant peer row has no credential.                                   *)
NoPeer == [known |-> FALSE, session |-> None]
Dormant == [known |-> TRUE, session |-> None]
Enabled(k) == [known |-> TRUE, session |-> k]

Idle == [at |-> "idle", kind |-> "none", space |-> None, grant |-> None,
         session |-> None, merge |-> FALSE, source |-> None, after |-> 0,
         batch |-> {}, wanted |-> {}, entity |-> None, parents |-> {},
         live |-> TRUE]
NoPage == [space |-> None, ops |-> <<>>]
Down == [at |-> "down", spaces |-> {}, space |-> None]

Up == boot.at = "up"
In(c, label) == Up /\ call[c].at = label

Init ==
    /\ supervised \in Kinds
    /\ hosted = {} /\ admitted = <<>>
    /\ session = [k \in Sessions |-> "offered"]
    /\ rows = {} /\ ops = {} /\ sequence = 0 /\ active = None
    /\ recs = [s \in Spaces \cup {Remote} |-> {}]
    /\ served = [s \in Spaces |-> "no"]
    /\ peer = NoPeer /\ link = None
    /\ binding = 0 /\ keys = [state |-> "missing", id |-> 0]
    /\ author = None /\ pending = {} /\ boot = Down
    /\ call = [c \in Callers |-> Idle] /\ page = NoPage
    /\ minted = {} /\ dropped = {} /\ faults = 0

-------------------------------------------------------------------------------
(* Store transactions.                                                     *)

RecordsOf(s, e) == {r \in recs[s] : r.entity = e}
HeadsOf(s, e) ==
    {r \in RecordsOf(s, e) : \A q \in recs[s] : r.seq \notin q.parents}
LiveHeads(s) == {r \in UNION {HeadsOf(s, e) : e \in Entities} : r.live}

(* Mutant of References: no reference is looked up.                        *)
References_Trusted(s, grant, parents) == TRUE

(* validate_references of a record operation.                              *)
References(s, grant, parents) ==
    /\ grant \in ops
    /\ parents \subseteq {r.seq : r \in recs[s]}

(* commit_local of a record operation: references, and one root only.      *)
CanCommit(s, e, grant, parents) ==
    /\ References(s, grant, parents)
    /\ parents = {} => RecordsOf(s, e) = {}

Commit(s, e, grant, parents, payload, live) ==
    /\ sequence' = sequence + 1
    /\ recs' = [recs EXCEPT ![s] = @ \cup
           {[entity |-> e, pay |-> payload, seq |-> sequence + 1,
             parents |-> parents, live |-> live, grant |-> grant]}]

(* store_workspace: both anchors and the row in one transaction.           *)
StoreWorkspace(s) ==
    /\ rows' = rows \cup {s}
    /\ ops' = ops \cup {Genesis(s), Owner(s)}

(* configure_peer_space for the own node; an existing cursor is kept.      *)
ServedBy(s) == [served EXCEPT ![s] = IF @ = "no" THEN "fresh" ELSE @]

(* ClientSqliteStore::delete_workspace, one transaction.                   *)
Drop(s) ==
    /\ active' = IF active # None /\ active.space = s THEN None ELSE active
    /\ served' = [served EXCEPT ![s] = "no"]
    /\ rows' = rows \ {s}
    /\ ops' = ops \ {Genesis(s), Owner(s)}
    /\ recs' = [recs EXCEPT ![s] = {}]

-------------------------------------------------------------------------------
(* Starting.                                                               *)

Booting(label) == boot.at = label
ToBoot(label) == boot' = [boot EXCEPT !.at = label]

(* prepare_standalone_blocking, with state() of the identity store.        *)
Prepare ==
    /\ Booting("down") /\ ~supervised
    /\ ToBoot(IF binding = 0
              THEN IF keys.state = "set" THEN "open" ELSE "create"
              ELSE IF keys.state = "set" THEN "open" ELSE "recovery")
    /\ UNCHANGED <<supervised, nodes, database, keys, author, pending, call,
                   page, minted, dropped, faults>>

(* create_or_resume of the identity store: half-written material is        *)
(* finished, a missing one is drawn.                                       *)
CreateKeys ==
    /\ Booting("create")
    /\ \/ /\ keys.state = "missing"
          /\ keys' = [state |-> "partial", id |-> keys.id + 1]
          /\ UNCHANGED boot
       \/ /\ keys.state = "partial"
          /\ keys' = [keys EXCEPT !.state = "set"]
          /\ ToBoot("open")
    /\ UNCHANGED <<supervised, nodes, database, author, pending, call, page,
                   minted, dropped, faults>>

(* bind_local_identity and validate_standalone_binding.                    *)
Bind ==
    /\ Booting("open")
    /\ \/ /\ binding = 0
          /\ binding' = keys.id
          /\ ToBoot("load")
       \/ /\ binding = keys.id
          /\ UNCHANGED binding
          /\ ToBoot("load")
       \/ /\ binding \notin {0, keys.id}
          /\ UNCHANGED binding
          /\ ToBoot("recovery")
    /\ UNCHANGED <<supervised, nodes, rows, ops, recs, sequence, active, served,
                   peer, link, keys, author, pending, call, page, minted,
                   dropped, faults>>

AuthorOf(a) == IF a = None THEN None ELSE [space |-> a.space, grant |-> a.grant]

(* Mutant of KeptStandalone: the row is taken as it is.                    *)
KeptStandalone_Unchecked == active

(* The active workspace a standalone client keeps at its start.            *)
KeptStandalone ==
    IF active # None /\ active.space \in rows /\ active.grant \in ops
    THEN active ELSE None

(* The end of bootstrap_standalone_blocking.                               *)
LoadStandalone ==
    /\ Booting("load")
    /\ active' = KeptStandalone
    /\ author' = AuthorOf(active')
    /\ ToBoot("up")
    /\ UNCHANGED <<supervised, nodes, rows, ops, recs, sequence, served, peer,
                   link, binding, keys, pending, call, page, minted, dropped,
                   faults>>

(* bootstrap_supervised learns the spaces of its node.                     *)
Contact ==
    /\ Booting("down") /\ supervised
    /\ boot' = [at |-> "spaces", spaces |-> hosted, space |-> None]
    /\ UNCHANGED <<supervised, nodes, database, keys, author, pending, call,
                   page, minted, dropped, faults>>

(* One space of the node: its anchors are fetched, checked and stored,     *)
(* then the space is configured for the node.                              *)
BootStore(s) ==
    /\ Booting("spaces") /\ s \in boot.spaces
    /\ StoreWorkspace(s)
    /\ boot' = [at |-> "serve", spaces |-> boot.spaces \ {s}, space |-> s]
    /\ UNCHANGED <<supervised, nodes, recs, sequence, active, served, peer, link,
                   binding, keys, author, pending, call, page, minted, dropped,
                   faults>>

BootServe ==
    /\ Booting("serve")
    /\ served' = ServedBy(boot.space)
    /\ ToBoot("spaces")
    /\ UNCHANGED <<supervised, nodes, rows, ops, recs, sequence, active, peer,
                   link, binding, keys, author, pending, call, page, minted,
                   dropped, faults>>

(* The active workspace a supervised client has after its start: the old   *)
(* one if its node hosts it, else the first space of the node.             *)
KeptSupervised(a) ==
    IF active # None /\ active.space \in hosted /\ active.grant \in ops
    THEN a = active
    ELSE \/ hosted = {} /\ a = None
         \/ \E s \in hosted : a = [space |-> s, grant |-> Owner(s), peer |-> "own"]

LoadSupervised ==
    /\ Booting("spaces") /\ boot.spaces = {}
    /\ \E a \in {active, None} \cup
             {[space |-> s, grant |-> Owner(s), peer |-> "own"] : s \in hosted} :
          /\ KeptSupervised(a)
          /\ active' = a
    /\ author' = AuthorOf(active')
    /\ ToBoot("up")
    /\ UNCHANGED <<supervised, nodes, rows, ops, recs, sequence, served, peer,
                   link, binding, keys, pending, call, page, minted, dropped,
                   faults>>

-------------------------------------------------------------------------------
(* Calls of the user interface.  An error ends the call and changes        *)
(* nothing else.                                                           *)

Become(c, w) == call' = [call EXCEPT ![c] = w]
ToCall(c, label) == Become(c, [call[c] EXCEPT !.at = label])
End(c) == Become(c, Idle)

Begin(c, fields) ==
    /\ Up /\ call[c] = Idle
    /\ Become(c, fields)

frame == <<supervised, keys, binding, boot, faults>>

(* create_workspace with a fresh random identifier; a supervised client    *)
(* asks its node first.                                                    *)
CreateWorkspace(c, s) ==
    /\ s \notin minted
    /\ Begin(c, [Idle EXCEPT !.at = IF supervised THEN "post" ELSE "store",
                             !.kind = "create", !.space = s, !.grant = Owner(s)])
    /\ minted' = minted \cup {s}
    /\ UNCHANGED <<frame, nodes, rows, ops, recs, sequence, active, served, peer,
                   link, author, pending, page, dropped>>

(* The own node bootstraps a space of its own, or forgets one it hosts.    *)
Host(s) == hosted' = hosted \cup {s}
Unhost(s) == s \in hosted /\ hosted' = hosted \ {s}

(* POST /api/workspaces: refused or lost, done, or done and the answer lost. *)
Post(c) ==
    /\ In(c, "post")
    /\ \/ End(c) /\ UNCHANGED hosted
       \/ /\ Host(call[c].space)
          /\ \/ ToCall(c, "store")
             \/ End(c)
    /\ UNCHANGED <<frame, session, admitted, rows, ops, recs, sequence, active,
                   served, peer, link, author, pending, page, minted, dropped>>

StoreCreated(c) ==
    /\ In(c, "store")
    /\ StoreWorkspace(call[c].space)
    /\ ToCall(c, IF supervised THEN "serve" ELSE "select")
    /\ UNCHANGED <<frame, nodes, recs, sequence, active, served, peer, link,
                   author, pending, page, minted, dropped>>

ServeCreated(c) ==
    /\ In(c, "serve")
    /\ served' = ServedBy(call[c].space)
    /\ ToCall(c, "select")
    /\ UNCHANGED <<frame, nodes, rows, ops, recs, sequence, active, peer, link,
                   author, pending, page, minted, dropped>>

(* set_active_workspace, at the end of creation, activation and pairing.   *)
Select(c) ==
    /\ In(c, "select")
    /\ active' = [space |-> call[c].space, grant |-> call[c].grant,
                  peer |-> IF call[c].kind = "pair" THEN "other"
                           ELSE IF supervised THEN "own" ELSE "nobody"]
    /\ ToCall(c, "adopt")
    /\ UNCHANGED <<frame, nodes, rows, ops, recs, sequence, served, peer, link,
                   author, pending, page, minted, dropped>>

(* The author is replaced, then the call returns; an accepted invitation   *)
(* is no longer pending.                                                   *)
Adopt(c) ==
    /\ In(c, "adopt")
    /\ author' = [space |-> call[c].space, grant |-> call[c].grant]
    /\ pending' = pending \ {call[c].session}
    /\ End(c)
    /\ UNCHANGED <<frame, nodes, rows, ops, recs, sequence, active, served, peer,
                   link, page, minted, dropped>>

(* activate_workspace of a listed workspace: a supervised client looks it  *)
(* up on its node, then the initial grant must be stored.                  *)
ActivateWorkspace(c, s) ==
    /\ s \in rows
    /\ Begin(c, [Idle EXCEPT !.at = "find", !.kind = "activate", !.space = s,
                             !.grant = Owner(s)])
    /\ UNCHANGED <<frame, nodes, rows, ops, recs, sequence, active, served, peer,
                   link, author, pending, page, minted, dropped>>

Find(c) ==
    /\ In(c, "find")
    /\ \/ /\ call[c].space \in (IF supervised THEN hosted ELSE rows)
          /\ ToCall(c, "check")
       \/ End(c)
    /\ UNCHANGED <<frame, nodes, rows, ops, recs, sequence, active, served, peer,
                   link, author, pending, page, minted, dropped>>

Check(c) ==
    /\ In(c, "check")
    /\ IF call[c].grant \in ops THEN ToCall(c, "select") ELSE End(c)
    /\ UNCHANGED <<frame, nodes, rows, ops, recs, sequence, active, served, peer,
                   link, author, pending, page, minted, dropped>>

(* delete_workspace of a listed workspace.                                 *)
DeleteWorkspace(c, s) ==
    /\ s \in rows
    /\ Begin(c, [Idle EXCEPT !.at = IF supervised THEN "remove" ELSE "drop",
                             !.kind = "delete", !.space = s])
    /\ UNCHANGED <<frame, nodes, rows, ops, recs, sequence, active, served, peer,
                   link, author, pending, page, minted, dropped>>

(* Mutant of RemoveHosted: the local copy is dropped whatever the node answers.  *)
RemoveHosted_Unconfirmed(c) ==
    /\ In(c, "remove")
    /\ \/ UNCHANGED hosted
       \/ hosted' = hosted \ {call[c].space}
    /\ ToCall(c, "drop")
    /\ UNCHANGED <<frame, session, admitted, rows, ops, recs, sequence, active,
                   served, peer, link, author, pending, page, minted, dropped>>

(* DELETE /api/workspaces/{space}: not found, lost, done, or the answer    *)
(* lost.                                                                   *)
RemoveHosted(c) ==
    /\ In(c, "remove")
    /\ \/ End(c) /\ UNCHANGED hosted
       \/ /\ Unhost(call[c].space)
          /\ \/ ToCall(c, "drop")
             \/ End(c)
    /\ UNCHANGED <<frame, session, admitted, rows, ops, recs, sequence, active,
                   served, peer, link, author, pending, page, minted, dropped>>

DropDeleted(c) ==
    /\ In(c, "drop")
    /\ Drop(call[c].space)
    /\ dropped' = dropped \cup {call[c].space}
    /\ ToCall(c, "forget")
    /\ UNCHANGED <<frame, nodes, sequence, peer, link, author, pending, page,
                   minted>>

Forget(c) ==
    /\ In(c, "forget")
    /\ author' = IF author # None /\ author.space = call[c].space THEN None
                 ELSE author
    /\ End(c)
    /\ UNCHANGED <<frame, nodes, rows, ops, recs, sequence, active, served, peer,
                   link, pending, page, minted, dropped>>

-------------------------------------------------------------------------------
(* Pairing with the other node.                                            *)

(* claim_pairing_invitation: older pending ceremonies are abandoned, and a *)
(* claim that is pending already is returned.                              *)
ClaimInvitation(c, k) ==
    /\ Begin(c, [Idle EXCEPT !.at = IF k \in pending THEN "idle" ELSE "handshake",
                             !.kind = IF k \in pending THEN "none" ELSE "claim",
                             !.session = IF k \in pending THEN None ELSE k])
    /\ pending' = pending \cap {k}
    /\ UNCHANGED <<frame, nodes, rows, ops, recs, sequence, active, served, peer,
                   link, author, page, minted, dropped>>

(* claim_pairing: the first frame claims an offered invitation; another    *)
(* first frame is refused.                                                 *)
Handshake(c) ==
    /\ In(c, "handshake")
    /\ \/ End(c) /\ UNCHANGED session
       \/ /\ session[call[c].session] = "offered"
          /\ session' = [session EXCEPT ![call[c].session] = "claimed"]
          /\ \/ ToCall(c, "count")
             \/ End(c)
    /\ UNCHANGED <<frame, hosted, admitted, rows, ops, recs, sequence, active,
                   served, peer, link, author, pending, page, minted, dropped>>

(* The record count asks for an active author.                             *)
Count(c) ==
    /\ In(c, "count")
    /\ pending' = IF author = None THEN pending ELSE pending \cup {call[c].session}
    /\ End(c)
    /\ UNCHANGED <<frame, nodes, rows, ops, recs, sequence, active, served, peer,
                   link, author, page, minted, dropped>>

(* accept_pairing_invitation of a pending claim.                           *)
AcceptInvitation(c, k, merge) ==
    /\ k \in pending /\ Cardinality({d \in Callers : call[d].kind = "pair"}) < MaxPairings
    /\ Begin(c, [Idle EXCEPT !.at = "offer", !.kind = "pair", !.space = Remote,
                             !.grant = Paired(k), !.session = k, !.merge = merge])
    /\ UNCHANGED <<frame, nodes, rows, ops, recs, sequence, active, served, peer,
                   link, author, pending, page, minted, dropped>>

(* One acceptance attempt of accept_pairing.  The other node completes a   *)
(* claimed session, or replays its answer; every answer may be lost.       *)
Offer(c) ==
    LET k == call[c].session IN
    /\ In(c, "offer")
    /\ \/ UNCHANGED <<session, admitted>>
       \/ /\ session[k] = "claimed"
          /\ session' = [session EXCEPT ![k] = "completed"]
          /\ admitted' = Append(admitted, Paired(k))
    /\ \/ /\ session'[k] = "completed"
          /\ Become(c, [call[c] EXCEPT !.at = "register", !.after = 0])
       \/ IF call[c].after + 1 < MaxAttempts
          THEN Become(c, [call[c] EXCEPT !.after = @ + 1])
          ELSE End(c)
    /\ UNCHANGED <<frame, hosted, rows, ops, recs, sequence, active, served, peer,
                   link, author, pending, page, minted, dropped>>

(* configure_paired_peer first leaves a dormant source row.                *)
Register(c) ==
    /\ In(c, "register")
    /\ peer' = IF peer.known THEN peer ELSE Dormant
    /\ ToCall(c, "pull")
    /\ UNCHANGED <<frame, nodes, rows, ops, recs, sequence, active, served, link,
                   author, pending, page, minted, dropped>>

RemoteLog == <<Genesis(Remote), Owner(Remote)>> \o admitted

(* One page (here: one operation) of the bootstrap pull, committed, and    *)
(* the look for the grant.                                                 *)
Pull(c) ==
    LET next == call[c].after + 1 IN
    /\ In(c, "pull")
    /\ \/ End(c) /\ UNCHANGED ops
       \/ /\ ops' = ops \cup {RemoteLog[next]}
          /\ IF call[c].grant \in ops' THEN ToCall(c, "source")
             ELSE IF next < Len(RemoteLog)
             THEN Become(c, [call[c] EXCEPT !.after = next])
             ELSE End(c)
    /\ UNCHANGED <<frame, nodes, rows, recs, sequence, active, served, peer, link,
                   author, pending, page, minted, dropped>>

(* The workspace shown now is the source of a merge.                       *)
Source(c) ==
    /\ In(c, "source")
    /\ IF author = None THEN End(c)
       ELSE IF call[c].merge /\ author.space # Remote
       THEN Become(c, [call[c] EXCEPT !.at = "batch", !.after = 0,
                                      !.source = author.space,
                                      !.wanted = LiveHeads(author.space)])
       ELSE Become(c, [call[c] EXCEPT !.at = "publish", !.after = 0,
                                      !.merge = FALSE])
    /\ UNCHANGED <<frame, nodes, rows, ops, recs, sequence, active, served, peer,
                   link, author, pending, page, minted, dropped>>

(* The first records by local_sequence, as many as are read at once.       *)
FirstOf(due) ==
    {r \in due : Cardinality({q \in due : q.seq < r.seq}) < BatchSize}

(* Mutant of ImportBatch: the batch after the last short one is skipped.   *)
ImportBatch_SkipsOne(s, after) == FirstOf({r \in LiveHeads(s) : r.seq > after + 1})

(* record_import_batch: live heads by local_sequence.                      *)
ImportBatch(s, after) == FirstOf({r \in LiveHeads(s) : r.seq > after})

(* The last local_sequence of a batch.                                     *)
LastSeq(batch) ==
    CHOOSE n \in {r.seq : r \in batch} : \A r \in batch : r.seq <= n

ReadBatch(c) ==
    LET batch == ImportBatch(call[c].source, call[c].after) IN
    /\ In(c, "batch")
    /\ Become(c, IF batch = {} THEN [call[c] EXCEPT !.at = "publish"]
                 ELSE [call[c] EXCEPT !.at = "import", !.batch = batch,
                                      !.after = LastSeq(batch)])
    /\ UNCHANGED <<frame, nodes, rows, ops, recs, sequence, active, served, peer,
                   link, author, pending, page, minted, dropped>>

(* The next record of a batch, in the order of local_sequence.             *)
NextIn(batch) == CHOOSE r \in batch : \A q \in batch : r.seq <= q.seq

(* One record of the batch: imported before, in conflict with what the     *)
(* joined workspace has, or committed there as a root.                     *)
Import(c) ==
    LET r    == NextIn(call[c].batch)
        rest == call[c].batch \ {r}
        have == HeadsOf(Remote, r.entity)
        on   == Become(c, [call[c] EXCEPT !.batch = rest,
                                !.at = IF rest = {} THEN "batch" ELSE "import"])
    IN
    /\ In(c, "import")
    /\ \/ /\ \E h \in have : have = {h} /\ h.live /\ h.pay = r.pay
          /\ on /\ UNCHANGED <<recs, sequence>>
       \/ /\ have # {} /\ ~(\E h \in have : have = {h} /\ h.live /\ h.pay = r.pay)
          /\ End(c) /\ UNCHANGED <<recs, sequence>>
       \/ /\ have = {} /\ CanCommit(Remote, r.entity, call[c].grant, {})
          /\ Commit(Remote, r.entity, call[c].grant, {}, r.pay, TRUE)
          /\ on
    /\ UNCHANGED <<frame, nodes, rows, ops, active, served, peer, link, author,
                   pending, page, minted, dropped>>

(* The session is published: upsert_peer, then configure_peer_space.       *)
Publish(c) ==
    /\ In(c, "publish")
    /\ peer' = Enabled(call[c].session)
    /\ ToCall(c, "configure")
    /\ UNCHANGED <<frame, nodes, rows, ops, recs, sequence, active, served, link,
                   author, pending, page, minted, dropped>>

Configure(c) ==
    /\ In(c, "configure")
    /\ link' = call[c].session
    /\ Become(c, [Idle EXCEPT !.at = "select", !.kind = "pair", !.space = Remote,
                              !.grant = call[c].grant, !.session = call[c].session])
    /\ UNCHANGED <<frame, nodes, rows, ops, recs, sequence, active, served, peer,
                   author, pending, page, minted, dropped>>

-------------------------------------------------------------------------------
(* Writing records, and the worker that pulls from the own node.           *)

(* create_record: the author is taken now, the entity is new.              *)
CreateRecord(c, e) ==
    /\ author # None /\ e \notin minted /\ sequence < MaxWrites
    /\ Begin(c, [Idle EXCEPT !.at = "commit", !.kind = "write", !.entity = e,
                             !.space = author.space, !.grant = author.grant])
    /\ minted' = minted \cup {e}
    /\ UNCHANGED <<frame, nodes, rows, ops, recs, sequence, active, served, peer,
                   link, author, pending, page, dropped>>

(* update_record and delete: the author is taken now, the heads are read   *)
(* in one transaction and superseded in a later one.                       *)
UpdateRecord(c, e, live) ==
    /\ author # None /\ RecordsOf(author.space, e) # {} /\ sequence < MaxWrites
    /\ Begin(c, [Idle EXCEPT !.at = "observe", !.kind = "write", !.entity = e,
                             !.space = author.space, !.grant = author.grant,
                             !.live = live])
    /\ UNCHANGED <<frame, nodes, rows, ops, recs, sequence, active, served, peer,
                   link, author, pending, page, minted, dropped>>

Observe(c) ==
    LET heads == HeadsOf(call[c].space, call[c].entity) IN
    /\ In(c, "observe")
    /\ IF heads = {} THEN End(c)
       ELSE Become(c, [call[c] EXCEPT !.at = "commit",
                                      !.parents = {h.seq : h \in heads}])
    /\ UNCHANGED <<frame, nodes, rows, ops, recs, sequence, active, served, peer,
                   link, author, pending, page, minted, dropped>>

CommitRecord(c) ==
    LET w == call[c] IN
    /\ In(c, "commit")
    /\ IF CanCommit(w.space, w.entity, w.grant, w.parents)
       THEN Commit(w.space, w.entity, w.grant, w.parents, sequence + 1, w.live)
       ELSE UNCHANGED <<recs, sequence>>
    /\ End(c)
    /\ UNCHANGED <<frame, nodes, rows, ops, active, served, peer, link, author,
                   pending, page, minted, dropped>>

(* The worker pulls a space of the own node from the start.                *)
FetchPage(s) ==
    /\ Up /\ page = NoPage /\ served[s] = "fresh" /\ s \in hosted
    /\ page' = [space |-> s, ops |-> <<Genesis(s), Owner(s)>>]
    /\ UNCHANGED <<frame, nodes, rows, ops, recs, sequence, active, served, peer,
                   link, author, pending, call, minted, dropped>>

(* commit_from_peer, one operation at a time; a missing reference ends it. *)
CommitPage ==
    /\ Up /\ page # NoPage /\ page.ops # <<>>
    /\ LET o == Head(page.ops) IN
       IF o.kind = "genesis" \/ Genesis(page.space) \in ops
       THEN /\ ops' = ops \cup {o}
            /\ page' = [page EXCEPT !.ops = Tail(@)]
       ELSE /\ page' = NoPage
            /\ UNCHANGED ops
    /\ UNCHANGED <<frame, nodes, rows, recs, sequence, active, served, peer, link,
                   author, pending, call, minted, dropped>>

(* advance_pull_cursor finds the cursor it started from, or nothing.       *)
AdvanceCursor ==
    /\ Up /\ page # NoPage /\ page.ops = <<>>
    /\ served' = [served EXCEPT ![page.space] = IF @ = "fresh" THEN "pulled" ELSE @]
    /\ page' = NoPage
    /\ UNCHANGED <<frame, nodes, rows, ops, recs, sequence, active, peer, link,
                   author, pending, call, minted, dropped>>
-------------------------------------------------------------------------------
(* Stops and faults.                                                       *)

(* The process ends, in order or not: only the database and the keys stay. *)
Stop ==
    /\ boot # Down
    /\ author' = None /\ pending' = {} /\ page' = NoPage /\ boot' = Down
    /\ call' = [c \in Callers |-> Idle]
    /\ UNCHANGED <<supervised, nodes, database, keys, minted, dropped, faults>>

(* The platform loses the protected identity of a standalone client, or    *)
(* restores that of another installation.                                  *)
LoseKeys ==
    /\ boot = Down /\ keys.state # "missing" /\ faults < MaxFaults
    /\ keys' \in {[keys EXCEPT !.state = "missing"], [state |-> "set", id |-> keys.id + 1]}
    /\ faults' = faults + 1
    /\ UNCHANGED <<supervised, nodes, database, memory, minted, dropped>>

(* reset_local_installation, while no client is open.                      *)
Reset ==
    /\ boot.at \in {"down", "recovery"} /\ ~supervised /\ faults < MaxFaults
    /\ rows' = {} /\ ops' = {} /\ sequence' = 0 /\ active' = None
    /\ recs' = [s \in Spaces \cup {Remote} |-> {}]
    /\ served' = [s \in Spaces |-> "no"]
    /\ peer' = NoPeer /\ link' = None /\ binding' = 0
    /\ boot' = Down
    /\ faults' = faults + 1
    /\ UNCHANGED <<supervised, nodes, keys, author, pending, call, page, minted,
                   dropped>>

CallStep(c) ==
    \/ Post(c) \/ StoreCreated(c) \/ ServeCreated(c) \/ Select(c) \/ Adopt(c)
    \/ Find(c) \/ Check(c) \/ RemoveHosted(c) \/ DropDeleted(c) \/ Forget(c)
    \/ Handshake(c) \/ Count(c) \/ Offer(c) \/ Register(c) \/ Pull(c)
    \/ Source(c) \/ ReadBatch(c) \/ Import(c) \/ Publish(c) \/ Configure(c)
    \/ Observe(c) \/ CommitRecord(c)

NewCall(c) ==
    \/ \E s \in Spaces : \/ CreateWorkspace(c, s)
                         \/ ActivateWorkspace(c, s)
                         \/ DeleteWorkspace(c, s)
    \/ \E k \in Sessions : \/ ClaimInvitation(c, k)
                           \/ \E merge \in BOOLEAN : AcceptInvitation(c, k, merge)
    \/ \E e \in Entities : \/ CreateRecord(c, e)
                           \/ \E live \in BOOLEAN : UpdateRecord(c, e, live)

BootStep ==
    \/ Prepare \/ CreateKeys \/ Bind \/ LoadStandalone
    \/ Contact \/ (\E s \in Spaces : BootStore(s)) \/ BootServe \/ LoadSupervised

Worker == (\E s \in Spaces : FetchPage(s)) \/ CommitPage \/ AdvanceCursor

Next ==
    \/ \E c \in Callers : CallStep(c) \/ NewCall(c)
    \/ BootStep \/ Worker \/ Stop \/ LoseKeys \/ Reset

Spec == Init /\ [][Next]_vars

-------------------------------------------------------------------------------
Labels == {"idle", "post", "store", "serve", "select", "adopt", "find", "check",
           "remove", "drop", "forget", "handshake", "count", "offer", "register",
           "pull", "source", "batch", "import", "publish", "configure",
           "observe", "commit"}

(* Every component of the state has its type.                              *)
TypeOK ==
    /\ hosted \subseteq Spaces /\ rows \subseteq Spaces
    /\ ops \subseteq ControlOps /\ Range(admitted) \subseteq ControlOps
    /\ \A s \in Spaces : served[s] \in {"no", "fresh", "pulled"}
    /\ pending \subseteq Sessions
    /\ link \in Sessions \cup {None} /\ peer.session \in Sessions \cup {None}
    /\ author # None => author.grant \in ControlOps
    /\ \A c \in Callers : call[c].at \in Labels
    /\ (supervised => keys.state = "missing" /\ binding = 0)

(* A record is in the store only together with the grant it was written    *)
(* under, whatever was deleted, pulled again or re-paired in between: "a   *)
(* paired device never authors against an unseen authority chain".         *)
RecordsAreAuthorized ==
    \A s \in Spaces \cup {Remote} : \A r \in recs[s] : r.grant \in ops

(* A pairing that merges is published only when every record that was live *)
(* in the source when the merge began, and still is unchanged, is in the   *)
(* joined workspace with its payload.                                      *)
MergeIsWhole ==
    \A c \in Callers :
        call[c].at \in {"publish", "configure"} /\ call[c].merge
        => \A r \in call[c].wanted \cap LiveHeads(call[c].source) :
               \E q \in RecordsOf(Remote, r.entity) : q.pay = r.pay

(* A start that succeeds leaves a usable active workspace, or none: its    *)
(* grant is stored, it is listed, and the author writes to it, whatever    *)
(* calls were cut short before.                                            *)
StartHeals ==
    [][~Up /\ Up' =>
          /\ author' = AuthorOf(active')
          /\ active' # None => active'.space \in rows' /\ active'.grant \in ops'
          /\ supervised => \A s \in hosted : s \in rows' /\ served'[s] # "no"]_vars

(* A workspace that was deleted with success is never listed again.        *)
DeletedStaysDeleted == dropped \cap rows = {}
===============================================================================
