-------------------------------- MODULE Pairing --------------------------------
(***************************************************************************)
(* Pairing as the responder node runs it: the durable session rows, the    *)
(* secret vault beside them, the request handlers that move a session      *)
(* from an invitation to an admitted capability grant, and a joiner that   *)
(* repeats its requests when an answer is lost.                            *)
(*                                                                         *)
(* Every row change is one SQLite statement or transaction; a handler is a *)
(* sequence of them, so handlers interleave between their steps and a      *)
(* crash falls between any two.  A handler reads the clock once, when the  *)
(* request arrives, and uses that reading to its end.                      *)
(*                                                                         *)
(* A claim stands for one first Noise frame: it names a joiner and an      *)
(* invitation, and two frames never agree.  The frames, receipts and       *)
(* signatures themselves are abstracted to "this answer is for this        *)
(* claim".                                                                 *)
(***************************************************************************)
EXTENDS Naturals, FiniteSets

CONSTANTS
    Invitations,
    Claims,         \* first frames: one joiner's attempt to use an invitation
    Handlers,       \* requests the node serves at once
    InvitationOf,   \* the invitation a claim names
    Versions,       \* tells apart grants signed for the same claim
    NoClaim,
    NoGrant,
    MaxCrashes,     \* bounds of the model: node crashes,
    MaxErrors       \* and storage errors a handler meets

ASSUME PairingAssumption ==
    /\ InvitationOf \in [Claims -> Invitations]
    /\ NoClaim \notin Claims /\ NoGrant \notin Claims \X Versions
    /\ MaxCrashes \in Nat /\ MaxErrors \in Nat

VARIABLES
    space,          \* the workspace exists on the node
    session,        \* pairing_sessions
    secrets,        \* invitations with a file in the secret vault
    admitted,       \* capability_grants: grants in the operation log
    expired,        \* invitations past expires_at_unix_ms
    lapsed,         \* invitations past claimed_expires_at_unix_ms
    mode,           \* the node: serving, down, or removing orphan secrets
    handler,        \* the requests in progress
    joiner,         \* what each joining client knows
    refused,        \* claims whose last acceptance was turned down
    faults

vars == <<space, session, secrets, admitted, expired, lapsed, mode, handler,
          joiner, refused, faults>>

Grants == Claims \X Versions
Subject(g) == g[1]

States == {"absent", "created", "claimed", "confirmed", "completed",
           "cancelled", "expired"}

Session == [state : States, claim : Claims \cup {NoClaim},
            plan : Grants \cup {NoGrant}]

Active(s) == s.state \in {"created", "claimed", "confirmed"}

NoSession == [state |-> "absent", claim |-> NoClaim, plan |-> NoGrant]

HandlerSteps == {"idle", "insert", "unstore", "claim", "replay", "plan",
                 "answer", "resume", "confirm", "sign", "submit", "complete",
                 "purge"}

(* by: who waits for the answer; late: the clock the handler read was past *)
(* the invitation's expiry.                                                *)
Handler == [at : HandlerSteps, by : {"joiner", "operator"},
            invitation : Invitations \cup {NoClaim},
            claim : Claims \cup {NoClaim},
            grant : Grants \cup {NoGrant}, late : BOOLEAN]

Idle == [at |-> "idle", by |-> "operator", invitation |-> NoClaim,
         claim |-> NoClaim, grant |-> NoGrant, late |-> FALSE]

(* The rows, files and handlers have the shape of their tables and steps.  *)
TypeOK ==
    /\ space \in BOOLEAN
    /\ session \in [Invitations -> Session]
    /\ secrets \subseteq Invitations /\ admitted \subseteq Grants
    /\ expired \subseteq Invitations /\ lapsed \subseteq Invitations
    /\ mode \in {"up", "down", "sweep"}
    /\ handler \in [Handlers -> Handler]
    /\ joiner \in [Claims -> [at : {"claiming", "pending", "paired", "failed"},
                              grant : Grants \cup {NoGrant}]]
    /\ refused \subseteq Claims
    /\ faults \in [crashes : 0..MaxCrashes, errors : 0..MaxErrors]

Init ==
    /\ space = TRUE
    /\ session = [i \in Invitations |-> NoSession]
    /\ secrets = {} /\ admitted = {} /\ expired = {} /\ lapsed = {}
    /\ mode = "up"
    /\ handler = [h \in Handlers |-> Idle]
    /\ joiner = [c \in Claims |-> [at |-> "claiming", grant |-> NoGrant]]
    /\ refused = {}
    /\ faults = [crashes |-> 0, errors |-> 0]

-------------------------------------------------------------------------------
(* Handlers.                                                               *)

Free(h) == mode = "up" /\ handler[h] = Idle
At(h, step) == mode = "up" /\ handler[h].at = step

(* The handler's session row.                                              *)
Row(h) == session[handler[h].invitation]

Become(h, r) == handler' = [handler EXCEPT ![h] = r]
Step(h, step) == handler' = [handler EXCEPT ![h].at = step]
Finish(h) == handler' = [handler EXCEPT ![h] = Idle]

SetRow(i, r) == session' = [session EXCEPT ![i] = r]

(* The joiner, if one waits, hears that its acceptance is turned down:     *)
(* unavailable, or not found.                                              *)
Refuse(h, c, by) ==
    /\ Finish(h)
    /\ refused' = IF by = "joiner" THEN refused \cup {c} ELSE refused

-------------------------------------------------------------------------------
(* Creating an invitation: the secret first, then the row.                 *)

StoreSecret(h, i) ==
    /\ Free(h) /\ space
    /\ session[i].state = "absent" /\ i \notin secrets
    /\ \A k \in Handlers : handler[k].invitation # i
    /\ secrets' = secrets \cup {i}
    /\ expired' = expired \ {i} /\ lapsed' = lapsed \ {i}
    /\ Become(h, [Idle EXCEPT !.at = "insert", !.invitation = i])
    /\ UNCHANGED <<space, session, admitted, mode, joiner, refused, faults>>

(* The row names its space, which must still be there.                     *)
InsertRow(h) ==
    /\ At(h, "insert")
    /\ IF space
          THEN /\ SetRow(handler[h].invitation, [NoSession EXCEPT !.state = "created"])
               /\ Finish(h)
          ELSE Step(h, "unstore") /\ UNCHANGED session
    /\ UNCHANGED <<space, secrets, admitted, expired, lapsed, mode, joiner,
                   refused, faults>>

Unstore(h) ==
    /\ At(h, "unstore")
    /\ secrets' = secrets \ {handler[h].invitation}
    /\ Finish(h)
    /\ UNCHANGED <<space, session, admitted, expired, lapsed, mode, joiner,
                   refused, faults>>

-------------------------------------------------------------------------------
(* The handshake.                                                          *)

(* A first frame already claimed is answered again from the stored row     *)
(* while the claimed session is live.                                      *)
Replayable(s, c) == s.state = "claimed" /\ s.claim = c

AfterClaim(s) == IF s.plan = NoGrant THEN "plan" ELSE "answer"

Handshake(h, c) ==
    LET i == InvitationOf[c] IN
    /\ Free(h) /\ joiner[c].at = "claiming"
    /\ \/ /\ session[i].state = "created" /\ i \in secrets
          /\ Become(h, [at |-> "claim", by |-> "joiner", invitation |-> i,
                        claim |-> c, grant |-> NoGrant, late |-> i \in expired])
       \/ /\ Replayable(session[i], c) /\ i \notin expired \cup lapsed
          /\ Become(h, [at |-> AfterClaim(session[i]), by |-> "joiner",
                        invitation |-> i, claim |-> c, grant |-> NoGrant,
                        late |-> FALSE])
    /\ UNCHANGED <<space, session, secrets, admitted, expired, lapsed, mode,
                   joiner, refused, faults>>

(* Exactly one frame finds the row created.  A handler whose clock was past*)
(* the expiry marks a created row expired; one that lost the race reads the*)
(* row again.                                                              *)
Claim(h) ==
    LET s == Row(h)  i == handler[h].invitation IN
    /\ At(h, "claim")
    /\ \/ /\ s.state = "absent"
          /\ Finish(h) /\ UNCHANGED session
       \/ /\ handler[h].late /\ s.state # "absent"
          /\ IF s.state = "created"
                THEN SetRow(i, [s EXCEPT !.state = "expired"])
                ELSE UNCHANGED session
          /\ Finish(h)
       \/ /\ ~handler[h].late /\ s.state = "created"
          /\ SetRow(i, [s EXCEPT !.state = "claimed", !.claim = handler[h].claim])
          /\ Step(h, "plan")
       \/ /\ ~handler[h].late /\ s.state \notin {"absent", "created"}
          /\ Step(h, "replay") /\ UNCHANGED session
    /\ UNCHANGED <<space, secrets, admitted, expired, lapsed, mode, joiner,
                   refused, faults>>

(* The handler's clock was read before the claim it lost to was stored: the*)
(* replay is refused when it was read before that claim's own reading.     *)
Replay(h) ==
    LET s == Row(h) IN
    /\ At(h, "replay")
    /\ \/ Replayable(s, handler[h].claim) /\ Step(h, AfterClaim(s))
       \/ Finish(h)
    /\ UNCHANGED <<space, session, secrets, admitted, expired, lapsed, mode,
                   joiner, refused, faults>>

(* Grants that no one has seen.                                            *)
Fresh(c) ==
    {g \in Grants : Subject(g) = c}
        \ (admitted \cup {session[i].plan : i \in Invitations}
                    \cup {joiner[d].grant : d \in Claims}
                    \cup {handler[k].grant : k \in Handlers})

(* Mutant of Plannable: a plan already stored is replaced.                 *)
Plannable_Replace(h) ==
    /\ Row(h).state \in {"claimed", "confirmed"}
    /\ Row(h).claim = handler[h].claim

(* A freshly signed grant becomes the session's plan, unless it has one.   *)
Plannable(h) ==
    /\ Row(h).state \in {"claimed", "confirmed"}
    /\ Row(h).claim = handler[h].claim
    /\ Row(h).plan = NoGrant

Plan(h, step, next) ==
    /\ At(h, step)
    /\ \/ /\ Plannable(h)
          /\ \E g \in Fresh(handler[h].claim) :
                /\ SetRow(handler[h].invitation, [Row(h) EXCEPT !.plan = g])
                /\ Become(h, [handler[h] EXCEPT !.at = next, !.grant = g])
       \/ /\ ~Plannable(h)
          /\ Finish(h) /\ UNCHANGED session
    /\ UNCHANGED <<space, secrets, admitted, expired, lapsed, mode, joiner,
                   refused, faults>>

PlanClaimed(h) == Plan(h, "plan", "answer")

(* The answer carries the row as it is now; the joiner accepts it only if  *)
(* the session is still claimed, and the answer may be lost.               *)
Answer(h) ==
    LET c == handler[h].claim  s == Row(h) IN
    /\ At(h, "answer")
    /\ Finish(h)
    /\ \/ /\ joiner[c].at = "claiming" /\ s.state # "absent"
          /\ joiner' = [joiner EXCEPT ![c] =
                IF s.state = "claimed" /\ s.plan # NoGrant
                   THEN [at |-> "pending", grant |-> s.plan]
                   ELSE [at |-> "failed", grant |-> NoGrant]]
       \/ UNCHANGED joiner
    /\ UNCHANGED <<space, session, secrets, admitted, expired, lapsed, mode,
                   refused, faults>>

-------------------------------------------------------------------------------
(* Acceptance, or the operator's confirmation.                             *)

(* An acceptance is checked against the row: in time, signed for the claim *)
(* the row holds, naming the grant the row plans.                          *)
ValidAcceptance(c) ==
    LET s == session[InvitationOf[c]] IN
    /\ InvitationOf[c] \notin expired
    /\ s.state # "absent" /\ s.claim = c
    /\ s.plan = joiner[c].grant

Accept(h, c) ==
    /\ Free(h) /\ joiner[c].at = "pending"
    /\ IF ValidAcceptance(c)
          THEN /\ Become(h, [at |-> "resume", by |-> "joiner",
                             invitation |-> InvitationOf[c], claim |-> c,
                             grant |-> NoGrant, late |-> FALSE])
               /\ UNCHANGED refused
          ELSE Refuse(h, c, "joiner")
    /\ UNCHANGED <<space, session, secrets, admitted, expired, lapsed, mode,
                   joiner, faults>>

(* The operator's route: the code shown for the session, and no check of   *)
(* any expiry.                                                             *)
OperatorConfirm(h, i) ==
    /\ Free(h) /\ session[i].claim # NoClaim
    /\ Become(h, [at |-> "resume", by |-> "operator", invitation |-> i,
                  claim |-> session[i].claim, grant |-> NoGrant, late |-> FALSE])
    /\ UNCHANGED <<space, session, secrets, admitted, expired, lapsed, mode,
                   joiner, refused, faults>>

(* With the grant of the row it just read: sign one if there is none.      *)
Proceed(h, s) ==
    Become(h, [handler[h] EXCEPT !.at = IF s.plan = NoGrant THEN "sign" ELSE "submit",
                                 !.grant = s.plan])

(* Mutant of Resume: a completed session is not resumed.                   *)
Resume_Completed(h) ==
    LET s == Row(h) IN
    /\ At(h, "resume")
    /\ CASE s.state = "claimed" -> Step(h, "confirm") /\ UNCHANGED refused
         [] s.state = "confirmed" -> Proceed(h, s) /\ UNCHANGED refused
         [] OTHER -> Refuse(h, handler[h].claim, handler[h].by)
    /\ UNCHANGED <<space, session, secrets, admitted, expired, lapsed, mode,
                   joiner, faults>>

(* confirm() reads the row again and resumes wherever the session stands.  *)
Resume(h) ==
    LET s == Row(h) IN
    /\ At(h, "resume")
    /\ CASE s.state = "completed" -> Step(h, "purge") /\ UNCHANGED refused
         [] s.state = "claimed" -> Step(h, "confirm") /\ UNCHANGED refused
         [] s.state = "confirmed" -> Proceed(h, s) /\ UNCHANGED refused
         [] OTHER -> Refuse(h, handler[h].claim, handler[h].by)
    /\ UNCHANGED <<space, session, secrets, admitted, expired, lapsed, mode,
                   joiner, faults>>

Confirm(h) ==
    LET s == Row(h) IN
    /\ At(h, "confirm")
    /\ IF s.state = "claimed" /\ s.claim = handler[h].claim
          THEN /\ SetRow(handler[h].invitation, [s EXCEPT !.state = "confirmed"])
               /\ Proceed(h, s)
               /\ UNCHANGED refused
          ELSE Refuse(h, handler[h].claim, handler[h].by) /\ UNCHANGED session
    /\ UNCHANGED <<space, secrets, admitted, expired, lapsed, mode, joiner, faults>>

PlanConfirmed(h) == Plan(h, "sign", "submit")

(* submit_operation: a repeated submission of the same grant changes       *)
(* nothing.                                                                *)
Submit(h) ==
    /\ At(h, "submit")
    /\ IF space
          THEN admitted' = admitted \cup {handler[h].grant} /\ Step(h, "complete")
          ELSE Finish(h) /\ UNCHANGED admitted
    /\ UNCHANGED <<space, session, secrets, expired, lapsed, mode, joiner,
                   refused, faults>>

Complete(h) ==
    LET s == Row(h)  g == handler[h].grant IN
    /\ At(h, "complete")
    /\ IF s.state = "confirmed" /\ s.plan = g /\ g \in admitted /\ Subject(g) = s.claim
          THEN /\ SetRow(handler[h].invitation, [s EXCEPT !.state = "completed"])
               /\ Step(h, "purge")
               /\ UNCHANGED refused
          ELSE Refuse(h, handler[h].claim, handler[h].by) /\ UNCHANGED session
    /\ UNCHANGED <<space, secrets, admitted, expired, lapsed, mode, joiner, faults>>

(* The secret goes after the row is terminal; then the answer, which may be*)
(* lost.                                                                   *)
Purge(h) ==
    LET c == handler[h].claim IN
    /\ At(h, "purge")
    /\ secrets' = secrets \ {handler[h].invitation}
    /\ Finish(h)
    /\ \/ /\ handler[h].by = "joiner"
          /\ joiner' = [joiner EXCEPT ![c].at = "paired"]
          /\ refused' = refused \ {c}
       \/ UNCHANGED <<joiner, refused>>
    /\ UNCHANGED <<space, session, admitted, expired, lapsed, mode, faults>>

(* Mutant of Cancel: a confirmed session can be cancelled too.             *)
Cancel_Confirmed(h, i) ==
    /\ Free(h) /\ Active(session[i])
    /\ SetRow(i, [session[i] EXCEPT !.state = "cancelled"])
    /\ Become(h, [Idle EXCEPT !.at = "purge", !.invitation = i])
    /\ UNCHANGED <<space, secrets, admitted, expired, lapsed, mode, joiner,
                   refused, faults>>

Cancel(h, i) ==
    /\ Free(h) /\ session[i].state \in {"created", "claimed"}
    /\ SetRow(i, [session[i] EXCEPT !.state = "cancelled"])
    /\ Become(h, [Idle EXCEPT !.at = "purge", !.invitation = i])
    /\ UNCHANGED <<space, secrets, admitted, expired, lapsed, mode, joiner,
                   refused, faults>>

-------------------------------------------------------------------------------
(* The rest of the node, the clock, and failures.                          *)

(* Deleting the workspace deletes its sessions and grants in one           *)
(* transaction; the secrets stay until the next start.                     *)
DeleteSpace ==
    /\ mode = "up" /\ space
    /\ space' = FALSE
    /\ session' = [i \in Invitations |-> NoSession]
    /\ admitted' = {}
    /\ UNCHANGED <<secrets, expired, lapsed, mode, handler, joiner, refused, faults>>

Expire(i) ==
    /\ i \notin expired /\ session[i].state # "absent"
    /\ expired' = expired \cup {i}
    /\ UNCHANGED <<space, session, secrets, admitted, lapsed, mode, handler,
                   joiner, refused, faults>>

(* Two minutes after the claim.                                            *)
Lapse(i) ==
    /\ i \notin lapsed /\ session[i].state = "claimed"
    /\ lapsed' = lapsed \cup {i}
    /\ UNCHANGED <<space, session, secrets, admitted, expired, mode, handler,
                   joiner, refused, faults>>

(* A handler meets a storage error at its next step and answers with it;   *)
(* creation removes its secret first.                                      *)
HandlerFails(h) ==
    /\ mode = "up" /\ handler[h].at # "idle" /\ faults.errors < MaxErrors
    /\ faults' = [faults EXCEPT !.errors = @ + 1]
    /\ IF handler[h].at = "insert" THEN Step(h, "unstore") ELSE Finish(h)
    /\ UNCHANGED <<space, session, secrets, admitted, expired, lapsed, mode,
                   joiner, refused>>

Crash ==
    /\ mode # "down" /\ faults.crashes < MaxCrashes
    /\ faults' = [faults EXCEPT !.crashes = @ + 1]
    /\ mode' = "down"
    /\ handler' = [h \in Handlers |-> Idle]
    /\ UNCHANGED <<space, session, secrets, admitted, expired, lapsed, joiner, refused>>

Stale(i) ==
    \/ session[i].state = "created" /\ i \in expired
    \/ session[i].state = "claimed" /\ i \in expired \cup lapsed

ActiveRows == {i \in Invitations : Active(session[i])}

(* The start of reconcile: expire what is stale, and refuse to start when  *)
(* an active session has no secret.                                        *)
Reconcile ==
    /\ mode = "down"
    /\ session' = [i \in Invitations |->
          IF Stale(i) THEN [session[i] EXCEPT !.state = "expired"] ELSE session[i]]
    /\ mode' = IF {i \in Invitations : Active(session'[i])} \subseteq secrets
                  THEN "sweep" ELSE "down"
    /\ UNCHANGED <<space, secrets, admitted, expired, lapsed, handler, joiner,
                   refused, faults>>

(* Mutant of Sweep: only created sessions keep their secrets.              *)
Sweep_Claimed(i) ==
    /\ mode = "sweep" /\ i \in secrets /\ session[i].state # "created"
    /\ secrets' = secrets \ {i}
    /\ UNCHANGED <<space, session, admitted, expired, lapsed, mode, handler,
                   joiner, refused, faults>>

(* Reconcile removes the secrets of terminal and unknown sessions.         *)
Sweep(i) ==
    /\ mode = "sweep" /\ i \in secrets \ ActiveRows
    /\ secrets' = secrets \ {i}
    /\ UNCHANGED <<space, session, admitted, expired, lapsed, mode, handler,
                   joiner, refused, faults>>

Opened ==
    /\ mode = "sweep" /\ secrets \subseteq ActiveRows
    /\ mode' = "up"
    /\ UNCHANGED <<space, session, secrets, admitted, expired, lapsed, handler,
                   joiner, refused, faults>>

Serve(h) ==
    \/ InsertRow(h) \/ Unstore(h)
    \/ Claim(h) \/ Replay(h) \/ PlanClaimed(h) \/ Answer(h)
    \/ Resume(h) \/ Confirm(h) \/ PlanConfirmed(h) \/ Submit(h) \/ Complete(h)
    \/ Purge(h)

Next ==
    \/ \E h \in Handlers :
          \/ Serve(h) \/ HandlerFails(h)
          \/ \E c \in Claims : Handshake(h, c) \/ Accept(h, c)
          \/ \E i \in Invitations :
                StoreSecret(h, i) \/ OperatorConfirm(h, i) \/ Cancel(h, i)
    \/ DeleteSpace
    \/ \E i \in Invitations : Expire(i) \/ Lapse(i) \/ Sweep(i)
    \/ Crash \/ Reconcile \/ Opened

Spec == Init /\ [][Next]_vars

(* A handler runs to its end on its own thread, and a node that went down  *)
(* is started again.                                                       *)
Fairness ==
    /\ \A h \in Handlers : WF_vars(Serve(h))
    /\ WF_vars(Reconcile) /\ WF_vars(Opened)
    /\ \A i \in Invitations : WF_vars(Sweep(i))

FairSpec == Spec /\ Fairness

-------------------------------------------------------------------------------
(* Properties.                                                             *)

(* Whatever a crash interrupts, every session that can still be used has   *)
(* its secret, so reconcile() never refuses to start the node.             *)
ActiveHasSecret == ActiveRows \subseteq secrets

(* A grant in the log is the plan of a session someone confirmed: nothing  *)
(* is admitted for a session that was cancelled, expired or only claimed,  *)
(* and no session ever admits two.                                         *)
GrantsAreConfirmed ==
    \A g \in admitted : \E i \in Invitations :
        session[i].plan = g /\ session[i].state \in {"confirmed", "completed"}

(* The grant a joiner was shown in the handshake is the one its session    *)
(* plans for as long as the workspace exists, however many handlers raced  *)
(* to sign one; and a joiner that was told "completed" holds an admitted   *)
(* grant made out to it.                                                   *)
PromisesAreKept ==
    space => \A c \in Claims :
        LET s == session[InvitationOf[c]] IN
        /\ joiner[c].at \in {"pending", "paired"} => s.claim = c /\ s.plan = joiner[c].grant
        /\ joiner[c].at = "paired" => s.state = "completed" /\ s.plan \in admitted

(* An invitation is claimed once: no step gives a session another claim or *)
(* takes a session out of a terminal state, or a confirmed one anywhere    *)
(* but to completion, short of deleting the workspace.                     *)
OneClaimPerInvitation ==
    [][\A i \in Invitations :
          LET s == session[i]  t == session'[i] IN
          space' =>
            /\ s.claim # NoClaim => t.claim = s.claim
            /\ s.state \in {"completed", "cancelled", "expired"} => t = s
            /\ s.state = "confirmed" => t.state \in {"confirmed", "completed"}]_vars

(* A node that went down comes back up, and every request it accepts ends. *)
NodeComesBack ==
    /\ mode = "down" ~> mode = "up"
    /\ \A h \in Handlers : handler[h].at # "idle" ~> handler[h].at = "idle"

(* An acceptance of a session that is completed for its claim is answered  *)
(* again, except after the invitation has expired, and except by a handler *)
(* that found the session unfinished and was overtaken: the joiner that    *)
(* repeats it in time learns that it is paired.                            *)
CompletedIsReplayed ==
    [][\A c \in refused' \ refused :
          LET s == session[InvitationOf[c]] IN
          s.state = "completed" /\ s.claim = c =>
            \/ InvitationOf[c] \in expired
            \/ \E h \in Handlers : /\ handler[h].claim = c /\ handler'[h] = Idle
                                  /\ handler[h].at \in {"confirm", "complete"}]_vars
===============================================================================
