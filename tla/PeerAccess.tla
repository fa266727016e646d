------------------------------ MODULE PeerAccess ------------------------------
(***************************************************************************)
(* How a node serves the devices paired with it: signed one-use requests   *)
(* for a page of changes, requests with the transport credential of a      *)
(* pairing, the administrative revocation of a device, and the deletion of *)
(* its workspace.                                                          *)
(*                                                                         *)
(* A handler reads the clock once, when its request arrives, and then runs *)
(* one transaction after another on the blocking pool.  Transactions of    *)
(* several handlers interleave, so they do not commit in the order of the  *)
(* readings they use.  Signatures, tokens and the equality of identifiers  *)
(* are abstracted to "this request is of this session"; the page itself is *)
(* the subject of Sync.                                                    *)
(***************************************************************************)
EXTENDS Integers, FiniteSets

CONSTANTS
    Sessions,       \* completed pairings, each with a grant of its own
    Handlers,       \* requests the node serves at once
    Requests,        \* what requests with a transport credential ask for
    WorkspaceOf,        \* the workspace of a session
    Permits,        \* the actions the grant of a session allows
    ValidUntil,     \* expires_at_unix_ms of its grant
    OnlineWindow,
    PeerMaxTime,        \* bounds on the clock,
    MaxRequests,    \* on the signed requests of all clients,
    Drifts,         \* how far the clock of a client may be ahead
    Lifetimes,      \* lifetimes a client asks for
    MIN_REQUEST_LIFETIME_MS, MAX_REQUEST_LIFETIME_MS, MAX_FUTURE_SKEW_MS,
    PEER_NONCE_CLEANUP_BATCH, MAX_ACTIVE_PEER_NONCES_PER_SESSION,
    MaxRestarts     \* and on restarts of the node

Times == 0..PeerMaxTime
Nonces == 1..MaxRequests    \* 16 random bytes, numbered in the order drawn
Never == -1         \* last_seen_at_unix_ms is null

VARIABLES
    now,        \* the system clock
    sent,       \* signed requests, which the network may deliver again
    sessions,   \* completed rows of pairing_sessions
    lastSeen,   \* last_seen_at_unix_ms
    revokedSessions,    \* sessions whose grant is in capability_grant_revocations
    nonces,     \* peer_request_nonces
    calls,      \* the request each handler serves
    answers,    \* history: whether a request was answered once or again
    high,       \* history: the latest reading a committed read used
    restarts

accessVars ==
    <<now, sent, sessions, lastSeen, revokedSessions, nonces, calls, answers, high, restarts>>

Proof == [session : Sessions, nonce : Nonces, issued : Times, expires : Times]
Idle == [step |-> "idle"]

AccessInit ==
    /\ now = 0
    /\ sent = {}
    /\ sessions = Sessions
    /\ lastSeen = [s \in Sessions |-> Never]
    /\ revokedSessions = {}
    /\ nonces = {}
    /\ calls = [h \in Handlers |-> Idle]
    /\ answers = [n \in Nonces |-> "none"]
    /\ high = 0
    /\ restarts = 0

Tick == now < PeerMaxTime /\ now' = now + 1
        /\ UNCHANGED <<sent, sessions, lastSeen, revokedSessions, nonces, calls, answers, high,
                       restarts>>
-------------------------------------------------------------------------------
(* The client: a fresh nonce, issued at its own clock, for a lifetime      *)
(* within the limits.                                                      *)

validate_unsigned(p) ==
    p.expires - p.issued \in MIN_REQUEST_LIFETIME_MS..MAX_REQUEST_LIFETIME_MS

Sign(s) ==
    /\ Cardinality(sent) < MaxRequests
    /\ \E d \in Drifts, l \in Lifetimes :
         LET p == [session |-> s, nonce |-> Cardinality(sent) + 1,
                   issued |-> now + d, expires |-> now + d + l]
         IN
         /\ p.expires \in Times /\ validate_unsigned(p)
         /\ sent' = sent \cup {p}
    /\ UNCHANGED <<now, sessions, lastSeen, revokedSessions, nonces, calls, answers, high, restarts>>
-------------------------------------------------------------------------------
Step(h, step) == calls' = [calls EXCEPT ![h].step = step]

\* history: whether the grant was revoked before the request arrived.
Late(s) == s \in revokedSessions

(* Mutant of authorize_capability_action: revocations are not consulted.   *)
authorize_capability_action_Revoked(s, action, at) ==
    action \in Permits[s] /\ at < ValidUntil[s]

authorize_capability_action(s, action, at) ==
    /\ s \notin revokedSessions
    /\ action \in Permits[s]
    /\ at < ValidUntil[s]

\* touch_pairing_session; no row is no change.
Touched(s, at) == [lastSeen EXCEPT ![s] = IF at > @ THEN at ELSE @]
-------------------------------------------------------------------------------
(* peer_operation_changes: verify the request at the reading of the clock, *)
(* then the transaction of peer_changes, then note the activity.           *)

verify(p, at) ==
    /\ validate_unsigned(p)
    /\ at >= p.issued - MAX_FUTURE_SKEW_MS
    /\ at < p.expires

Receive(h) ==
    /\ calls[h].step = "idle"
    /\ \E p \in sent :
         /\ verify(p, now)
         /\ calls' = [calls EXCEPT ![h] = [step |-> "read", session |-> p.session, proof |-> p,
                                           at |-> now, late |-> Late(p.session)]]
    /\ UNCHANGED <<now, sent, sessions, lastSeen, revokedSessions, nonces, answers, high, restarts>>

(* Mutant of Cleaned: rows are removed one instant too early.              *)
Cleaned_Unexpired(gone, at) ==
    gone = {r \in nonces : r.expires <= at + 1}

\* The rows one transaction removes: expired ones, the oldest first.
Cleaned(gone, at) ==
    LET expired == {r \in nonces : r.expires <= at} IN
    /\ gone \subseteq expired
    /\ Cardinality(gone) = IF Cardinality(expired) < PEER_NONCE_CLEANUP_BATCH
                           THEN Cardinality(expired) ELSE PEER_NONCE_CLEANUP_BATCH
    /\ \A r \in gone, q \in expired \ gone : r.expires <= q.expires

Replayed(p, rows) == \E r \in rows : r.session = p.session /\ r.nonce = p.nonce

Active(s, rows, at) == {r \in rows : r.session = s /\ r.expires > at}

BelowLimit(s, rows, at) ==
    Cardinality(Active(s, rows, at)) < MAX_ACTIVE_PEER_NONCES_PER_SESSION

\* peer_changes: any refusal rolls the whole transaction back.
Admissible(c, rows) ==
    /\ verify(c.proof, c.at)
    /\ c.session \in sessions
    /\ authorize_capability_action(c.session, "read", c.at)
    /\ ~Replayed(c.proof, rows)
    /\ BelowLimit(c.session, rows, c.at)

ReadPage(h) ==
    /\ calls[h].step = "read"
    /\ \E gone \in SUBSET nonces :
         LET c == calls[h]
             rows == nonces \ gone
         IN
         /\ Cleaned(gone, c.at)
         /\ IF Admissible(c, rows)
            THEN /\ nonces' = rows \cup {[session |-> c.session, nonce |-> c.proof.nonce,
                                          expires |-> c.proof.expires]}
                 /\ answers' = [answers EXCEPT ![c.proof.nonce] =
                      CASE @ = "none" -> "once"
                        [] @ # "none" /\ c.proof.expires <= high -> "overtaken"
                        [] OTHER -> "repeated"]
                 /\ high' = IF c.at > high THEN c.at ELSE high
                 /\ Step(h, "touch")
            ELSE /\ calls' = [calls EXCEPT ![h] = Idle]
                 /\ UNCHANGED <<nonces, answers, high>>
    /\ UNCHANGED <<now, sent, sessions, lastSeen, revokedSessions, restarts>>

\* record_paired_activity: its failure is ignored and the page is returned.
RecordActivity(h) ==
    /\ calls[h].step = "touch"
    /\ lastSeen' = IF calls[h].session \in sessions
                   THEN Touched(calls[h].session, calls[h].at) ELSE lastSeen
    /\ Step(h, "served")
    /\ UNCHANGED <<now, sent, sessions, revokedSessions, nonces, answers, high, restarts>>
-------------------------------------------------------------------------------
(* authenticate and authenticate_peer_transport: the row, the capability   *)
(* and the note of the activity are three transactions; then the request   *)
(* is passed on.                                                           *)

Arrive(h, s, action) ==
    /\ calls[h].step = "idle" /\ s \in sessions
    /\ calls' = [calls EXCEPT ![h] = [step |-> "authorize", session |-> s, action |-> action,
                                      at |-> now, late |-> Late(s)]]
    /\ UNCHANGED <<now, sent, sessions, lastSeen, revokedSessions, nonces, answers, high, restarts>>

Authorize(h) ==
    /\ calls[h].step = "authorize"
    /\ IF calls[h].session \in sessions
          /\ authorize_capability_action(calls[h].session, calls[h].action, calls[h].at)
       THEN Step(h, "authenticated")
       ELSE calls' = [calls EXCEPT ![h] = Idle]
    /\ UNCHANGED <<now, sent, sessions, lastSeen, revokedSessions, nonces, answers, high, restarts>>

\* Unlike RecordActivity, a row that has gone meanwhile refuses the request.
PassOn(h) ==
    /\ calls[h].step = "authenticated"
    /\ IF calls[h].session \in sessions
       THEN lastSeen' = Touched(calls[h].session, calls[h].at) /\ Step(h, "served")
       ELSE calls' = [calls EXCEPT ![h] = Idle] /\ UNCHANGED lastSeen
    /\ UNCHANGED <<now, sent, sessions, revokedSessions, nonces, answers, high, restarts>>

Finish(h) ==
    /\ calls[h].step \in {"served", "shown"}
    /\ calls' = [calls EXCEPT ![h] = Idle]
    /\ UNCHANGED <<now, sent, sessions, lastSeen, revokedSessions, nonces, answers, high, restarts>>
-------------------------------------------------------------------------------
(* revoke_paired_device: look for a revocation, admit one if there is      *)
(* none, and show the device.                                              *)

\* A device is online when it was seen within OnlineWindow (15 s).
device_view(s, seen, at) ==
    [revoked |-> s \in revokedSessions,
     online |-> s \notin revokedSessions /\ seen # Never /\ at - seen <= OnlineWindow]

RevokeStart(h, s) ==
    /\ calls[h].step = "idle" /\ s \in sessions
    /\ calls' = [calls EXCEPT ![h] = [step |-> "lookup", session |-> s, at |-> now,
                                      seen |-> lastSeen[s], late |-> FALSE]]
    /\ UNCHANGED <<now, sent, sessions, lastSeen, revokedSessions, nonces, answers, high, restarts>>

RevokeLookup(h) ==
    /\ calls[h].step = "lookup"
    /\ Step(h, IF calls[h].session \in revokedSessions THEN "show" ELSE "submit")
    /\ UNCHANGED <<now, sent, sessions, lastSeen, revokedSessions, nonces, answers, high, restarts>>

\* new_revocation and submit_operation; two handlers may both admit one.
RevokeSubmit(h) ==
    /\ calls[h].step = "submit"
    /\ IF calls[h].session \in sessions
       THEN /\ revokedSessions' = revokedSessions \cup {calls[h].session}
            /\ Step(h, "show")
       ELSE calls' = [calls EXCEPT ![h] = Idle] /\ UNCHANGED revokedSessions
    /\ UNCHANGED <<now, sent, sessions, lastSeen, nonces, answers, high, restarts>>

RevokeShow(h) ==
    /\ calls[h].step = "show"
    /\ calls' = [calls EXCEPT ![h] =
                    [step |-> "shown", session |-> @.session, at |-> @.at, late |-> FALSE,
                     view |-> device_view(@.session, @.seen, @.at)]]
    /\ UNCHANGED <<now, sent, sessions, lastSeen, revokedSessions, nonces, answers, high, restarts>>
-------------------------------------------------------------------------------
(* delete_space removes the sessions of the workspace, their nonces (ON    *)
(* DELETE CASCADE) and its revocations in one transaction.                 *)
DeleteWorkspace(s) ==
    /\ s \in sessions
    /\ LET dead == {t \in sessions : WorkspaceOf[t] = WorkspaceOf[s]} IN
         /\ sessions' = sessions \ dead
         /\ nonces' = {r \in nonces : r.session \notin dead}
         /\ revokedSessions' = revokedSessions \ dead
         /\ lastSeen' = [t \in Sessions |-> IF t \in dead THEN Never ELSE lastSeen[t]]
    /\ UNCHANGED <<now, sent, calls, answers, high, restarts>>

\* A restart ends the handlers; everything else is in the database.
Restart ==
    /\ restarts < MaxRestarts /\ restarts' = restarts + 1
    /\ calls' = [h \in Handlers |-> Idle]
    /\ UNCHANGED <<now, sent, sessions, lastSeen, revokedSessions, nonces, answers, high>>

AccessNext ==
    \/ Tick \/ Restart
    \/ \E s \in Sessions : DeleteWorkspace(s) \/ Sign(s)
    \/ \E h \in Handlers :
         \/ Receive(h) \/ ReadPage(h) \/ RecordActivity(h)
         \/ Authorize(h) \/ PassOn(h) \/ Finish(h)
         \/ RevokeLookup(h) \/ RevokeSubmit(h) \/ RevokeShow(h)
         \/ \E s \in Sessions : RevokeStart(h, s)
                               \/ \E a \in Requests : Arrive(h, s, a)

AccessSpec == AccessInit /\ [][AccessNext]_accessVars
-------------------------------------------------------------------------------
(* The shape of the state.                                                 *)
AccessTypeOK ==
    /\ now \in Times /\ high \in 0..now
    /\ sent \subseteq Proof /\ sessions \subseteq Sessions
    /\ lastSeen \in [Sessions -> Times \cup {Never}]
    /\ revokedSessions \subseteq sessions
    /\ nonces \subseteq [session : sessions, nonce : Nonces, expires : Times]
    /\ \A h \in Handlers : calls[h] = Idle \/ calls[h].session \in Sessions

(* A request is answered at most once, whatever the network repeats and    *)
(* however often the node restarts, with one exception: a copy received    *)
(* before its expiry whose transaction is overtaken by that of a request   *)
(* received after it.  peer_changes inserts the nonce with the read and    *)
(* forgets it only by a reading past its expiry.                           *)
SecondAnswerWasOvertaken == \A n \in Nonces : answers[n] # "repeated"

(* The replay capacity of a session is respected at the latest reading any *)
(* read has used, although handlers count with older readings, and rows of *)
(* one session are cleaned by the requests of another.                     *)
ActiveNoncesAreBounded ==
    \A s \in Sessions :
        Cardinality(Active(s, nonces, high)) <= MAX_ACTIVE_PEER_NONCES_PER_SESSION

(* A request that arrives after the revocation of its grant was admitted   *)
(* is not served, by either way of authentication.                         *)
RevokedIsNotServed ==
    \A h \in Handlers : calls[h].step \in {"touch", "served"} => ~calls[h].late

(* revoke_paired_device answers with a revoked, offline device, also when  *)
(* two calls race, unless the workspace is gone.                           *)
RevokeAnswersRevoked ==
    \A h \in Handlers : calls[h].step = "shown" =>
        \/ calls[h].session \notin sessions
        \/ calls[h].view.revoked /\ ~calls[h].view.online

(* The time a device was last seen never goes back, although handlers note *)
(* it in another order than they read the clock.                           *)
LastSeenOnlyAdvances ==
    [][\A s \in sessions \cap sessions' : lastSeen'[s] >= lastSeen[s]]_accessVars
===============================================================================
