------------------------------ MODULE NodeProofs ------------------------------
(***************************************************************************)
(* What the runs check of a node on a small instance, proved for every set *)
(* of operations, spaces, grants and revocations of its log (NodeLog), and *)
(* for any number of devices, workspaces, handlers and requests, any       *)
(* limits, lifetimes and drifts and any number of restarts of its service  *)
(* to paired devices (PeerAccess).                                         *)
(*                                                                         *)
(* The inductive invariant of the log adds to the properties what the      *)
(* repository's tables promise each other: a stored operation lies in a    *)
(* trusted space, sequence numbers stay below the high-water mark, the     *)
(* visibility table agrees with the bodies, and the revocation table holds *)
(* the target of every admitted revocation.                                *)
(***************************************************************************)
EXTENDS NodeLog, PeerAccess, FiniteSetTheorems, TLAPS

-------------------------------------------------------------------------------
(* The service to paired devices.                                          *)

(* What the theorems take of the constants: the bounds, drifts, lifetimes  *)
(* and the capacity of a session are natural numbers.                      *)
Bounds ==
    /\ PeerMaxTime \in Nat /\ MaxRequests \in Nat
    /\ Drifts \subseteq Nat /\ Lifetimes \subseteq Nat
    /\ MAX_ACTIVE_PEER_NONCES_PER_SESSION \in Nat

(* The requests handlers may be serving: a signed read, a request with a   *)
(* credential, a revocation, and a revocation that has been answered.      *)
Reads == [step : {"read", "touch", "served"}, session : Sessions, proof : Proof,
          at : Times, late : BOOLEAN]
Passes == [step : {"authorize", "authenticated", "served"}, session : Sessions,
           action : Requests, at : Times, late : BOOLEAN]
Revocations == [step : {"lookup", "submit", "show"}, session : Sessions, at : Times,
                seen : Times \cup {Never}, late : BOOLEAN]
Answered == [step : {"shown"}, session : Sessions, at : Times, late : BOOLEAN,
             view : [revoked : BOOLEAN, online : BOOLEAN]]

(* The first invariant: types, and readings of the clock lie in the past.  *)
Typed ==
    /\ now \in Times /\ high \in 0..now
    /\ sent \subseteq Proof /\ sessions \subseteq Sessions
    /\ lastSeen \in [Sessions -> Times \cup {Never}]
    /\ revokedSessions \subseteq sessions
    /\ nonces \subseteq [session : sessions, nonce : Nonces, expires : Times]
    /\ calls \in [Handlers -> {Idle} \cup Reads \cup Passes \cup Revocations \cup Answered]
    /\ \A h \in Handlers : calls[h].step # "idle" => calls[h].at <= now
    /\ answers \in [Nonces -> {"none", "once", "overtaken", "repeated"}]
    /\ IsFiniteSet(sent) /\ IsFiniteSet(nonces)
-------------------------------------------------------------------------------
(* The step of a handler tells which kind of request it serves.            *)
LEMMA CallKinds ==
    ASSUME Typed, NEW h \in Handlers
    PROVE  /\ calls[h].step \in {"read", "touch"} => calls[h] \in Reads
           /\ calls[h].step \in {"authorize", "authenticated"} => calls[h] \in Passes
           /\ calls[h].step \in {"lookup", "submit", "show"} => calls[h] \in Revocations
  BY DEF Typed, Reads, Passes, Revocations, Answered, Idle

LEMMA TypedInit == ASSUME Bounds, AccessInit PROVE Typed
<1>1. IsFiniteSet({})
  BY FS_EmptySet, Zenon
<1> QED
  BY <1>1 DEF Bounds, AccessInit, Typed, Times, Nonces, Never, Idle

(* Every step keeps the types.                                             *)
LEMMA TypedStep == ASSUME Bounds, Typed, [AccessNext]_accessVars PROVE Typed'
<1> USE DEF Bounds, Times
<1>1. CASE Tick
  BY <1>1 DEF Tick, Typed, Proof, Nonces, Reads, Passes, Revocations, Answered, Idle
<1>2. CASE Restart
  BY <1>2, Zenon DEF Restart, Typed, Idle
<1>3. ASSUME NEW s \in Sessions, DeleteWorkspace(s) PROVE Typed'
  <2> DEFINE dead == {t \in sessions : WorkspaceOf[t] = WorkspaceOf[s]}
  <2>1. IsFiniteSet({r \in nonces : r.session \notin dead})
    BY FS_Subset, Zenon DEF Typed
  <2>2. nonces' = {r \in nonces : r.session \notin dead} /\ sessions' = sessions \ dead
    BY <1>3, Zenon DEF DeleteWorkspace
  <2>3. lastSeen' \in [Sessions -> Times \cup {Never}]
    BY <1>3, Zenon DEF DeleteWorkspace, Typed
  <2>4. nonces' \subseteq [session : sessions', nonce : Nonces, expires : Times]
    BY <2>2, Zenon DEF Typed
  <2>5. revokedSessions' \subseteq sessions'
    BY <1>3, Zenon DEF DeleteWorkspace, Typed
  <2> QED
    BY <1>3, <2>1, <2>2, <2>3, <2>4, <2>5, Zenon DEF DeleteWorkspace, Typed
<1>4. ASSUME NEW s \in Sessions, Sign(s) PROVE Typed'
  <2>1. Cardinality(sent) \in Nat
    BY FS_CardinalityType, Zenon DEF Typed
  <2>2. PICK d \in Drifts, l \in Lifetimes :
          /\ now + d + l \in Times
          /\ sent' = sent \cup {[session |-> s, nonce |-> Cardinality(sent) + 1,
                                 issued |-> now + d, expires |-> now + d + l]}
    BY <1>4, Zenon DEF Sign
  <2>3. [session |-> s, nonce |-> Cardinality(sent) + 1,
         issued |-> now + d, expires |-> now + d + l] \in Proof
    BY <1>4, <2>1, <2>2 DEF Sign, Proof, Nonces, Typed
  <2>4. IsFiniteSet(sent')
    BY <2>2, FS_AddElement, Zenon DEF Typed
  <2> QED
    BY <1>4, <2>2, <2>3, <2>4, Zenon DEF Sign, Typed
<1>5. ASSUME NEW h \in Handlers, Receive(h) PROVE Typed'
  <2>1. PICK p \in sent :
          calls' = [calls EXCEPT ![h] = [step |-> "read", session |-> p.session, proof |-> p,
                                         at |-> now, late |-> Late(p.session)]]
    BY <1>5, Zenon DEF Receive
  <2>2. [step |-> "read", session |-> p.session, proof |-> p,
         at |-> now, late |-> Late(p.session)] \in Reads
    BY <2>1 DEF Typed, Reads, Proof, Late
  <2> QED
    BY <1>5, <2>1, <2>2 DEF Receive, Typed
<1>6. ASSUME NEW h \in Handlers, ReadPage(h) PROVE Typed'
  <2>1. calls[h] \in Reads /\ calls[h].step = "read"
    BY <1>6, CallKinds, Zenon DEF ReadPage
  <2>2. PICK gone \in SUBSET nonces :
          IF Admissible(calls[h], nonces \ gone)
          THEN /\ nonces' = (nonces \ gone) \cup
                    {[session |-> calls[h].session, nonce |-> calls[h].proof.nonce,
                      expires |-> calls[h].proof.expires]}
               /\ answers' = [answers EXCEPT ![calls[h].proof.nonce] =
                    CASE @ = "none" -> "once"
                      [] @ # "none" /\ calls[h].proof.expires <= high -> "overtaken"
                      [] OTHER -> "repeated"]
               /\ high' = IF calls[h].at > high THEN calls[h].at ELSE high
               /\ Step(h, "touch")
          ELSE /\ calls' = [calls EXCEPT ![h] = Idle]
               /\ UNCHANGED <<nonces, answers, high>>
    BY <1>6, Zenon DEF ReadPage
  <2>3. CASE Admissible(calls[h], nonces \ gone)
    <3>1. [session |-> calls[h].session, nonce |-> calls[h].proof.nonce,
           expires |-> calls[h].proof.expires]
             \in [session : sessions, nonce : Nonces, expires : Times]
      BY <2>1, <2>3, Zenon DEF Admissible, Reads, Proof
    <3>2. IsFiniteSet(nonces')
      <4>1. IsFiniteSet(nonces \ gone)
        BY FS_Subset, Zenon DEF Typed
      <4>2. \A x : IsFiniteSet((nonces \ gone) \cup {x})
        BY <4>1, FS_AddElement, Zenon
      <4> QED
        BY <2>2, <2>3, <4>2, Zenon
    <3>3. nonces' \subseteq [session : sessions, nonce : Nonces, expires : Times]
      BY <2>2, <2>3, <3>1 DEF Typed
    <3>4. [calls[h] EXCEPT !.step = "touch"] \in Reads
      BY <2>1, Zenon DEF Reads
    <3>5. calls' = [calls EXCEPT ![h] = [calls[h] EXCEPT !.step = "touch"]]
      BY <2>2, <2>3, Zenon DEF Step
    <3>6. high' \in 0..now
      BY <2>1, <2>2, <2>3 DEF Typed, Reads
    <3>7. answers' \in [Nonces -> {"none", "once", "overtaken", "repeated"}]
      BY <2>2, <2>3, Zenon DEF Typed
    <3> QED
      BY <1>6, <2>1, <3>2, <3>3, <3>4, <3>5, <3>6, <3>7, Zenon DEF ReadPage, Typed, Reads
  <2>4. CASE ~Admissible(calls[h], nonces \ gone)
    BY <1>6, <2>2, <2>4 DEF ReadPage, Typed, Idle
  <2> QED
    BY <2>3, <2>4, Zenon
<1>7. ASSUME NEW h \in Handlers, RecordActivity(h) PROVE Typed'
  <2>1. calls[h] \in Reads
    BY <1>7, CallKinds, Zenon DEF RecordActivity
  <2>2. [calls[h] EXCEPT !.step = "served"] \in Reads
    BY <2>1, Zenon DEF Reads
  <2>3. calls' = [calls EXCEPT ![h] = [calls[h] EXCEPT !.step = "served"]]
    BY <1>7, Zenon DEF RecordActivity, Step
  <2>4. lastSeen' \in [Sessions -> Times \cup {Never}]
    BY <1>7, <2>1, Zenon DEF RecordActivity, Typed, Touched, Reads
  <2> QED
    BY <1>7, <2>1, <2>2, <2>3, <2>4, Zenon DEF RecordActivity, Typed, Reads
<1>8. ASSUME NEW h \in Handlers, NEW s \in Sessions, NEW a \in Requests, Arrive(h, s, a)
      PROVE Typed'
  <2>1. [step |-> "authorize", session |-> s, action |-> a, at |-> now, late |-> Late(s)]
           \in Passes
    BY DEF Typed, Passes, Late
  <2> QED
    BY <1>8, <2>1 DEF Arrive, Typed
<1>9. ASSUME NEW h \in Handlers, Authorize(h) PROVE Typed'
  <2>1. calls[h] \in Passes
    BY <1>9, CallKinds, Zenon DEF Authorize
  <2>2. [calls[h] EXCEPT !.step = "authenticated"] \in Passes
    BY <2>1, Zenon DEF Passes
  <2>3. \/ calls' = [calls EXCEPT ![h] = [calls[h] EXCEPT !.step = "authenticated"]]
        \/ calls' = [calls EXCEPT ![h] = Idle]
    BY <1>9, Zenon DEF Authorize, Step
  <2> QED
    BY <1>9, <2>1, <2>2, <2>3 DEF Authorize, Typed, Passes, Idle
<1>10. ASSUME NEW h \in Handlers, PassOn(h) PROVE Typed'
  <2>1. calls[h] \in Passes
    BY <1>10, CallKinds, Zenon DEF PassOn
  <2>2. [calls[h] EXCEPT !.step = "served"] \in Passes
    BY <2>1, Zenon DEF Passes
  <2>3. \/ calls' = [calls EXCEPT ![h] = [calls[h] EXCEPT !.step = "served"]]
        \/ calls' = [calls EXCEPT ![h] = Idle]
    BY <1>10, Zenon DEF PassOn, Step
  <2>4. lastSeen' \in [Sessions -> Times \cup {Never}]
    BY <1>10, <2>1, Zenon DEF PassOn, Typed, Touched, Passes
  <2> QED
    BY <1>10, <2>1, <2>2, <2>3, <2>4 DEF PassOn, Typed, Passes, Idle
<1>11. ASSUME NEW h \in Handlers, Finish(h) PROVE Typed'
  BY <1>11, Zenon DEF Finish, Typed, Idle
<1>12. ASSUME NEW h \in Handlers, NEW s \in Sessions, RevokeStart(h, s) PROVE Typed'
  <2>1. [step |-> "lookup", session |-> s, at |-> now, seen |-> lastSeen[s], late |-> FALSE]
           \in Revocations
    BY Zenon DEF Typed, Revocations
  <2> QED
    BY <1>12, <2>1 DEF RevokeStart, Typed
<1>13. ASSUME NEW h \in Handlers, RevokeLookup(h) PROVE Typed'
  <2>1. calls[h] \in Revocations
    BY <1>13, CallKinds, Zenon DEF RevokeLookup
  <2>2. \A step \in {"show", "submit"} : [calls[h] EXCEPT !.step = step] \in Revocations
    BY <2>1, Zenon DEF Revocations
  <2>3. PICK step \in {"show", "submit"} :
          calls' = [calls EXCEPT ![h] = [calls[h] EXCEPT !.step = step]]
    BY <1>13, Zenon DEF RevokeLookup, Step
  <2> QED
    BY <1>13, <2>1, <2>2, <2>3, Zenon DEF RevokeLookup, Typed, Revocations
<1>14. ASSUME NEW h \in Handlers, RevokeSubmit(h) PROVE Typed'
  <2>1. calls[h] \in Revocations
    BY <1>14, CallKinds, Zenon DEF RevokeSubmit
  <2>2. [calls[h] EXCEPT !.step = "show"] \in Revocations
    BY <2>1, Zenon DEF Revocations
  <2>3. \/ calls' = [calls EXCEPT ![h] = [calls[h] EXCEPT !.step = "show"]]
        \/ calls' = [calls EXCEPT ![h] = Idle]
    BY <1>14, Zenon DEF RevokeSubmit, Step
  <2>4. revokedSessions' \subseteq sessions
    BY <1>14, Zenon DEF RevokeSubmit, Typed
  <2> QED
    BY <1>14, <2>1, <2>2, <2>3, <2>4 DEF RevokeSubmit, Typed, Revocations, Idle
<1>15. ASSUME NEW h \in Handlers, RevokeShow(h) PROVE Typed'
  <2> DEFINE c == [step |-> "shown", session |-> calls[h].session, at |-> calls[h].at,
                   late |-> FALSE,
                   view |-> device_view(calls[h].session, calls[h].seen, calls[h].at)]
  <2>1. calls[h] \in Revocations
    BY <1>15, CallKinds, Zenon DEF RevokeShow
  <2>2. c \in Answered
    BY <2>1 DEF Revocations, Answered, device_view
  <2>3. calls' = [calls EXCEPT ![h] = c]
    BY <1>15, Zenon DEF RevokeShow
  <2>4. c.at = calls[h].at
    BY Zenon
  <2> HIDE DEF c
  <2> QED
    BY <1>15, <2>1, <2>2, <2>3, <2>4, Zenon DEF RevokeShow, Typed, Revocations
<1>16. CASE UNCHANGED accessVars
  BY <1>16, Zenon DEF accessVars, Typed
<1> QED
  BY <1>1, <1>2, <1>3, <1>4, <1>5, <1>6, <1>7, <1>8, <1>9, <1>10, <1>11, <1>12, <1>13,
     <1>14, <1>15, <1>16, Zenon DEF AccessNext

(* The state keeps its shape, however handlers interleave: the invariant   *)
(* Typed strengthens AccessTypeOK by what a handler holds between steps.   *)
THEOREM AccessTypes == ASSUME Bounds PROVE AccessSpec => [](Typed /\ AccessTypeOK)
<1>1. AccessInit => Typed
  BY TypedInit, Zenon
<1>2. Typed /\ [AccessNext]_accessVars => Typed'
  BY TypedStep, Zenon
<1>3. Typed => AccessTypeOK
  BY Zenon DEF Typed, AccessTypeOK, Reads, Passes, Revocations, Answered
<1> QED
  BY <1>1, <1>2, <1>3, PTL DEF AccessSpec
-------------------------------------------------------------------------------
(* One-use requests.  A nonce is of one request, only sent requests are    *)
(* read, and an answered request is remembered: its row is there, or a     *)
(* reading past its expiry has been used, or its session has gone.         *)
Remembered ==
    /\ \A p \in sent : p.nonce <= Cardinality(sent)
    /\ \A p, q \in sent : p.nonce = q.nonce => p = q
    /\ \A h \in Handlers : calls[h].step = "read" =>
          calls[h].proof \in sent /\ calls[h].session = calls[h].proof.session
    /\ \A n \in Nonces : answers[n] # "none" => \E p \in sent : p.nonce = n
    /\ \A p \in sent : answers[p.nonce] # "none" /\ p.session \in sessions =>
          \/ [session |-> p.session, nonce |-> p.nonce, expires |-> p.expires] \in nonces
          \/ p.expires <= high
    /\ SecondAnswerWasOvertaken

(* A transaction that is admitted was not answered before, or has been     *)
(* overtaken: the row of its nonce could only go in this transaction, and  *)
(* then its reading would be past the expiry.                              *)
LEMMA ReadOnce ==
    ASSUME Bounds, Typed, Remembered, NEW h \in Handlers, ReadPage(h)
    PROVE  Remembered'
<1> USE DEF Bounds, Times
<1> DEFINE c == calls[h]
           p == c.proof
           row == [session |-> p.session, nonce |-> p.nonce, expires |-> p.expires]
<1>1. c \in Reads /\ c.step = "read"
  BY CallKinds, Zenon DEF ReadPage
<1>2. p \in sent /\ c.session = p.session /\ p \in Proof
  BY <1>1, Zenon DEF Remembered, Reads
<1>3. PICK gone \in SUBSET nonces :
        /\ Cleaned(gone, c.at)
        /\ IF Admissible(c, nonces \ gone)
           THEN /\ nonces' = (nonces \ gone) \cup {row}
                /\ answers' = [answers EXCEPT ![p.nonce] =
                     CASE @ = "none" -> "once"
                       [] @ # "none" /\ p.expires <= high -> "overtaken"
                       [] OTHER -> "repeated"]
                /\ high' = IF c.at > high THEN c.at ELSE high
                /\ Step(h, "touch")
           ELSE /\ calls' = [calls EXCEPT ![h] = Idle]
                /\ UNCHANGED <<nonces, answers, high>>
  BY <1>1, <1>2, Zenon DEF ReadPage
<1>4. UNCHANGED <<sent, sessions>>
  BY Zenon DEF ReadPage
<1>5. CASE ~Admissible(c, nonces \ gone)
  BY <1>3, <1>4, <1>5 DEF Remembered, SecondAnswerWasOvertaken, Typed, Idle
<1>6. CASE Admissible(c, nonces \ gone)
  <2>1. \A r \in gone : r.expires <= c.at
    BY <1>3, Zenon DEF Cleaned
  <2>2. c.at < p.expires /\ p.session \in sessions /\ row \notin nonces \ gone
    BY <1>2, <1>6, Zenon DEF Admissible, verify, Replayed
  <2>3. row \notin nonces
    BY <1>1, <1>2, <2>1, <2>2 DEF Reads, Proof
  <2>4. answers[p.nonce] = "none" \/ p.expires <= high
    BY <1>2, <2>2, <2>3, Zenon DEF Remembered
  <2>5. answers'[p.nonce] # "repeated" /\ p.nonce \in Nonces
    BY <1>2, <1>3, <1>6, <2>4, Zenon DEF Typed, Proof
  <2>6. \A n \in Nonces : n # p.nonce => answers'[n] = answers[n]
    BY <1>3, <1>6, Zenon DEF Typed
  <2>7. SecondAnswerWasOvertaken'
    BY <2>5, <2>6, Zenon DEF Remembered, SecondAnswerWasOvertaken
  <2>8. \A n \in Nonces : answers'[n] # "none" => \E q \in sent : q.nonce = n
    BY <1>2, <2>6, Zenon DEF Remembered
  <2>9. high <= high' /\ c.at <= high'
    BY <1>1, <1>3, <1>6 DEF Typed, Reads
  <2>10. ASSUME NEW q \in sent, answers'[q.nonce] # "none", q.session \in sessions
         PROVE  \/ [session |-> q.session, nonce |-> q.nonce, expires |-> q.expires] \in nonces'
                \/ q.expires <= high'
    <3> DEFINE other == [session |-> q.session, nonce |-> q.nonce, expires |-> q.expires]
    <3>1. CASE q = p
      BY <1>3, <1>6, <3>1, Zenon
    <3>2. CASE q # p
      <4>1. q.nonce # p.nonce /\ q \in Proof
        BY <1>2, <3>2, Zenon DEF Remembered, Typed
      <4>2. answers[q.nonce] # "none"
        BY <2>6, <2>10, <4>1, Zenon DEF Proof
      <4>3. other \in nonces \/ q.expires <= high
        BY <2>10, <4>2, Zenon DEF Remembered
      <4>4. other \in gone => q.expires <= c.at
        BY <2>1, Zenon
      <4> QED
        BY <1>1, <1>3, <1>6, <2>9, <4>1, <4>3, <4>4 DEF Typed, Reads, Proof
    <3> QED
      BY <3>1, <3>2, Zenon
  <2>11. \A k \in Handlers : calls'[k].step = "read" =>
           calls'[k].proof \in sent /\ calls'[k].session = calls'[k].proof.session
    BY <1>1, <1>3, <1>6 DEF Step, Remembered, Typed, Reads
  <2> QED
    BY <1>4, <2>7, <2>8, <2>10, <2>11, Zenon DEF Remembered
<1> QED
  BY <1>5, <1>6, Zenon

(* Every other step keeps what is remembered.                              *)
LEMMA RememberedStep ==
    ASSUME Bounds, Typed, Remembered, [AccessNext]_accessVars PROVE Remembered'
<1> USE DEF Bounds, Times
<1>1. ASSUME NEW s \in Sessions, Sign(s) PROVE Remembered'
  <2>1. Cardinality(sent) \in Nat /\ Cardinality(sent) + 1 \in Nonces
    BY <1>1, FS_CardinalityType DEF Sign, Typed, Nonces
  <2>2. PICK p : /\ p.nonce = Cardinality(sent) + 1 /\ p.session = s
                 /\ sent' = sent \cup {p}
    BY <1>1, Zenon DEF Sign
  <2>3. p \notin sent
    BY <2>1, <2>2 DEF Remembered, Typed, Proof, Nonces
  <2>4. Cardinality(sent') = Cardinality(sent) + 1
    BY <2>2, <2>3, FS_AddElement, Zenon DEF Typed
  <2>5. answers[p.nonce] = "none"
    BY <2>1, <2>2 DEF Remembered, Typed, Proof, Nonces
  <2>6. UNCHANGED <<sessions, nonces, calls, answers, high>>
    BY <1>1, Zenon DEF Sign
  <2>7. \A q \in sent : q.nonce \in Nat /\ q.nonce < p.nonce
    BY <2>1, <2>2 DEF Remembered, Typed, Proof, Nonces
  <2>8. /\ \A q \in sent' : q.nonce <= Cardinality(sent')
        /\ \A q, r \in sent' : q.nonce = r.nonce => q = r
    BY <2>1, <2>2, <2>4, <2>7 DEF Remembered
  <2> QED
    BY <2>2, <2>5, <2>6, <2>8, Zenon DEF Remembered, SecondAnswerWasOvertaken
<1>2. ASSUME NEW h \in Handlers, Receive(h) PROVE Remembered'
  BY <1>2 DEF Receive, Remembered, SecondAnswerWasOvertaken, Typed
<1>3. ASSUME NEW h \in Handlers, ReadPage(h) PROVE Remembered'
  BY <1>3, ReadOnce, Zenon
<1>4. ASSUME NEW s \in Sessions, DeleteWorkspace(s) PROVE Remembered'
  BY <1>4, Zenon DEF DeleteWorkspace, Remembered, SecondAnswerWasOvertaken
<1>5. ASSUME UNCHANGED <<sent, sessions, nonces, answers, high>>,
             \A h \in Handlers : calls'[h] = calls[h] \/ calls'[h].step # "read"
      PROVE  Remembered'
  BY <1>5, Zenon DEF Remembered, SecondAnswerWasOvertaken
<1>6. CASE Tick \/ UNCHANGED accessVars
  BY <1>5, <1>6, Zenon DEF Tick, accessVars
<1>7. CASE Restart
  BY <1>5, <1>7, Zenon DEF Restart, Idle
<1>8. ASSUME NEW h \in Handlers,
             \/ RecordActivity(h) \/ Authorize(h) \/ PassOn(h) \/ Finish(h)
             \/ RevokeLookup(h) \/ RevokeSubmit(h) \/ RevokeShow(h)
             \/ \E s \in Sessions : RevokeStart(h, s) \/ \E a \in Requests : Arrive(h, s, a)
      PROVE  Remembered'
  <2>1. UNCHANGED <<sent, sessions, nonces, answers, high>>
    BY <1>8, Zenon DEF RecordActivity, Authorize, PassOn, Finish, RevokeLookup, RevokeSubmit,
                RevokeShow, RevokeStart, Arrive
  <2>2. \A k \in Handlers : calls'[k] = calls[k] \/ calls'[k].step # "read"
    BY <1>8 DEF RecordActivity, Authorize, PassOn, Finish, RevokeLookup, RevokeSubmit,
                RevokeShow, RevokeStart, Arrive, Step, Idle, Typed, Reads, Passes,
                Revocations, Answered
  <2> QED
    BY <1>5, <2>1, <2>2, Zenon
<1> QED
  BY <1>1, <1>2, <1>3, <1>4, <1>6, <1>7, <1>8, Zenon DEF AccessNext

(* A signed read is answered once, unless a copy was received before its   *)
(* expiry and its transaction was overtaken by that of a request received  *)
(* after it (peer_changes): for every clock, limit and interleaving.       *)
THEOREM OneUse == ASSUME Bounds PROVE AccessSpec => []SecondAnswerWasOvertaken
<1>1. AccessInit => Remembered
  BY DEF AccessInit, Remembered, SecondAnswerWasOvertaken, Idle
<1>2. Typed /\ Remembered /\ [AccessNext]_accessVars => Remembered'
  BY RememberedStep, Zenon
<1>3. Remembered => SecondAnswerWasOvertaken
  BY Zenon DEF Remembered
<1> QED
  BY <1>1, <1>2, <1>3, AccessTypes, PTL DEF AccessSpec
-------------------------------------------------------------------------------
(* Revocation.  A request that came too late stays refused: its session is *)
(* revoked or gone, and no authentication has let it through.  A call that *)
(* is about to show a device has found or admitted a revocation.           *)
RefusedAt(h) ==
    /\ calls[h].step \in {"read", "authorize"} /\ calls[h].late =>
          calls[h].session \in revokedSessions \/ calls[h].session \notin sessions
    /\ calls[h].step \in {"touch", "authenticated", "served"} => ~calls[h].late
    /\ calls[h].step = "show" =>
          calls[h].session \in revokedSessions \/ calls[h].session \notin sessions
    /\ calls[h].step = "shown" =>
          \/ calls[h].session \notin sessions
          \/ calls[h].view.revoked /\ ~calls[h].view.online

Refused == \A h \in Handlers : RefusedAt(h)

(* Sessions only go, and a revocation goes only with its session.          *)
Fewer == sessions' \subseteq sessions /\ revokedSessions \cap sessions' \subseteq revokedSessions'

(* A handler that does not move stays refused.                             *)
LEMMA RefusedElsewhere ==
    ASSUME NEW h \in Handlers, RefusedAt(h), calls'[h] = calls[h], Fewer PROVE RefusedAt(h)'
  BY Zenon DEF RefusedAt, Fewer

(* What a handler puts in its place, and that it leaves the others alone.  *)
LEMMA Replaces ==
    ASSUME Typed, NEW h \in Handlers, NEW c, calls' = [calls EXCEPT ![h] = c]
    PROVE  calls'[h] = c /\ \A k \in Handlers : k # h => calls'[k] = calls[k]
<1>1. PICK C : calls \in [Handlers -> C]
  BY Zenon DEF Typed
<1> QED
  BY <1>1, Zenon

(* A handler that has ended has nothing to refuse.                         *)
LEMMA Rests ==
    ASSUME Typed, NEW h \in Handlers, calls' = [calls EXCEPT ![h] = Idle]
    PROVE  RefusedAt(h)' /\ \A k \in Handlers : k # h => calls'[k] = calls[k]
<1>1. calls'[h] = Idle /\ \A k \in Handlers : k # h => calls'[k] = calls[k]
  BY Replaces, Zenon
<1>2. calls'[h].step = "idle"
  BY <1>1 DEF Idle
<1> QED
  BY <1>1, <1>2, Zenon DEF RefusedAt

(* A handler that goes on to its next step keeps its session and history.  *)
LEMMA Moves ==
    ASSUME Typed, NEW h \in Handlers, NEW step, Step(h, step),
           calls[h] \in Reads \cup Passes \cup Revocations
    PROVE  /\ calls'[h].step = step
           /\ calls'[h].session = calls[h].session /\ calls'[h].late = calls[h].late
           /\ \A k \in Handlers : k # h => calls'[k] = calls[k]
<1>1. calls' = [calls EXCEPT ![h] = [calls[h] EXCEPT !.step = step]]
  BY Zenon DEF Step
<1>2. calls'[h] = [calls[h] EXCEPT !.step = step]
      /\ \A k \in Handlers : k # h => calls'[k] = calls[k]
  BY <1>1, Replaces, Zenon
<1>3. /\ [calls[h] EXCEPT !.step = step].step = step
      /\ [calls[h] EXCEPT !.step = step].session = calls[h].session
      /\ [calls[h] EXCEPT !.step = step].late = calls[h].late
  BY Zenon DEF Reads, Passes, Revocations
<1> QED
  BY <1>2, <1>3, Zenon

(* A request is stopped, or goes on, in one of its transactions.           *)
LEMMA RefusedServing ==
    ASSUME Typed, NEW h \in Handlers, RefusedAt(h),
           ReadPage(h) \/ RecordActivity(h) \/ Authorize(h) \/ PassOn(h) \/ Finish(h)
    PROVE  RefusedAt(h)' /\ Fewer /\ \A k \in Handlers : k # h => calls'[k] = calls[k]
<1>1. UNCHANGED <<sessions, revokedSessions>>
  BY Zenon DEF ReadPage, RecordActivity, Authorize, PassOn, Finish
<1>2. Fewer
  BY <1>1, Zenon DEF Fewer
<1>3. CASE calls' = [calls EXCEPT ![h] = Idle]
  BY <1>2, <1>3, Rests, Zenon
<1>4. CASE ReadPage(h) /\ Step(h, "touch")
  <2>1. calls[h].step = "read" /\ calls[h] \in Reads
    <3>1. calls[h].step = "read"
      BY <1>4, Zenon DEF ReadPage
    <3> QED
      BY <3>1, CallKinds, Zenon
  <2>2. calls' # [calls EXCEPT ![h] = Idle]
        => calls[h].session \in sessions /\ calls[h].session \notin revokedSessions
    BY <1>4, Zenon DEF ReadPage, Admissible, authorize_capability_action
  <2> QED
    BY <1>2, <1>3, <1>4, <2>1, <2>2, Moves DEF RefusedAt
<1>5. CASE RecordActivity(h)
  <2>1. calls[h].step = "touch" /\ Step(h, "served")
    BY <1>5, Zenon DEF RecordActivity
  <2>2. calls[h] \in Reads
    BY <2>1, CallKinds, Zenon
  <2> QED
    BY <1>2, <2>1, <2>2, Moves DEF RefusedAt
<1>6. CASE Authorize(h) /\ Step(h, "authenticated")
  <2>1. calls[h].step = "authorize" /\ calls[h] \in Passes
    <3>1. calls[h].step = "authorize"
      BY <1>6, Zenon DEF Authorize
    <3> QED
      BY <3>1, CallKinds, Zenon
  <2>2. calls' # [calls EXCEPT ![h] = Idle]
        => calls[h].session \in sessions /\ calls[h].session \notin revokedSessions
    BY <1>6, Zenon DEF Authorize, authorize_capability_action
  <2> QED
    BY <1>2, <1>3, <1>6, <2>1, <2>2, Moves DEF RefusedAt
<1>7. CASE PassOn(h) /\ Step(h, "served")
  <2>1. calls[h].step = "authenticated" /\ calls[h] \in Passes
    <3>1. calls[h].step = "authenticated"
      BY <1>7, Zenon DEF PassOn
    <3> QED
      BY <3>1, CallKinds, Zenon
  <2> QED
    BY <1>2, <1>7, <2>1, Moves DEF RefusedAt
<1> QED
  BY <1>3, <1>4, <1>5, <1>6, <1>7, Zenon DEF ReadPage, Authorize, PassOn, Finish

(* The steps of a revocation.                                              *)
LEMMA RefusedRevoking ==
    ASSUME Typed, NEW h \in Handlers, RefusedAt(h),
           RevokeLookup(h) \/ RevokeSubmit(h) \/ RevokeShow(h)
    PROVE  RefusedAt(h)' /\ Fewer /\ \A k \in Handlers : k # h => calls'[k] = calls[k]
<1>1. calls[h] \in Revocations
  BY CallKinds, Zenon DEF RevokeLookup, RevokeSubmit, RevokeShow
<1>2. Fewer
  BY Zenon DEF RevokeLookup, RevokeSubmit, RevokeShow, Fewer
<1>3. CASE RevokeLookup(h)
  <2>1. /\ UNCHANGED <<sessions, revokedSessions>>
        /\ Step(h, IF calls[h].session \in revokedSessions THEN "show" ELSE "submit")
    BY <1>3, Zenon DEF RevokeLookup
  <2> QED
    BY <1>1, <1>2, <2>1, Moves DEF RefusedAt
<1>4. CASE RevokeSubmit(h)
  <2>1. CASE calls' = [calls EXCEPT ![h] = Idle]
    BY <1>2, <2>1, Rests, Zenon
  <2>2. CASE Step(h, "show") /\ revokedSessions' = revokedSessions \cup {calls[h].session}
    BY <1>1, <1>2, <2>2, Moves DEF RefusedAt
  <2> QED
    BY <1>4, <2>1, <2>2, Zenon DEF RevokeSubmit
<1>5. CASE RevokeShow(h)
  <2> DEFINE c == [step |-> "shown", session |-> calls[h].session, at |-> calls[h].at,
                   late |-> FALSE,
                   view |-> device_view(calls[h].session, calls[h].seen, calls[h].at)]
  <2>1. /\ calls' = [calls EXCEPT ![h] = c] /\ calls[h].step = "show"
        /\ UNCHANGED <<sessions, revokedSessions>>
    BY <1>5, Zenon DEF RevokeShow
  <2>2. /\ c.step = "shown" /\ c.session = calls[h].session
        /\ calls[h].session \in revokedSessions => c.view.revoked /\ ~c.view.online
    BY Zenon DEF device_view
  <2> HIDE DEF c
  <2>3. calls'[h] = c /\ \A k \in Handlers : k # h => calls'[k] = calls[k]
    BY <2>1, Replaces, Zenon
  <2>4. /\ calls'[h].step = "shown" /\ calls'[h].session = calls[h].session
        /\ calls[h].session \in revokedSessions =>
              calls'[h].view.revoked /\ ~calls'[h].view.online
    BY <2>2, <2>3, Zenon
  <2>5. calls[h].session \in revokedSessions \/ calls[h].session \notin sessions
    BY <2>1, Zenon DEF RefusedAt
  <2>6. \/ calls'[h].session \notin sessions'
        \/ calls'[h].view.revoked /\ ~calls'[h].view.online
    <3>1. sessions' = sessions /\ calls'[h].session = calls[h].session
      BY <2>1, <2>4, Zenon
    <3>2. CASE calls[h].session \in revokedSessions
      BY <2>4, <3>2, Zenon
    <3>3. CASE calls[h].session \notin sessions
      BY <3>1, <3>3, Zenon
    <3> QED
      BY <2>5, <3>2, <3>3, Zenon
  <2>7. RefusedAt(h)'
    BY <2>4, <2>6, Zenon DEF RefusedAt
  <2> QED
    BY <1>2, <2>3, <2>7, Zenon
<1> QED
  BY <1>3, <1>4, <1>5, Zenon

(* A request that arrives is late exactly if its grant is revoked.         *)
LEMMA RefusedArrival ==
    ASSUME Typed, NEW h \in Handlers,
           \/ Receive(h)
           \/ \E s \in Sessions : RevokeStart(h, s) \/ \E a \in Requests : Arrive(h, s, a)
    PROVE  RefusedAt(h)' /\ Fewer /\ \A k \in Handlers : k # h => calls'[k] = calls[k]
<1>1. UNCHANGED <<sessions, revokedSessions>>
  BY Zenon DEF Receive, RevokeStart, Arrive
<1>2. Fewer
  BY <1>1, Zenon DEF Fewer
<1> DEFINE Arrived(c) ==
             /\ calls' = [calls EXCEPT ![h] = c]
             /\ \/ c.step = "lookup"
                \/ c.step \in {"read", "authorize"} /\ (c.late => c.session \in revokedSessions)
<1>3. \E c : Arrived(c)
  <2>1. CASE Receive(h)
    <3>1. PICK p \in sent :
            calls' = [calls EXCEPT ![h] = [step |-> "read", session |-> p.session, proof |-> p,
                                           at |-> now, late |-> p.session \in revokedSessions]]
      BY <2>1, Zenon DEF Receive, Late
    <3> DEFINE c == [step |-> "read", session |-> p.session, proof |-> p,
                     at |-> now, late |-> p.session \in revokedSessions]
    <3>2. calls' = [calls EXCEPT ![h] = c]
      BY <3>1, Zenon
    <3>3. c.step = "read" /\ (c.late => c.session \in revokedSessions)
      BY Zenon
    <3> HIDE DEF c
    <3> QED
      BY <3>2, <3>3, Zenon
  <2>2. ASSUME NEW s \in Sessions, RevokeStart(h, s) PROVE \E c : Arrived(c)
    <3> DEFINE c == [step |-> "lookup", session |-> s, at |-> now, seen |-> lastSeen[s],
                     late |-> FALSE]
    <3>1. calls' = [calls EXCEPT ![h] = c]
      BY <2>2, Zenon DEF RevokeStart
    <3>2. c.step = "lookup"
      BY Zenon
    <3> HIDE DEF c
    <3> QED
      BY <3>1, <3>2, Zenon
  <2>3. ASSUME NEW s \in Sessions, NEW a \in Requests, Arrive(h, s, a) PROVE \E c : Arrived(c)
    <3> DEFINE c == [step |-> "authorize", session |-> s, action |-> a, at |-> now,
                     late |-> s \in revokedSessions]
    <3>1. calls' = [calls EXCEPT ![h] = c]
      BY <2>3, Zenon DEF Arrive, Late
    <3>2. c.step = "authorize" /\ (c.late => c.session \in revokedSessions)
      BY Zenon
    <3> HIDE DEF c
    <3> QED
      BY <3>1, <3>2, Zenon
  <2> HIDE DEF Arrived
  <2> QED
    BY <2>1, <2>2, <2>3, Zenon
<1> QED
  BY <1>1, <1>2, <1>3, Replaces, Zenon DEF RefusedAt

(* Every step keeps the refusals.                                          *)
LEMMA RefusedStep == ASSUME Typed, Refused, [AccessNext]_accessVars PROVE Refused'
<1>1. CASE Tick \/ UNCHANGED accessVars \/ \E s \in Sessions : Sign(s) \/ DeleteWorkspace(s)
  <2>1. UNCHANGED calls /\ Fewer
    BY <1>1, Zenon DEF Tick, accessVars, Sign, DeleteWorkspace, Fewer
  <2> QED
    BY <2>1, RefusedElsewhere, Zenon DEF Refused
<1>2. CASE Restart
  BY <1>2, Zenon DEF Restart, Refused, RefusedAt, Idle
<1>3. ASSUME NEW h \in Handlers,
             RefusedAt(h)' /\ Fewer /\ \A k \in Handlers : k # h => calls'[k] = calls[k]
      PROVE  Refused'
  BY <1>3, RefusedElsewhere, Zenon DEF Refused
<1>4. \A h \in Handlers : RefusedAt(h)
  BY Zenon DEF Refused
<1> QED
  BY <1>1, <1>2, <1>3, <1>4, RefusedServing, RefusedRevoking, RefusedArrival, Zenon DEF AccessNext

(* No request that arrived after the revocation of its grant is served,    *)
(* and a revocation is answered with a revoked device, whatever the other  *)
(* handlers do between the transactions of one (authenticate,              *)
(* peer_changes, revoke_paired_device).                                    *)
THEOREM RevocationHolds ==
    ASSUME Bounds PROVE AccessSpec => [](RevokedIsNotServed /\ RevokeAnswersRevoked)
<1>1. AccessInit => Refused
  BY DEF AccessInit, Refused, RefusedAt, Idle
<1>2. Typed /\ Refused /\ [AccessNext]_accessVars => Refused'
  BY RefusedStep, Zenon
<1>3. Refused => RevokedIsNotServed /\ RevokeAnswersRevoked
  BY Zenon DEF Refused, RefusedAt, RevokedIsNotServed, RevokeAnswersRevoked
<1> QED
  BY <1>1, <1>2, <1>3, AccessTypes, PTL DEF AccessSpec
-------------------------------------------------------------------------------
(* The replay capacity, and the time a device was last seen.               *)

(* A read adds a row to at most as many as its own reading counts, and no  *)
(* later reading counts more.                                              *)
LEMMA BoundedRead ==
    ASSUME Bounds, Typed, ActiveNoncesAreBounded, NEW h \in Handlers, ReadPage(h)
    PROVE  ActiveNoncesAreBounded'
<1> USE DEF Bounds, Times
<1> DEFINE c == calls[h]
           row == [session |-> c.session, nonce |-> c.proof.nonce, expires |-> c.proof.expires]
<1>1. c \in Reads
  BY CallKinds, Zenon DEF ReadPage
<1>2. PICK gone \in SUBSET nonces :
        IF Admissible(c, nonces \ gone)
        THEN /\ nonces' = (nonces \ gone) \cup {row}
             /\ high' = IF c.at > high THEN c.at ELSE high
        ELSE UNCHANGED <<nonces, high>>
  BY Zenon DEF ReadPage
<1>3. CASE ~Admissible(c, nonces \ gone)
  BY <1>2, <1>3, Zenon DEF ActiveNoncesAreBounded, Active
<1>4. CASE Admissible(c, nonces \ gone)
  <2>1. nonces' = (nonces \ gone) \cup {row} /\ high <= high' /\ c.at <= high'
    BY <1>1, <1>2, <1>4 DEF Typed, Reads
  <2>2. \A r \in nonces : r.expires \in Int
    BY DEF Typed
  <2>3. high \in Int /\ high' \in Int /\ c.at \in Int
    BY <1>1, <1>2, <1>4 DEF Typed, Reads
  <2> SUFFICES ASSUME NEW s \in Sessions
               PROVE  Cardinality(Active(s, nonces', high'))
                        <= MAX_ACTIVE_PEER_NONCES_PER_SESSION
    BY Zenon DEF ActiveNoncesAreBounded
  <2>4. CASE s = c.session
    <3> DEFINE A == Active(s, nonces \ gone, c.at)
    <3>1. A \subseteq nonces /\ IsFiniteSet(nonces)
      BY Zenon DEF Active, Typed
    <3>2. IsFiniteSet(A)
      BY <3>1, FS_Subset, Zenon
    <3>3. Cardinality(A) < MAX_ACTIVE_PEER_NONCES_PER_SESSION
      BY <1>4, <2>4, Zenon DEF Admissible, BelowLimit
    <3>4. Active(s, nonces', high') \subseteq A \cup {row}
      BY <2>1, <2>2, <2>3 DEF Active
    <3> HIDE DEF A, row
    <3>5. IsFiniteSet(A \cup {row}) /\ Cardinality(A \cup {row}) <= Cardinality(A) + 1
      <4>1. Cardinality(A) \in Nat
        BY <3>2, FS_CardinalityType, Zenon
      <4>2. /\ IsFiniteSet(A \cup {row})
            /\ \/ Cardinality(A \cup {row}) = Cardinality(A)
               \/ Cardinality(A \cup {row}) = Cardinality(A) + 1
        BY <3>2, FS_AddElement, Zenon
      <4> QED
        BY <4>1, <4>2
    <3>6. /\ Cardinality(Active(s, nonces', high')) <= Cardinality(A \cup {row})
          /\ Cardinality(Active(s, nonces', high')) \in Nat
      BY <3>4, <3>5, FS_Subset, FS_CardinalityType, Zenon
    <3>7. Cardinality(A) \in Nat /\ Cardinality(A \cup {row}) \in Nat
      BY <3>2, <3>5, FS_CardinalityType, Zenon
    <3> QED
      BY <3>3, <3>5, <3>6, <3>7
  <2>5. CASE s # c.session
    <3>1. Active(s, nonces, high) \subseteq nonces /\ IsFiniteSet(nonces)
      BY Zenon DEF Active, Typed
    <3>2. IsFiniteSet(Active(s, nonces, high))
      BY <3>1, FS_Subset, Zenon
    <3>3. Active(s, nonces', high') \subseteq Active(s, nonces, high)
      BY <2>1, <2>2, <2>3, <2>5 DEF Active
    <3>4. /\ Cardinality(Active(s, nonces', high')) <= Cardinality(Active(s, nonces, high))
          /\ Cardinality(Active(s, nonces', high')) \in Nat
          /\ Cardinality(Active(s, nonces, high)) \in Nat
      BY <3>2, <3>3, FS_Subset, FS_CardinalityType, Zenon
    <3> QED
      BY <3>4 DEF ActiveNoncesAreBounded
  <2> QED
    BY <2>4, <2>5, Zenon
<1> QED
  BY <1>3, <1>4, Zenon

(* The rows of a session that are still active never exceed its capacity,  *)
(* at the latest reading any read has used (peer_changes).                 *)
THEOREM CapacityHolds == ASSUME Bounds PROVE AccessSpec => []ActiveNoncesAreBounded
<1>1. AccessInit => ActiveNoncesAreBounded
  <2>1. Cardinality({}) = 0
    BY FS_EmptySet, Zenon
  <2>2. AccessInit => \A s \in Sessions : Active(s, nonces, high) = {}
    BY Zenon DEF AccessInit, Active
  <2> QED
    BY <2>1, <2>2 DEF ActiveNoncesAreBounded, Bounds
<1>2. ASSUME Typed, ActiveNoncesAreBounded, [AccessNext]_accessVars PROVE ActiveNoncesAreBounded'
  <2>1. ASSUME NEW h \in Handlers, ReadPage(h) PROVE ActiveNoncesAreBounded'
    BY <1>2, <2>1, BoundedRead, Zenon
  <2>2. ASSUME NEW t \in Sessions, DeleteWorkspace(t) PROVE ActiveNoncesAreBounded'
    <3>1. nonces' \subseteq nonces /\ high' = high
      BY <2>2, Zenon DEF DeleteWorkspace
    <3> SUFFICES ASSUME NEW s \in Sessions
                 PROVE  Cardinality(Active(s, nonces', high))
                          <= MAX_ACTIVE_PEER_NONCES_PER_SESSION
      BY <3>1, Zenon DEF ActiveNoncesAreBounded
    <3>2. /\ Active(s, nonces', high) \subseteq Active(s, nonces, high)
          /\ Active(s, nonces, high) \subseteq nonces /\ IsFiniteSet(nonces)
      BY <1>2, <3>1, Zenon DEF Active, Typed
    <3>3. IsFiniteSet(Active(s, nonces, high))
      BY <3>2, FS_Subset, Zenon
    <3>4. /\ Cardinality(Active(s, nonces', high)) <= Cardinality(Active(s, nonces, high))
          /\ Cardinality(Active(s, nonces', high)) \in Nat
          /\ Cardinality(Active(s, nonces, high)) \in Nat
      BY <3>2, <3>3, FS_Subset, FS_CardinalityType, Zenon
    <3> QED
      BY <1>2, <3>4 DEF ActiveNoncesAreBounded, Bounds
  <2>3. CASE UNCHANGED <<nonces, high>>
    BY <1>2, <2>3, Zenon DEF ActiveNoncesAreBounded, Active
  <2> QED
    BY <1>2, <2>1, <2>2, <2>3, Zenon
    DEF AccessNext, accessVars, Tick, Restart, Sign, Receive, RecordActivity, Authorize,
        PassOn, Finish, RevokeLookup, RevokeSubmit, RevokeShow, RevokeStart, Arrive
<1> QED
  BY <1>1, <1>2, AccessTypes, PTL DEF AccessSpec

(* The time a device was last seen never goes back while its session       *)
(* exists, although handlers note the readings of their own arrival in any *)
(* order (touch_pairing_session).                                          *)
THEOREM SeenAdvances == ASSUME Bounds PROVE AccessSpec => LastSeenOnlyAdvances
<1> DEFINE Advance == \A s \in sessions \cap sessions' : lastSeen'[s] >= lastSeen[s]
<1>1. ASSUME Typed, [AccessNext]_accessVars PROVE [Advance]_accessVars
  <2> USE DEF Bounds, Times, Never
  <2>1. lastSeen \in [Sessions -> Int] /\ sessions \subseteq Sessions
    BY <1>1 DEF Typed
  <2>2. ASSUME NEW h \in Handlers, RecordActivity(h) \/ PassOn(h) PROVE Advance
    <3>1. calls[h] \in Reads \cup Passes
      <4>1. calls[h].step \in {"touch", "authenticated"}
        BY <2>2, Zenon DEF RecordActivity, PassOn
      <4> QED
        BY <1>1, <4>1, CallKinds, Zenon
    <3>2. calls[h].at \in Int /\ calls[h].session \in Sessions
      BY <3>1 DEF Reads, Passes
    <3>3. lastSeen' \in {lastSeen, Touched(calls[h].session, calls[h].at)}
      BY <2>2, Zenon DEF RecordActivity, PassOn
    <3> QED
      BY <2>1, <3>2, <3>3 DEF Touched
  <2>3. ASSUME NEW t \in Sessions, DeleteWorkspace(t) PROVE Advance
    <3>1. \A u \in sessions \cap sessions' : lastSeen'[u] = lastSeen[u]
      BY <2>1, <2>3, Zenon DEF DeleteWorkspace
    <3> QED
      BY <2>1, <3>1
  <2>4. CASE UNCHANGED lastSeen
    BY <2>1, <2>4
  <2> QED
    BY <1>1, <2>2, <2>3, <2>4, Zenon
    DEF AccessNext, accessVars, Tick, Restart, Sign, Receive, ReadPage,
       Authorize, Finish, RevokeLookup, RevokeSubmit, RevokeShow, RevokeStart, Arrive
<1>2. Typed /\ [AccessNext]_accessVars => [Advance]_accessVars
  BY <1>1, Zenon
<1> HIDE DEF Advance
<1>3. AccessSpec => [][Advance]_accessVars
  BY <1>2, AccessTypes, PTL DEF AccessSpec
<1> QED
  BY <1>3, PTL DEF LastSeenOnlyAdvances, Advance

-------------------------------------------------------------------------------
(* The log.                                                                *)

InTrustedSpace == \A o \in Admitted : genesis[SpaceOf[o]] # NoOp

BelowHighWater == \A o \in Ops : seq[o] <= lastSeq

VisibilityTableAgrees ==
    \A o \in Admitted : IsClientOp(o) /\ Declared[o] # NoVisibility =>
        visibility[EntityKey(o)] = Declared[o]

RevocationsRecorded ==
    \A v \in Admitted : IsRevoke(v) =>
        /\ RevokedBy[v] \in revoked /\ IsGrant(RevokedBy[v])
        /\ SpaceOf[RevokedBy[v]] = SpaceOf[v]

LogInv ==
    /\ TypeOK
    /\ InTrustedSpace
    /\ BelowHighWater
    /\ AdmittedInCausalOrder
    /\ HeadsAreTheFrontier
    /\ OneRootPerEntity
    /\ VisibilityTableAgrees
    /\ ReceiptsFollowOrder
    /\ RevocationsRecorded
    /\ NothingAfterRevocation

(* How the next two rows' sequence numbers compare with the high water     *)
(* mark n and with a number m it bounds.                                   *)
LEMMA NextRows ==
    \A n \in Nat :
        /\ n + 1 \in Nat /\ n + 2 \in Nat /\ n + 1 < n + 2
        /\ n + 1 <= n + 2 /\ n + 2 <= n + 2 /\ ~(n + 1 < n + 1)
        /\ \A m \in Nat : (m <= n => m <= n + 2) /\ (m < n + 1 => ~(n + 1 < m))
  OBVIOUS

USE GraphAssumption, NodeAssumption

(* The tables of an empty node satisfy the invariant.                      *)
LEMMA InitEstablishesLogInv == Init => LogInv
<1> SUFFICES ASSUME Init PROVE LogInv BY Zenon
<1> USE DEF Init
<1>1. TypeOK BY DEF TypeOK
<1>2. Admitted = {} BY DEF Admitted
<1>3. HeadsAreTheFrontier BY <1>2, Zenon DEF HeadsAreTheFrontier, MaximalOf
<1>4. BelowHighWater BY DEF BelowHighWater
<1> QED BY <1>1, <1>2, <1>3, <1>4, Zenon DEF LogInv, InTrustedSpace,
        AdmittedInCausalOrder, OneRootPerEntity, VisibilityTableAgrees,
        ReceiptsFollowOrder, RevocationsRecorded, NothingAfterRevocation

(* The clock a request uses is a natural number no smaller than the clock. *)
LEMMA EffectiveTimeType ==
    ASSUME TypeOK
    PROVE  EffectiveTime \in Nat /\ clock <= EffectiveTime /\ EffectiveTime <= EffectiveTime
BY DEF TypeOK, EffectiveTime, Later

(* submit_operation of an admissible operation preserves the invariant.    *)
LEMMA SubmitPreserves ==
    ASSUME LogInv, NEW o \in Ops, Submit(o), CanAdmit(o)
    PROVE  LogInv'
<1> USE DEF LogInv
<1>0. InsertOperation(o) /\ genesis[SpaceOf[o]] # NoOp /\ ~IsGenesis(o)
      /\ clock' = EffectiveTime /\ genesis' = genesis /\ wall' = wall
      /\ deletions' = deletions
  BY Zenon DEF Submit, AdvanceClock
<1>t. EffectiveTime \in Nat /\ clock <= EffectiveTime /\ EffectiveTime <= EffectiveTime
  BY EffectiveTimeType, Zenon
<1>1. o \notin Admitted /\ seq[o] = 0
  BY DEF CanAdmit, Admitted, TypeOK
<1>2. /\ seq' = [seq EXCEPT ![o] = lastSeq + 1] /\ lastSeq' = lastSeq + 1
      /\ received' = [received EXCEPT ![o] = EffectiveTime]
      /\ heads' = NextHeads(o, heads)
  BY <1>0, Zenon DEF InsertOperation
<1>3. Admitted' = Admitted \cup {o}
  BY <1>2 DEF Admitted, TypeOK
<1>4. \A q \in Admitted : seq'[q] = seq[q] /\ received'[q] = received[q]
                          /\ q # o /\ q \in Ops /\ seq[q] \in Nat
  BY <1>1, <1>2, Zenon DEF Admitted, TypeOK
<1>5. seq'[o] = lastSeq + 1 /\ received'[o] = EffectiveTime
  BY <1>2, Zenon DEF TypeOK
<1>6. \A q \in Admitted : seq[q] < lastSeq + 1
  BY DEF BelowHighWater, Admitted, TypeOK
<1>7. \A r \in Refs(o) : r \in Admitted /\ SpaceOf[r] = SpaceOf[o]
  BY Zenon DEF CanAdmit, ValidReferences
<1>8. EntityKey(o) \in Spaces \X Entities
  BY Zenon DEF EntityKey
<1>9. TypeOK'
  BY <1>0, <1>t, <1>2, <1>8 DEF TypeOK, InsertOperation, NextHeads
<1>10. InTrustedSpace'
  BY <1>0, <1>3, Zenon DEF InTrustedSpace
<1>11. BelowHighWater'
  BY <1>2 DEF BelowHighWater, TypeOK
<1>12. AdmittedInCausalOrder'
  BY <1>3, <1>4, <1>5, <1>6, <1>7 DEF AdmittedInCausalOrder
<1>13. HeadsAreTheFrontier'
  <2>1. o \notin Parents[o] BY <1>1, <1>7, Zenon DEF Refs
  <2>2. \A q \in Admitted : o \notin Parents[q]
    BY <1>1, Zenon DEF AdmittedInCausalOrder, Refs
  <2> QED BY <1>2, <1>3, <2>1, <2>2 DEF HeadsAreTheFrontier, MaximalOf, NextHeads
<1>14. OneRootPerEntity'
  <2>1. \A q \in Admitted : SameEntity(o, q) => Parents[o] # {}
    BY Zenon DEF CanAdmit, ValidTopology
  <2>2. \A q \in Admitted : SameEntity(q, o) => Parents[o] # {}
    BY <2>1, Zenon DEF SameEntity
  <2> QED BY <1>3, <2>1, <2>2 DEF OneRootPerEntity
<1>15. VisibilityTableAgrees'
  <2>1. \A q \in Admitted : EntityKey(q) = EntityKey(o) => Parents[o] # {}
    BY Zenon DEF CanAdmit, ValidTopology, SameEntity, EntityKey
  <2>2. \A q \in Ops : EntityKey(q) \in Spaces \X Entities
    BY Zenon DEF EntityKey
  <2>3. visibility' = IF IsClientOp(o) /\ Parents[o] = {} /\ Declared[o] # NoVisibility
                      THEN [visibility EXCEPT ![EntityKey(o)] = Declared[o]]
                      ELSE visibility
    BY <1>0, Zenon DEF InsertOperation
  <2>4. ASSUME NEW q \in Admitted, IsClientOp(q), Declared[q] # NoVisibility
        PROVE  visibility'[EntityKey(q)] = Declared[q]
    BY <2>1, <2>2, <2>3, <2>4, <1>4, Zenon DEF VisibilityTableAgrees, TypeOK
  <2>5. ASSUME IsClientOp(o), Declared[o] # NoVisibility
        PROVE  visibility'[EntityKey(o)] = Declared[o]
    <3>1. CASE Parents[o] = {} BY <2>3, <2>5, <3>1, <1>8, Zenon DEF TypeOK
    <3>2. CASE Parents[o] # {}
      BY <2>3, <2>5, <3>2, Zenon DEF CanAdmit, VisibilityAllowed
    <3> QED BY <3>1, <3>2, Zenon
  <2> QED BY <1>3, <2>4, <2>5, Zenon DEF VisibilityTableAgrees, EntityKey, IsClientOp
<1>16. ReceiptsFollowOrder'
  <2>1. \A q \in Admitted : received[q] \in Nat /\ received[q] <= EffectiveTime
    BY <1>t, <1>4 DEF ReceiptsFollowOrder, TypeOK
  <2>2. ASSUME NEW p \in Admitted, NEW q \in Admitted, seq'[p] < seq'[q]
        PROVE  received'[p] <= received'[q]
    BY <1>4, <2>2, Zenon DEF ReceiptsFollowOrder
  <2>3. ASSUME NEW p \in Admitted
        PROVE  received'[p] <= received'[o] /\ ~(seq'[o] < seq'[p])
    <3>1. received'[p] <= received'[o] BY <1>4, <1>5, <2>1, Zenon
    <3>2. seq'[p] = seq[p] /\ seq[p] \in Nat /\ seq[p] < lastSeq + 1 BY <1>4, <1>6, Zenon
    <3>3. lastSeq \in Nat BY Zenon DEF TypeOK
    <3>4. ~(lastSeq + 1 < seq[p]) BY <3>2, <3>3, NextRows, Zenon
    <3> QED BY <1>5, <3>1, <3>2, <3>4, Zenon
  <2>4. ~(seq'[o] < seq'[o]) BY <1>5, NextRows, Zenon DEF TypeOK
  <2>5. ASSUME NEW p \in Admitted' PROVE received'[p] <= clock'
    <3>1. clock' = EffectiveTime BY <1>0, Zenon
    <3>2. CASE p = o BY <1>t, <1>5, <3>1, <3>2, Zenon
    <3>3. CASE p \in Admitted BY <1>4, <2>1, <3>1, <3>3, Zenon
    <3> QED BY <1>3, <3>2, <3>3, Zenon
  <2> QED BY <1>3, <2>2, <2>3, <2>4, <2>5, Zenon DEF ReceiptsFollowOrder
<1>17. RevocationsRecorded'
  <2>1. revoked' = IF IsRevoke(o) THEN revoked \cup {RevokedBy[o]} ELSE revoked
    BY <1>0, Zenon DEF InsertOperation
  <2> QED BY <1>3, <2>1, Zenon DEF RevocationsRecorded, CanAdmit, ValidRevocation,
             IsRevoke, IsGrant
<1>18. NothingAfterRevocation'
  <2>1. \A a \in Chain(o) \ {o} : IsGrant(a) => a \notin revoked
    BY Zenon DEF CanAdmit, Authorized, LiveAuthority, IsGrant, IsGenesis
  <2>2. ASSUME NEW v \in Admitted, IsRevoke(v), RevokedBy[v] \in Chain(o) \ {o}
        PROVE  FALSE
    BY <2>1, <2>2, Zenon DEF RevocationsRecorded
  <2>3. \A q, v \in Admitted :
           ~IsGenesis(q) /\ IsRevoke(v) /\ v # q /\ RevokedBy[v] \in Chain(q) \ {q}
               => seq'[q] < seq'[v]
    BY <1>4, Zenon DEF NothingAfterRevocation
  <2>4. ASSUME NEW q \in Admitted PROVE seq'[q] < seq'[o]
    <3>1. seq'[q] = seq[q] /\ seq[q] < lastSeq + 1 BY <1>4, <1>6, Zenon
    <3> QED BY <1>5, <3>1, Zenon
  <2>5. NothingAfterRevocation' <=>
          \A q, v \in Admitted' :
             ~IsGenesis(q) /\ IsRevoke(v) /\ v # q /\ RevokedBy[v] \in Chain(q) \ {q}
               => seq'[q] < seq'[v]
    BY Zenon DEF NothingAfterRevocation, IsGenesis, IsRevoke, Chain, Chains, ClosedSets
  <2> QED BY <1>3, <2>2, <2>3, <2>4, <2>5, Zenon
<1> QED BY <1>9, <1>10, <1>11, <1>12, <1>13, <1>14, <1>15, <1>16, <1>17, <1>18, Zenon

(* The first bootstrap of a space preserves the invariant: the space has   *)
(* no operation yet, so the two new ones are the frontier of two new       *)
(* entities and no revocation concerns them.                               *)
LEMMA BootstrapPreserves ==
    ASSUME LogInv, NEW g \in Ops, NEW c \in Ops, Bootstrap(g, c),
           genesis[SpaceOf[g]] = NoOp, Authorized(c, NoVisibility, g, EffectiveTime)
    PROVE  LogInv'
<1> USE DEF LogInv
<1>0. /\ IsGenesis(g) /\ IsGrant(c) /\ SpaceOf[c] = SpaceOf[g]
      /\ EntityOf[c] # EntityOf[g] /\ Authorization[c] = {g} /\ Parents[c] = {}
      /\ Refs(g) = {} /\ Parents[g] = {}
  BY Zenon DEF Bootstrap, IsBootstrap, Refs
<1>1. /\ clock' = EffectiveTime
      /\ genesis' = [genesis EXCEPT ![SpaceOf[g]] = g]
      /\ lastSeq' = lastSeq + 2
      /\ seq' = [seq EXCEPT ![g] = lastSeq + 1, ![c] = lastSeq + 2]
      /\ received' = [received EXCEPT ![g] = EffectiveTime, ![c] = EffectiveTime]
      /\ heads' = heads \cup {g, c}
      /\ visibility' = visibility /\ revoked' = revoked
      /\ wall' = wall /\ deletions' = deletions
  BY Zenon DEF Bootstrap, AdvanceClock
<1>t. EffectiveTime \in Nat /\ clock <= EffectiveTime /\ EffectiveTime <= EffectiveTime
  BY EffectiveTimeType, Zenon
<1>2. g # c /\ ~IsRevoke(g) /\ ~IsRevoke(c) /\ ~IsClientOp(g) /\ ~IsClientOp(c)
      /\ ~IsGenesis(c)
  BY <1>0, Zenon DEF IsGenesis, IsGrant, IsRevoke, IsClientOp, ClientSchemas
<1>3. \A q \in Admitted : SpaceOf[q] # SpaceOf[g]
  BY Zenon DEF InTrustedSpace
<1>4. g \notin Admitted /\ c \notin Admitted
  BY <1>0, <1>3, Zenon
<1>5. seq'[g] = lastSeq + 1 /\ seq'[c] = lastSeq + 2
      /\ received'[g] = EffectiveTime /\ received'[c] = EffectiveTime
  BY <1>1, <1>2, Zenon DEF TypeOK
<1>6. \A q \in Ops : q # g /\ q # c => seq'[q] = seq[q] /\ received'[q] = received[q]
  BY <1>1, Zenon DEF TypeOK
<1>7. Admitted' = Admitted \cup {g, c}
  BY <1>5, <1>6 DEF Admitted, TypeOK
<1>8. \A q \in Admitted : /\ q \in Ops /\ seq'[q] = seq[q] /\ received'[q] = received[q]
                          /\ seq[q] < lastSeq + 1 /\ seq[q] \in Nat /\ received[q] \in Nat
  BY <1>4, <1>6 DEF Admitted, BelowHighWater, TypeOK
<1>9. TypeOK'
  <2>0. lastSeq + 1 \in Nat /\ lastSeq + 2 \in Nat BY NextRows, Zenon DEF TypeOK
  <2>1. seq' \in [Ops -> Nat] /\ lastSeq' \in Nat
    BY <1>1, <2>0, Zenon DEF TypeOK
  <2>2. received' \in [Ops -> Nat] BY <1>1, <1>t, Zenon DEF TypeOK
  <2>3. genesis' \in [Spaces -> Ops \cup {NoOp}] BY <1>1, Zenon DEF TypeOK
  <2> QED BY <1>1, <1>t, <2>1, <2>2, <2>3, Zenon DEF TypeOK
<1>10. InTrustedSpace'
  BY <1>0, <1>1, <1>3, <1>7, Zenon DEF InTrustedSpace, TypeOK, Admitted
<1>11. BelowHighWater'
  <2>0. lastSeq \in Nat /\ lastSeq' = lastSeq + 2 BY <1>1, Zenon DEF TypeOK
  <2>1. seq'[g] <= lastSeq' /\ seq'[c] <= lastSeq' BY <1>5, <2>0, NextRows, Zenon
  <2>2. ASSUME NEW q \in Ops, q # g, q # c PROVE seq'[q] <= lastSeq'
    <3>1. seq'[q] = seq[q] /\ seq[q] <= lastSeq BY <1>6, <2>2, Zenon DEF BelowHighWater
    <3>2. seq[q] \in Nat BY Zenon DEF TypeOK
    <3> QED BY <2>0, <3>1, <3>2, NextRows, Zenon
  <2> QED BY <2>1, <2>2, Zenon DEF BelowHighWater
<1>12. AdmittedInCausalOrder'
  <2>1. \A r \in Refs(c) : r = g BY <1>0, Zenon DEF Refs
  <2>2. lastSeq + 1 < lastSeq + 2 BY NextRows, Zenon DEF TypeOK
  <2>3. \A r \in Refs(c) : r \in Admitted' /\ seq'[r] < seq'[c] /\ SpaceOf[r] = SpaceOf[c]
    BY <1>0, <1>5, <1>7, <2>1, <2>2, Zenon
  <2>4. ASSUME NEW q \in Admitted, NEW r \in Refs(q)
        PROVE  r \in Admitted' /\ seq'[r] < seq'[q] /\ SpaceOf[r] = SpaceOf[q]
    <3>1. r \in Admitted /\ seq[r] < seq[q] /\ SpaceOf[r] = SpaceOf[q]
      BY <2>4, Zenon DEF AdmittedInCausalOrder
    <3>2. seq'[r] = seq[r] /\ seq'[q] = seq[q] BY <1>8, <3>1, Zenon
    <3> QED BY <1>7, <3>1, <3>2, Zenon
  <2>5. ASSUME NEW q \in Admitted', NEW r \in Refs(q)
        PROVE  r \in Admitted' /\ seq'[r] < seq'[q] /\ SpaceOf[r] = SpaceOf[q]
    BY <1>0, <1>7, <2>3, <2>4, <2>5, Zenon
  <2> QED BY <2>5, Zenon DEF AdmittedInCausalOrder
<1>13. HeadsAreTheFrontier'
  <2>1. \A q \in Admitted : g \notin Parents[q] /\ c \notin Parents[q]
    BY <1>4, Zenon DEF AdmittedInCausalOrder, Refs
  <2> QED BY <1>0, <1>1, <1>7, <2>1 DEF HeadsAreTheFrontier, MaximalOf
<1>14. OneRootPerEntity'
  BY <1>0, <1>3, <1>7 DEF OneRootPerEntity, SameEntity
<1>15. VisibilityTableAgrees'
  BY <1>1, <1>2, <1>7, Zenon DEF VisibilityTableAgrees, IsClientOp, EntityKey
<1>16. ReceiptsFollowOrder'
  <2>1. \A q \in Admitted : received[q] <= EffectiveTime
    BY <1>t, <1>8 DEF ReceiptsFollowOrder, TypeOK
  <2>2. \A p, q \in Admitted : seq'[p] < seq'[q] => received'[p] <= received'[q]
    BY <1>8, Zenon DEF ReceiptsFollowOrder
  <2>3. \A q \in Admitted : /\ ~(seq'[g] < seq'[q]) /\ ~(seq'[c] < seq'[q])
                            /\ received'[q] <= EffectiveTime
    BY <1>5, <1>8, <2>1 DEF TypeOK
  <2>4. \A p, q \in Admitted' : seq'[p] < seq'[q] => received'[p] <= received'[q]
    <3> SUFFICES ASSUME NEW p \in Admitted', NEW q \in Admitted', seq'[p] < seq'[q]
                 PROVE  received'[p] <= received'[q]
      BY Zenon
    <3>1. CASE q \in {g, c}
      <4>1. received'[q] = EffectiveTime BY <1>5, <3>1, Zenon
      <4>2. received'[p] <= EffectiveTime BY <1>t, <1>5, <1>7, <2>3, Zenon
      <4> QED BY <4>1, <4>2, Zenon
    <3>2. CASE q \notin {g, c} BY <1>7, <2>2, <2>3, <3>2, Zenon
    <3> QED BY <3>1, <3>2, Zenon
  <2>5. \A q \in Admitted' : received'[q] <= clock'
    <3>1. clock' = EffectiveTime /\ EffectiveTime <= EffectiveTime BY <1>1, <1>t
    <3> QED BY <1>5, <1>7, <2>3, <3>1, Zenon
  <2> QED BY <2>4, <2>5, Zenon DEF ReceiptsFollowOrder
<1>17. RevocationsRecorded'
  BY <1>1, <1>2, <1>7, Zenon DEF RevocationsRecorded, IsRevoke, IsGrant
<1>18. NothingAfterRevocation'
  <2>1. \A a \in Chain(c) \ {c} : IsGrant(a) => a \notin revoked
    BY Zenon DEF Authorized, LiveAuthority, IsGrant, IsGenesis
  <2>2. \A v \in Admitted : IsRevoke(v) => RevokedBy[v] \notin Chain(c) \ {c}
    BY <2>1, Zenon DEF RevocationsRecorded
  <2>3. NothingAfterRevocation' <=>
          \A q, v \in Admitted' :
             ~IsGenesis(q) /\ IsRevoke(v) /\ v # q /\ RevokedBy[v] \in Chain(q) \ {q}
               => seq'[q] < seq'[v]
    BY Zenon DEF NothingAfterRevocation, IsGenesis, IsRevoke, Chain, Chains, ClosedSets
  <2> QED BY <1>0, <1>2, <1>7, <1>8, <2>2, <2>3, Zenon DEF NothingAfterRevocation
<1> QED BY <1>9, <1>10, <1>11, <1>12, <1>13, <1>14, <1>15, <1>16, <1>17, <1>18, Zenon

(* Deleting a space removes whole entities and whole chains, so what is    *)
(* left satisfies the invariant.                                           *)
LEMMA DeletePreserves ==
    ASSUME LogInv, NEW s \in Spaces, DeleteSpace(s)
    PROVE  LogInv'
<1> USE DEF LogInv
<1>1. /\ genesis' = [genesis EXCEPT ![s] = NoOp]
      /\ seq' = [o \in Ops |-> IF SpaceOf[o] = s THEN 0 ELSE seq[o]]
      /\ received' = [o \in Ops |-> IF SpaceOf[o] = s THEN 0 ELSE received[o]]
      /\ heads' = {o \in heads : SpaceOf[o] # s}
      /\ revoked' = {o \in revoked : SpaceOf[o] # s}
      /\ visibility' = [e \in Spaces \X Entities |->
                           IF e[1] = s THEN NoVisibility ELSE visibility[e]]
      /\ lastSeq' = lastSeq /\ clock' = clock /\ wall' = wall
  BY Zenon DEF DeleteSpace
<1>2. Admitted' = {o \in Admitted : SpaceOf[o] # s}
  BY <1>1 DEF Admitted, TypeOK
<1>3. \A q \in Admitted' : /\ q \in Admitted /\ q \in Ops /\ seq'[q] = seq[q]
                           /\ received'[q] = received[q] /\ SpaceOf[q] # s
  BY <1>1, <1>2, Zenon DEF Admitted
<1>4. TypeOK'
  <2>1. visibility' \in [Spaces \X Entities -> Visibilities \cup {NoVisibility}]
    BY <1>1, Zenon DEF TypeOK
  <2>2. deletions' \in 0..MaxDeletions
    BY DEF TypeOK, DeleteSpace
  <2>3. seq' \in [Ops -> Nat] /\ received' \in [Ops -> Nat]
    BY <1>1, Zenon DEF TypeOK
  <2> QED BY <1>1, <2>1, <2>2, <2>3, Zenon DEF TypeOK
<1>5. InTrustedSpace' BY <1>1, <1>3, Zenon DEF InTrustedSpace, TypeOK
<1>6. BelowHighWater' BY <1>1 DEF BelowHighWater, TypeOK
<1>7. AdmittedInCausalOrder'
  BY <1>2, <1>3, Zenon DEF AdmittedInCausalOrder
<1>8. HeadsAreTheFrontier'
  <2>1. \A q \in Admitted : \A p \in Parents[q] : SpaceOf[p] = SpaceOf[q]
    BY Zenon DEF AdmittedInCausalOrder, Refs
  <2> QED BY <1>1, <1>2, <2>1, Zenon DEF HeadsAreTheFrontier, MaximalOf
<1>9. OneRootPerEntity' BY <1>3, Zenon DEF OneRootPerEntity
<1>10. VisibilityTableAgrees'
  <2>1. \A q \in Admitted' : EntityKey(q) \in Spaces \X Entities /\ EntityKey(q)[1] # s
    BY <1>3, Zenon DEF EntityKey
  <2>2. \A q \in Admitted' : visibility'[EntityKey(q)] = visibility[EntityKey(q)]
    BY <1>1, <2>1, Zenon
  <2>3. \A q \in Admitted' : IsClientOp(q) /\ Declared[q] # NoVisibility =>
            visibility'[EntityKey(q)] = Declared[q]
    BY <1>3, <2>2, Zenon DEF VisibilityTableAgrees
  <2> QED BY <2>3, Zenon DEF VisibilityTableAgrees, IsClientOp, EntityKey
<1>11. ReceiptsFollowOrder' BY <1>1, <1>3, Zenon DEF ReceiptsFollowOrder
<1>12. RevocationsRecorded'
  BY <1>1, <1>3, Zenon DEF RevocationsRecorded, IsRevoke, IsGrant
<1>13. NothingAfterRevocation'
  <2>1. NothingAfterRevocation' <=>
          \A q, v \in Admitted' :
             ~IsGenesis(q) /\ IsRevoke(v) /\ v # q /\ RevokedBy[v] \in Chain(q) \ {q}
               => seq'[q] < seq'[v]
    BY Zenon DEF NothingAfterRevocation, IsGenesis, IsRevoke, Chain, Chains, ClosedSets
  <2> QED BY <1>3, <2>1, Zenon DEF NothingAfterRevocation
<1> QED BY <1>4, <1>5, <1>6, <1>7, <1>8, <1>9, <1>10, <1>11, <1>12, <1>13, Zenon

(* A step that leaves the tables alone and moves the clock forward.        *)
LEMMA TablesUnchangedPreserves ==
    ASSUME LogInv, UNCHANGED <<seq, lastSeq, received, heads, visibility, revoked,
                               genesis, deletions>>,
           clock' \in Nat, clock <= clock', wall' \in 0..MaxTime
    PROVE  LogInv'
<1> USE DEF LogInv
<1>1. Admitted' = Admitted BY Zenon DEF Admitted
<1>2. TypeOK' BY Zenon DEF TypeOK
<1>3. InTrustedSpace' /\ BelowHighWater' /\ AdmittedInCausalOrder'
  BY <1>1, Zenon DEF InTrustedSpace, BelowHighWater, AdmittedInCausalOrder
<1>4. HeadsAreTheFrontier' /\ OneRootPerEntity'
  BY <1>1, Zenon DEF HeadsAreTheFrontier, MaximalOf, OneRootPerEntity
<1>5. VisibilityTableAgrees' /\ RevocationsRecorded'
  BY <1>1, Zenon DEF VisibilityTableAgrees, RevocationsRecorded, IsRevoke, IsGrant, EntityKey,
              IsClientOp
<1>6. ReceiptsFollowOrder'
  BY <1>1 DEF ReceiptsFollowOrder, TypeOK, Admitted
<1>7. NothingAfterRevocation'
  BY <1>1, Zenon DEF NothingAfterRevocation, IsGenesis, IsRevoke, Chain, Chains, ClosedSets
<1> QED BY <1>2, <1>3, <1>4, <1>5, <1>6, <1>7, Zenon

(* Every step of the node preserves the invariant.                         *)
LEMMA NextPreservesLogInv == LogInv /\ [Next]_vars => LogInv'
<1> SUFFICES ASSUME LogInv, [Next]_vars PROVE LogInv' BY Zenon
<1>t. /\ EffectiveTime \in Nat /\ clock <= EffectiveTime
      /\ clock \in Nat /\ wall \in 0..MaxTime /\ clock <= clock
  BY EffectiveTimeType DEF LogInv, TypeOK
<1>1. ASSUME NEW o \in Ops, Submit(o) PROVE LogInv'
  <2>1. CASE CanAdmit(o) BY <1>1, <2>1, SubmitPreserves, Zenon
  <2>2. CASE ~CanAdmit(o)
    BY <1>1, <1>t, <2>2, TablesUnchangedPreserves, Zenon DEF Submit, AdvanceClock
  <2> QED BY <2>1, <2>2, Zenon
<1>2. ASSUME NEW g \in Ops, NEW c \in Ops, Bootstrap(g, c) PROVE LogInv'
  <2>1. CASE genesis[SpaceOf[g]] = NoOp /\ Authorized(c, NoVisibility, g, EffectiveTime)
    BY <1>2, <2>1, BootstrapPreserves, Zenon
  <2>2. CASE ~(genesis[SpaceOf[g]] = NoOp /\ Authorized(c, NoVisibility, g, EffectiveTime))
    BY <1>2, <1>t, <2>2, TablesUnchangedPreserves, Zenon DEF Bootstrap, AdvanceClock
  <2> QED BY <2>1, <2>2, Zenon
<1>3. ASSUME NEW s \in Spaces, DeleteSpace(s) PROVE LogInv'
  BY <1>3, DeletePreserves, Zenon
<1>4. ASSUME NEW t \in 0..MaxTime, SetWall(t) PROVE LogInv'
  BY <1>4, <1>t, TablesUnchangedPreserves, Zenon DEF SetWall
<1>5. CASE UNCHANGED vars
  BY <1>5, <1>t, TablesUnchangedPreserves, Zenon DEF vars
<1> QED BY <1>1, <1>2, <1>3, <1>4, <1>5, Zenon DEF Next

(* The invariant holds in every state the node reaches.                    *)
THEOREM LogInvariant == Spec => []LogInv
BY InitEstablishesLogInv, NextPreservesLogInv, PTL DEF Spec

(* Every table keeps its type.                                             *)
THEOREM TypeCorrect == Spec => []TypeOK
<1>1. LogInv => TypeOK BY Zenon DEF LogInv
<1> QED BY <1>1, LogInvariant, PTL

(* What an admitted operation refers to was admitted before it, in the     *)
(* same space, whatever is submitted, replayed, refused or deleted.        *)
THEOREM CausalAdmission == Spec => []AdmittedInCausalOrder
<1>1. LogInv => AdmittedInCausalOrder BY Zenon DEF LogInv
<1> QED BY <1>1, LogInvariant, PTL

(* The incrementally maintained head rows are the frontier of the log.     *)
THEOREM FrontierMaintained == Spec => []HeadsAreTheFrontier
<1>1. LogInv => HeadsAreTheFrontier BY Zenon DEF LogInv
<1> QED BY <1>1, LogInvariant, PTL

(* An entity has one creation: of two concurrent ones the second to arrive *)
(* is refused.                                                             *)
THEOREM SingleCreation == Spec => []OneRootPerEntity
<1>1. LogInv => OneRootPerEntity BY Zenon DEF LogInv
<1> QED BY <1>1, LogInvariant, PTL

(* No two admitted bodies of one entity declare different visibilities.    *)
THEOREM VisibilityNeverChanges == Spec => []VisibilityIsImmutable
<1>1. LogInv => VisibilityIsImmutable
  <2> SUFFICES ASSUME LogInv, NEW o \in Admitted, NEW q \in Admitted, SameEntity(o, q),
                      IsClientOp(o), IsClientOp(q),
                      Declared[o] # NoVisibility, Declared[q] # NoVisibility
               PROVE  Declared[o] = Declared[q]
    BY Zenon DEF VisibilityIsImmutable
  <2>1. EntityKey(o) = EntityKey(q) BY Zenon DEF EntityKey, SameEntity
  <2> QED BY <2>1, Zenon DEF LogInv, VisibilityTableAgrees
<1> QED BY <1>1, LogInvariant, PTL

(* Receipt times are monotone in admission order, for every history of the *)
(* wall clock.                                                             *)
THEOREM MonotoneReceipts == Spec => []ReceiptsFollowOrder
<1>1. LogInv => ReceiptsFollowOrder BY Zenon DEF LogInv
<1> QED BY <1>1, LogInvariant, PTL

(* Once a revocation of a grant is admitted nothing enters on a chain      *)
(* through that grant, however long the chain of delegations.              *)
THEOREM RevocationStopsAdmission == Spec => []NothingAfterRevocation
<1>1. LogInv => NothingAfterRevocation BY Zenon DEF LogInv
<1> QED BY <1>1, LogInvariant, PTL

(* Replacing the superseded heads by the new operation leaves at most the  *)
(* number of heads validate_topology computed.                             *)
LEMMA HeadCount ==
    ASSUME NEW H \in SUBSET Ops, NEW P \in SUBSET Ops, NEW o \in Ops
    PROVE  /\ IsFiniteSet((H \ P) \cup {o})
           /\ Cardinality((H \ P) \cup {o})
                <= Cardinality(H) - Cardinality(P \cap H) + 1
           /\ Cardinality(H) \in Nat
<1>1. IsFiniteSet(H) /\ IsFiniteSet(P) BY FS_Subset, Zenon
<1>2. Cardinality(H) \in Nat BY <1>1, FS_CardinalityType, Zenon
<1>3. IsFiniteSet(H \ P) /\ Cardinality(H \ P) \in Nat
  BY <1>1, FS_Difference, FS_CardinalityType, Zenon
<1>4. IsFiniteSet(P \cap H) /\ Cardinality(P \cap H) \in Nat
  BY <1>1, FS_Intersection, FS_CardinalityType, Zenon
<1>5. Cardinality(H \ P) = Cardinality(H) - Cardinality(P \cap H)
  <2>1. Cardinality(H \ P) = Cardinality(H) - Cardinality(H \cap P)
    BY <1>1, FS_Difference, Zenon
  <2>2. H \cap P = P \cap H BY Zenon
  <2> QED BY <2>1, <2>2, Zenon
<1>6. Cardinality((H \ P) \cup {o}) <= Cardinality(H \ P) + 1
      /\ IsFiniteSet((H \ P) \cup {o})
  <2> DEFINE D == H \ P
  <2>0. IsFiniteSet(D) /\ Cardinality(D) \in Nat BY <1>3, Zenon
  <2> HIDE DEF D
  <2>1. /\ IsFiniteSet(D \cup {o})
        /\ Cardinality(D \cup {o}) = IF o \in D THEN Cardinality(D) ELSE Cardinality(D) + 1
    BY <2>0, FS_AddElement, Zenon
  <2>2. Cardinality(D \cup {o}) <= Cardinality(D) + 1 BY <2>0, <2>1
  <2> QED BY <2>1, <2>2, Zenon DEF D
<1>7. Cardinality((H \ P) \cup {o}) \in Nat BY <1>6, FS_CardinalityType, Zenon
<1> QED BY <1>2, <1>3, <1>4, <1>5, <1>6, <1>7, Zenon

(* A subset of a bounded set of heads is bounded.                          *)
LEMMA FewerHeads ==
    ASSUME NEW H \in SUBSET Ops, NEW K \in SUBSET H, Cardinality(H) <= MaxHeads
    PROVE  Cardinality(K) <= MaxHeads
<1>1. IsFiniteSet(H) BY FS_Subset, Zenon
<1>2. IsFiniteSet(K) /\ Cardinality(K) <= Cardinality(H) BY <1>1, FS_Subset, Zenon
<1>3. Cardinality(K) \in Nat /\ Cardinality(H) \in Nat
  BY <1>1, <1>2, FS_CardinalityType, Zenon
<1> QED BY <1>2, <1>3

EntityHeads(o, H) == {q \in H : SameEntity(o, q)}

(* Every step keeps each entity within the head limit.                     *)
LEMMA NextKeepsHeadsBounded ==
    LogInv /\ HeadsAreBounded /\ [Next]_vars => HeadsAreBounded'
<1> SUFFICES ASSUME LogInv, HeadsAreBounded, [Next]_vars,
                    NEW p \in heads'
             PROVE  Cardinality(EntityHeads(p, heads')) <= MaxHeads
  BY Zenon DEF HeadsAreBounded, EntityHeads, SameEntity
<1>0. heads \in SUBSET Ops BY Zenon DEF LogInv, TypeOK
<1>1. ASSUME p \in heads, EntityHeads(p, heads') \subseteq EntityHeads(p, heads)
      PROVE  Cardinality(EntityHeads(p, heads')) <= MaxHeads
  <2>1. Cardinality(EntityHeads(p, heads)) <= MaxHeads
    BY <1>1, Zenon DEF HeadsAreBounded, EntityHeads
  <2>2. EntityHeads(p, heads) \in SUBSET Ops BY <1>0, Zenon DEF EntityHeads
  <2> QED BY <1>1, <2>1, <2>2, FewerHeads, Zenon
<1>2. CASE heads' \subseteq heads
  BY <1>1, <1>2, Zenon DEF EntityHeads
<1>3. ASSUME NEW o \in Ops, Submit(o), CanAdmit(o)
      PROVE  Cardinality(EntityHeads(p, heads')) <= MaxHeads
  <2>1. heads' = (heads \ Parents[o]) \cup {o}
    BY <1>3, Zenon DEF Submit, InsertOperation, NextHeads
  <2>2. CASE ~SameEntity(p, o)
    BY <1>1, <2>1, <2>2, Zenon DEF EntityHeads, SameEntity
  <2>3. CASE SameEntity(p, o)
    <3>1. \A r \in Parents[o] : SameEntity(o, r)
      BY <1>3, Zenon DEF CanAdmit, ValidReferences, ValidTopology, Refs, SameEntity
    <3>2. EntityHeads(p, heads') = (EntityHeads(o, heads) \ Parents[o]) \cup {o}
      BY <2>1, <2>3, Zenon DEF EntityHeads, SameEntity
    <3>3. Parents[o] \cap EntityHeads(o, heads) = Parents[o] \cap heads
      BY <3>1, Zenon DEF EntityHeads
    <3>4. Cardinality(EntityHeads(o, heads)) - Cardinality(Parents[o] \cap heads) + 1
            <= MaxHeads
      BY <1>3, Zenon DEF CanAdmit, ValidTopology, EntityHeads
    <3>5. EntityHeads(o, heads) \in SUBSET Ops /\ Parents[o] \in SUBSET Ops
      BY <1>0, Zenon DEF EntityHeads
    <3>6. Cardinality(EntityHeads(p, heads'))
            <= Cardinality(EntityHeads(o, heads)) - Cardinality(Parents[o] \cap heads) + 1
      BY <3>2, <3>3, <3>5, HeadCount, Zenon
    <3>7. Cardinality(EntityHeads(p, heads')) \in Nat
      BY <3>2, <3>5, HeadCount, FS_CardinalityType, Zenon
    <3>8. /\ Cardinality(EntityHeads(o, heads)) \in Nat
          /\ Cardinality(Parents[o] \cap heads) \in Nat
      <4>1. IsFiniteSet(Parents[o] \cap heads) BY <1>0, <3>5, FS_Subset, Zenon
      <4> QED BY <4>1, <3>5, HeadCount, FS_CardinalityType, Zenon
    <3> QED BY <3>4, <3>6, <3>7, <3>8
  <2> QED BY <2>2, <2>3, Zenon
<1>4. ASSUME NEW o \in Ops, Submit(o), ~CanAdmit(o) PROVE heads' = heads
  BY <1>4, Zenon DEF Submit
<1>5. ASSUME NEW g \in Ops, NEW c \in Ops, Bootstrap(g, c)
      PROVE  Cardinality(EntityHeads(p, heads')) <= MaxHeads
  <2>1. CASE heads' = heads BY <1>2, <2>1, Zenon
  <2>2. CASE heads' # heads
    <3>1. /\ genesis[SpaceOf[g]] = NoOp /\ heads' = heads \cup {g, c}
          /\ SpaceOf[c] = SpaceOf[g] /\ EntityOf[c] # EntityOf[g]
      BY <1>5, <2>2, Zenon DEF Bootstrap, IsBootstrap
    <3>2. \A q \in heads : SpaceOf[q] # SpaceOf[g]
      BY <3>1, Zenon DEF LogInv, InTrustedSpace, HeadsAreTheFrontier, MaximalOf
    <3>3. CASE p \in heads
      BY <1>1, <3>1, <3>2, <3>3, Zenon DEF EntityHeads, SameEntity
    <3>4. CASE p \in {g, c}
      <4>1. EntityHeads(p, heads') = {p}
        BY <3>1, <3>2, <3>4, Zenon DEF EntityHeads, SameEntity
      <4>2. Cardinality({p}) = 1 BY FS_Singleton, Zenon
      <4> QED BY <4>1, <4>2
    <3> QED BY <3>1, <3>3, <3>4, Zenon
  <2> QED BY <2>1, <2>2, Zenon
<1>6. ASSUME NEW s \in Spaces, DeleteSpace(s) PROVE heads' \subseteq heads
  BY <1>6, Zenon DEF DeleteSpace
<1>7. ASSUME NEW t \in 0..MaxTime, SetWall(t) PROVE heads' = heads
  BY <1>7, Zenon DEF SetWall
<1>8. CASE UNCHANGED vars BY <1>2, <1>8, Zenon DEF vars
<1> QED BY <1>2, <1>3, <1>4, <1>5, <1>6, <1>7, <1>8, Zenon DEF Next

(* An entity never has more than MAX_ENTITY_HEADS concurrent heads.        *)
THEOREM HeadLimitHolds == Spec => []HeadsAreBounded
<1>1. Init => HeadsAreBounded BY Zenon DEF Init, HeadsAreBounded
<1> QED BY <1>1, LogInvariant, NextKeepsHeadsBounded, PTL DEF Spec

-------------------------------------------------------------------------------
(* What admission promises about the whole chain.                          *)

(* An operation is admitted only when authorize_operation_for_visibility   *)
(* accepts it at the time the admission clock is moved to.                 *)
LEMMA AdmissionIsAuthorized ==
    ASSUME LogInv, Next, NEW o \in Ops, ~IsGenesis(o), seq[o] = 0, seq'[o] > 0
    PROVE  /\ \E vis, trusted : Authorized(o, vis, trusted, EffectiveTime)
           /\ clock' = EffectiveTime
<1>0. seq \in [Ops -> Nat] /\ ~(0 > 0) BY DEF LogInv, TypeOK
<1>1. ASSUME NEW q \in Ops, Submit(q)
      PROVE  Authorized(o, VisibilityFor(o), genesis[SpaceOf[o]], EffectiveTime)
             /\ clock' = EffectiveTime
  <2>1. CanAdmit(q) BY <1>0, <1>1, Zenon DEF Submit
  <2>2. q = o BY <1>0, <1>1, <2>1, Zenon DEF Submit, InsertOperation
  <2> QED BY <1>1, <2>1, <2>2, Zenon DEF Submit, CanAdmit, AdvanceClock
<1>2. ASSUME NEW g \in Ops, NEW c \in Ops, Bootstrap(g, c)
      PROVE  Authorized(o, NoVisibility, g, EffectiveTime) /\ clock' = EffectiveTime
  <2>1. /\ Authorized(c, NoVisibility, g, EffectiveTime) /\ IsGenesis(g)
        /\ seq' = [seq EXCEPT ![g] = lastSeq + 1, ![c] = lastSeq + 2]
    BY <1>0, <1>2, Zenon DEF Bootstrap, IsBootstrap
  <2>2. o = c BY <1>0, <2>1, Zenon
  <2> QED BY <1>2, <2>1, <2>2, Zenon DEF Bootstrap, AdvanceClock
<1>3. ASSUME NEW s \in Spaces, DeleteSpace(s) PROVE FALSE
  BY <1>0, <1>3, Zenon DEF DeleteSpace
<1>4. ASSUME NEW t \in 0..MaxTime, SetWall(t) PROVE FALSE
  BY <1>0, <1>4, Zenon DEF SetWall
<1> QED BY <1>1, <1>2, <1>3, <1>4, Zenon DEF Next

(* An admitting step finds every grant of the chain unexpired at the       *)
(* latest time the node ever used: no clock reading reopens a window.      *)
THEOREM NoWindowReopens == Spec => ClosedWindowsStayClosed
<1> DEFINE Shuts ==
      \A o \in Ops : ~IsGenesis(o) /\ seq[o] = 0 /\ seq'[o] > 0 =>
          /\ \A x \in Chain(o) \ {o} : IsGrant(x) => clock < Grant[x].until
          /\ clock <= clock'
<1>1. LogInv /\ [Next]_vars => [Shuts]_vars
  <2> SUFFICES ASSUME LogInv, Next, NEW o \in Ops, ~IsGenesis(o),
                      seq[o] = 0, seq'[o] > 0
               PROVE  /\ \A x \in Chain(o) \ {o} : IsGrant(x) => clock < Grant[x].until
                      /\ clock <= clock'
    BY Zenon DEF vars
  <2>t. EffectiveTime \in Nat /\ clock <= EffectiveTime /\ clock \in Nat
    BY EffectiveTimeType, Zenon DEF LogInv, TypeOK
  <2>1. PICK vis, trusted : Authorized(o, vis, trusted, EffectiveTime)
    BY AdmissionIsAuthorized, Zenon
  <2>2. ASSUME NEW x \in Chain(o) \ {o}, IsGrant(x)
        PROVE  clock < Grant[x].until
    <3>1. x \in Ops /\ InWindow(Grant[x], EffectiveTime)
      BY <2>1, <2>2, Zenon DEF Authorized, LiveAuthority, IsGrant, IsGenesis, Admitted
    <3>2. Grant[x].until \in Nat BY <3>1, Zenon DEF GrantBody
    <3>3. EffectiveTime < Grant[x].until BY <3>1, Zenon DEF InWindow
    <3> QED BY <2>t, <3>2, <3>3
  <2>3. clock' = EffectiveTime BY AdmissionIsAuthorized, Zenon
  <2> QED BY <2>t, <2>2, <2>3, Zenon
<1> HIDE DEF Shuts
<1>2. Spec => [][Shuts]_vars BY <1>1, LogInvariant, PTL DEF Spec
<1> QED BY <1>2, Zenon DEF ClosedWindowsStayClosed, Shuts

(* A chain holds its operation and whatever its members cite, and lies in  *)
(* every set that does.                                                    *)
LEMMA ChainIsLeast ==
    ASSUME NEW o \in Ops
    PROVE  /\ o \in Chain(o) /\ Chain(o) \subseteq Ops
           /\ \A x \in Chain(o) : Authorization[x] \subseteq Chain(o)
           /\ \A S \in SUBSET Ops :
                 o \in S /\ (\A x \in S : Authorization[x] \subseteq S) => Chain(o) \subseteq S
<1>1. Chain(o) = {x \in Ops : \A S \in ClosedSets : o \in S => x \in S}
  BY Zenon DEF Chain, Chains
<1>2. o \in Chain(o) /\ Chain(o) \subseteq Ops
  BY <1>1, Zenon
<1>3. ASSUME NEW x \in Chain(o), NEW a \in Authorization[x] PROVE a \in Chain(o)
  <2>1. x \in Ops /\ a \in Ops
    BY <1>1, <1>3, Zenon
  <2>2. ASSUME NEW S \in ClosedSets, o \in S PROVE a \in S
    BY <1>1, <1>3, <2>2, Zenon DEF ClosedSets
  <2> QED BY <1>1, <2>1, <2>2, Zenon
<1>4. ASSUME NEW S \in SUBSET Ops, o \in S, \A x \in S : Authorization[x] \subseteq S
      PROVE  Chain(o) \subseteq S
  <2>1. S \in ClosedSets
    BY <1>4, Zenon DEF ClosedSets
  <2> QED BY <1>1, <1>4, <2>1, Zenon
<1> QED BY <1>2, <1>3, <1>4, Zenon

(* To be narrower is reflexive and transitive.                             *)
LEMMA NarrowerIsAnOrder ==
    /\ \A g \in GrantBody : Narrower(g, g)
    /\ \A g, h, k \in GrantBody : Narrower(g, h) /\ Narrower(h, k) => Narrower(g, k)
BY DEF GrantBody, Narrower

(* Link by link a grant that is accepted allows no more than the one it    *)
(* cites, so it allows no more than any grant of its chain.                *)
LEMMA AuthorizedIsNarrow ==
    ASSUME NEW o \in Ops, IsGrant(o), NEW vis, NEW trusted, NEW t,
           Authorized(o, vis, trusted, t), NEW x \in Chain(o), IsGrant(x)
    PROVE  Narrower(Grant[o], Grant[x])
<1> DEFINE T == {y \in Chain(o) : /\ IsGrant(y) \/ IsGenesis(y)
                                  /\ IsGrant(y) => Narrower(Grant[o], Grant[y])}
<1>1. \A y \in Ops : Grant[y] \in GrantBody
  BY Zenon
<1>2. o \in T
  BY <1>1, ChainIsLeast, NarrowerIsAnOrder, Zenon
<1>3. ASSUME NEW y \in T, NEW a \in Authorization[y] PROVE a \in T
  <2>1. y \in Ops /\ a \in Ops /\ a \in Chain(o) /\ y \in Chain(o)
    BY <1>3, ChainIsLeast, Zenon
  <2>2. IsGrant(a) \/ IsGenesis(a)
    BY <2>1, Zenon DEF Authorized, LiveAuthority
  <2>3. IsGrant(y) /\ ~IsGenesis(y)
    BY <1>3, <2>1, GenesisIsRoot, Zenon DEF IsGrant, IsGenesis
  <2>4. ASSUME IsGrant(a) PROVE Narrower(Grant[o], Grant[a])
    <3>1. PermittedCitation(y, a, vis)
      BY <2>1, <2>3, Zenon DEF Authorized
    <3>2. ~IsGenesis(a) /\ ~IsClientOp(y) /\ ~IsRevoke(y)
      BY <2>3, <2>4, Zenon DEF IsGrant, IsGenesis, IsClientOp, ClientSchemas, IsRevoke
    <3>3. Narrower(Grant[y], Grant[a])
      BY <2>3, <3>1, <3>2, Zenon DEF PermittedCitation, GrantPermits, PermitsDelegation
    <3>4. Narrower(Grant[o], Grant[y])
      BY <1>3, <2>3, Zenon
    <3> QED BY <1>1, <2>1, <3>3, <3>4, NarrowerIsAnOrder, Zenon
  <2> QED BY <2>1, <2>2, <2>4, Zenon
<1>4. T \in SUBSET Ops /\ \A y \in T : Authorization[y] \subseteq T
  BY <1>3, ChainIsLeast, Zenon
<1>5. x \in T => Narrower(Grant[o], Grant[x])
  BY Zenon
<1> HIDE DEF T
<1>6. Chain(o) \subseteq T
  BY <1>2, <1>4, ChainIsLeast, Zenon
<1> QED BY <1>5, <1>6, Zenon

(* Delegation only narrows: what an admitted grant allows is allowed by    *)
(* every grant its authority rests on, however long the chain and whatever *)
(* was admitted, revoked or deleted in between (resolve_inner,             *)
(* permits_delegation).                                                    *)
THEOREM NoDelegationWidens == Spec => []DelegationNarrows
<1>1. Init => DelegationNarrows
  BY DEF Init, DelegationNarrows, Admitted
<1>2. LogInv /\ DelegationNarrows /\ [Next]_vars => DelegationNarrows'
  <2> SUFFICES ASSUME LogInv, DelegationNarrows, [Next]_vars PROVE DelegationNarrows'
    BY Zenon
  <2>1. seq \in [Ops -> Nat]
    BY Zenon DEF LogInv, TypeOK
  <2>2. ASSUME NEW o \in Ops, seq'[o] > 0, NEW x \in Chain(o), IsGrant(o), IsGrant(x)
        PROVE  Narrower(Grant[o], Grant[x])
    <3>1. CASE seq[o] > 0
      BY <2>2, <3>1, Zenon DEF DelegationNarrows, Admitted
    <3>2. CASE seq[o] = 0
      <4>1. ~IsGenesis(o)
        BY <2>2, Zenon DEF IsGrant, IsGenesis
      <4>2. Next
        BY <2>2, <3>2 DEF vars
      <4>3. PICK vis, trusted : Authorized(o, vis, trusted, EffectiveTime)
        BY <2>2, <3>2, <4>1, <4>2, AdmissionIsAuthorized, Zenon
      <4> QED BY <2>2, <4>3, AuthorizedIsNarrow, Zenon
    <3> QED BY <2>1, <3>1, <3>2
  <2>3. DelegationNarrows' <=>
          \A o \in Admitted' : \A x \in Chain(o) :
             IsGrant(o) /\ IsGrant(x) => Narrower(Grant[o], Grant[x])
    BY Zenon DEF DelegationNarrows, IsGrant, Chain, Chains, ClosedSets, Narrower
  <2> QED BY <2>2, <2>3, Zenon DEF Admitted
<1> QED BY <1>1, <1>2, LogInvariant, PTL DEF Spec
===============================================================================
