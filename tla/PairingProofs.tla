----------------------------- MODULE PairingProofs -----------------------------
(***************************************************************************)
(* The safety properties of Pairing for every set of invitations, claims,  *)
(* handlers and grants.  Typing alone is not inductive: a handler acts on  *)
(* what it read in an earlier transaction, so the invariant says what each *)
(* of its steps may still rely on.  It may, because a row only moves       *)
(* forward (Forward) until the workspace is deleted.                       *)
(***************************************************************************)
EXTENDS Pairing, TLAPS

Creating == {"insert", "unstore"}
Granting == {"sign", "submit", "complete"}
Confirming == {"resume", "confirm"} \cup Granting

(* A row that is not claimed has neither claim nor plan, a claim is of the *)
(* row's invitation, and a completed session has its grant in the log.     *)
RowSound(i, s) ==
    /\ s.state \in {"absent", "created"} => s.claim = NoClaim /\ s.plan = NoGrant
    /\ s.claim \in Claims => InvitationOf[s.claim] = i
    /\ s.state = "completed" => s.plan \in admitted

(* What the tables, the vault and the joiners say on their own.            *)
StoreInv ==
    /\ \A i \in Invitations : RowSound(i, session[i])
    /\ ~space => admitted = {} /\ \A i \in Invitations : session[i] = NoSession
    /\ \A c \in Claims : joiner[c].at \in {"pending", "paired"} => joiner[c].grant # NoGrant
    /\ ActiveHasSecret /\ GrantsAreConfirmed /\ PromisesAreKept

(* What a handler that is creating an invitation relies on: no one else    *)
(* has heard of it.                                                        *)
CreationSound(h) ==
    LET i == handler[h].invitation IN
    handler[h].at \in Creating =>
        /\ i \in Invitations
        /\ session[i] = NoSession
        /\ handler[h].at = "insert" => i \in secrets
        /\ \A k \in Handlers \ {h} : handler[k].at # "idle" => handler[k].invitation # i

(* What any other handler relies on, as long as the workspace exists: its  *)
(* row is still its claim's, as far as it has brought it or further.       *)
HandlerSound(h) ==
    LET k == handler[h]  i == k.invitation  s == session[i] IN
    k.at \notin Creating \cup {"idle"} =>
        /\ i \in Invitations
        /\ k.at # "purge" \/ k.by = "joiner" => k.claim \in Claims /\ InvitationOf[k.claim] = i
        /\ k.by = "joiner" /\ k.at \in Confirming \cup {"purge"}
              => joiner[k.claim].at \in {"pending", "paired"}
        /\ space =>
              /\ s.state # "absent"
              /\ k.at \in {"plan", "answer"} \cup Confirming => s.claim = k.claim
              /\ k.at \in Granting => s.state \in {"confirmed", "completed"}
              /\ k.at \in {"submit", "complete"} => k.grant \in Grants /\ s.plan = k.grant
              /\ k.at = "purge" => s.state \in {"completed", "cancelled"}
              /\ k.at = "purge" /\ k.by = "joiner" => s.state = "completed" /\ s.claim = k.claim

HandlersInv == \A h \in Handlers : CreationSound(h) /\ HandlerSound(h)

(* A node that is not up serves no one.                                    *)
DownIsIdle == mode # "up" => \A h \in Handlers : handler[h].at = "idle"

PairingInv == TypeOK /\ StoreInv /\ HandlersInv /\ DownIsIdle

-------------------------------------------------------------------------------
(* How rows and joiners move.                                              *)

(* A row keeps its claim and its plan, what is confirmed stays confirmed   *)
(* or is completed, and a terminal row stays as it is.                     *)
Advances(s, t) ==
    /\ s.state # "absent" => t.state # "absent"
    /\ s.claim # NoClaim => t.claim = s.claim
    /\ s.plan # NoGrant => t.plan = s.plan
    /\ s.state = "confirmed" => t.state \in {"confirmed", "completed"}
    /\ s.state \in {"completed", "cancelled", "expired"} => t = s

Forward == \A i \in Invitations : space' => space /\ Advances(session[i], session'[i])

(* A joiner that was shown a grant keeps it.                               *)
JoinersKeep ==
    \A c \in Claims : joiner[c].at \in {"pending", "paired"} =>
        joiner'[c].at \in {"pending", "paired"} /\ joiner'[c].grant = joiner[c].grant

(* A step of handler h alone.                                              *)
Others(h) ==
    /\ handler' \in [Handlers -> Handler]
    /\ \A k \in Handlers \ {h} : handler'[k] = handler[k]

(* Nothing that a handler creates an invitation with is taken away.        *)
CreationsKept(h) ==
    \A k \in Handlers \ {h} : handler[k].at \in Creating =>
        /\ session'[handler[k].invitation] = session[handler[k].invitation]
        /\ handler[k].invitation \in secrets => handler[k].invitation \in secrets'

(* Handler h does not turn to an invitation that is being created.         *)
Apart(h) ==
    handler'[h].at # "idle" =>
        \A k \in Handlers \ {h} : handler[k].at \in Creating =>
            handler'[h].invitation # handler[k].invitation

-------------------------------------------------------------------------------
(* What a step makes of its handler.                                       *)

LEMMA IdleType == Idle \in Handler /\ Idle.at = "idle"
BY Zenon DEF Idle, Handler, HandlerSteps

LEMMA StepTakes ==
    ASSUME TypeOK, NEW h \in Handlers, NEW step \in HandlerSteps, Step(h, step)
    PROVE  /\ Others(h)
           /\ handler'[h].at = step /\ handler'[h].by = handler[h].by
           /\ handler'[h].invitation = handler[h].invitation
           /\ handler'[h].claim = handler[h].claim /\ handler'[h].grant = handler[h].grant
  <1>1. handler \in [Handlers -> Handler]
    BY Zenon DEF TypeOK
  <1>2. [handler[h] EXCEPT !.at = step] \in Handler
    BY <1>1, Zenon DEF Handler
  <1>3. handler' = [handler EXCEPT ![h] = [handler[h] EXCEPT !.at = step]]
    BY Zenon DEF Step
  <1>4. handler'[h] = [handler[h] EXCEPT !.at = step]
    BY <1>1, <1>3, Zenon
  <1>5. Others(h)
    BY <1>1, <1>2, <1>3, Zenon DEF Others
  <1> QED
    BY <1>1, <1>4, <1>5, Zenon DEF Handler

LEMMA BecomeTakes ==
    ASSUME TypeOK, NEW h \in Handlers, NEW r \in Handler, Become(h, r)
    PROVE  Others(h) /\ handler'[h] = r
BY Zenon DEF TypeOK, Become, Others

LEMMA FinishTakes ==
    ASSUME TypeOK, NEW h \in Handlers, Finish(h)
    PROVE  Others(h) /\ handler'[h].at = "idle"
BY IdleType, Zenon DEF TypeOK, Finish, Others

LEMMA ProceedTakes ==
    ASSUME TypeOK, NEW h \in Handlers, NEW s \in Session, Proceed(h, s)
    PROVE  /\ Others(h)
           /\ handler'[h].at = IF s.plan = NoGrant THEN "sign" ELSE "submit"
           /\ handler'[h].by = handler[h].by
           /\ handler'[h].invitation = handler[h].invitation
           /\ handler'[h].claim = handler[h].claim /\ handler'[h].grant = s.plan
  <1> DEFINE step == IF s.plan = NoGrant THEN "sign" ELSE "submit"
             r == [handler[h] EXCEPT !.at = step, !.grant = s.plan]
  <1>1. handler[h] \in Handler
    BY Zenon DEF TypeOK
  <1>2. step \in HandlerSteps /\ s.plan \in Grants \cup {NoGrant}
    BY Zenon DEF HandlerSteps, Session
  <1> HIDE DEF step
  <1>3. r \in Handler
    BY <1>1, <1>2, Zenon DEF Handler
  <1>4. Become(h, r)
    BY Zenon DEF Proceed, step
  <1>5. Others(h) /\ handler'[h] = r
    <2> HIDE DEF r
    <2> QED BY <1>3, <1>4, BecomeTakes, Zenon
  <1>6. /\ r.at = step /\ r.by = handler[h].by /\ r.invitation = handler[h].invitation
        /\ r.claim = handler[h].claim /\ r.grant = s.plan
    BY <1>1, Zenon DEF Handler
  <1> HIDE DEF r
  <1> QED BY <1>5, <1>6, Zenon DEF step

-------------------------------------------------------------------------------
(* What keeps the invariant.                                               *)

(* A handler that ends, relies on nothing.                                 *)
LEMMA EndedIsSound ==
    ASSUME NEW h \in Handlers, handler'[h].at = "idle"
    PROVE  CreationSound(h)' /\ HandlerSound(h)' /\ Apart(h)
BY Zenon DEF CreationSound, HandlerSound, Apart, Creating

(* What a handler relies on survives the steps of the others.              *)
LEMMA HandlerKept ==
    ASSUME NEW k \in Handlers, HandlerSound(k), handler'[k] = handler[k],
           Forward, JoinersKeep, session \in [Invitations -> Session],
           handler[k] \in Handler
    PROVE  HandlerSound(k)'
  <1> SUFFICES ASSUME handler[k].at \notin Creating \cup {"idle"}
               PROVE  HandlerSound(k)'
    BY Zenon DEF HandlerSound
  <1> DEFINE i == handler[k].invitation
  <1>1. i \in Invitations
    BY Zenon DEF HandlerSound
  <1>2. handler[k].by = "joiner" /\ handler[k].at \in Confirming \cup {"purge"}
           => joiner'[handler[k].claim].at \in {"pending", "paired"}
    BY Zenon DEF HandlerSound, JoinersKeep
  <1>3. ASSUME space'
        PROVE  space /\ Advances(session[i], session'[i])
    BY <1>1, <1>3, Zenon DEF Forward
  <1>4. ASSUME space'
        PROVE  /\ session'[i].state # "absent"
               /\ handler[k].at \in {"plan", "answer"} \cup Confirming
                     => session'[i].claim = handler[k].claim
               /\ handler[k].at \in Granting => session'[i].state \in {"confirmed", "completed"}
               /\ handler[k].at \in {"submit", "complete"}
                     => handler[k].grant \in Grants /\ session'[i].plan = handler[k].grant
               /\ handler[k].at = "purge" => session'[i].state \in {"completed", "cancelled"}
               /\ handler[k].at = "purge" /\ handler[k].by = "joiner"
                     => session'[i].state = "completed" /\ session'[i].claim = handler[k].claim
    <2>0. space /\ Advances(session[i], session'[i])
      BY <1>3, <1>4, Zenon
    <2>1. session'[i].state # "absent"
      BY <2>0, Zenon DEF Advances, HandlerSound
    <2>2. handler[k].at \in {"plan", "answer"} \cup Confirming
             => session'[i].claim = handler[k].claim
      BY <2>0, PairingAssumption, Zenon DEF Advances, HandlerSound, Confirming, Granting
    <2>3. handler[k].at \in Granting => session'[i].state \in {"confirmed", "completed"}
      BY <2>0, Zenon DEF Advances, HandlerSound
    <2>4. handler[k].at \in {"submit", "complete"}
             => handler[k].grant \in Grants /\ session'[i].plan = handler[k].grant
      BY <2>0, PairingAssumption, Zenon DEF Advances, HandlerSound, Grants
    <2>5. handler[k].at = "purge" => session'[i].state \in {"completed", "cancelled"}
      BY <2>0, Zenon DEF Advances, HandlerSound
    <2>6. handler[k].at = "purge" /\ handler[k].by = "joiner"
             => session'[i].state = "completed" /\ session'[i].claim = handler[k].claim
      BY <2>0, Zenon DEF Advances, HandlerSound
    <2> QED BY <2>1, <2>2, <2>3, <2>4, <2>5, <2>6, Zenon
  <1>5. handler[k].at # "purge" \/ handler[k].by = "joiner"
           => handler[k].claim \in Claims /\ InvitationOf[handler[k].claim] = i
    BY Zenon DEF HandlerSound
  <1> QED
    BY <1>1, <1>2, <1>4, <1>5, Zenon DEF HandlerSound

(* A step of one handler keeps the invariant if it keeps the tables sound  *)
(* and leaves the handler itself sound.                                    *)
LEMMA HandlerStep ==
    ASSUME PairingInv, NEW h \in Handlers, mode' = "up",
           TypeOK', StoreInv', Forward, JoinersKeep,
           Others(h), CreationsKept(h), Apart(h), CreationSound(h)', HandlerSound(h)'
    PROVE  PairingInv'
  <1>1. ASSUME NEW k \in Handlers \ {h} PROVE HandlerSound(k)'
    BY <1>1, HandlerKept, Zenon DEF PairingInv, HandlersInv, TypeOK, Others
  <1>2. ASSUME NEW k \in Handlers \ {h} PROVE CreationSound(k)'
    <2>1. CreationSound(k) /\ handler'[k] = handler[k]
      BY <1>2, Zenon DEF PairingInv, HandlersInv, Others
    <2>2. SUFFICES ASSUME handler[k].at \in Creating
                   PROVE  CreationSound(k)'
      BY <2>1, Zenon DEF CreationSound
    <2>3. handler'[h].at # "idle" => handler'[h].invitation # handler[k].invitation
      BY <1>2, <2>2, Zenon DEF Apart
    <2>4. \A l \in Handlers \ {k} : handler'[l].at # "idle" =>
             handler'[l].invitation # handler[k].invitation
      BY <1>2, <2>1, <2>2, <2>3, Zenon DEF CreationSound, Others
    <2>5. /\ session'[handler[k].invitation] = session[handler[k].invitation]
          /\ handler[k].invitation \in secrets => handler[k].invitation \in secrets'
      BY <1>2, <2>2, Zenon DEF CreationsKept
    <2> QED BY <2>1, <2>2, <2>4, <2>5, Zenon DEF CreationSound
  <1> QED
    BY <1>1, <1>2, Zenon DEF PairingInv, HandlersInv, DownIsIdle

LEMMA StoreKept ==
    ASSUME StoreInv, UNCHANGED <<space, session, admitted, joiner>>,
           ActiveRows \subseteq secrets'
    PROVE  StoreInv' /\ Forward /\ JoinersKeep
  <1>1. ActiveHasSecret'
    BY Zenon DEF ActiveHasSecret, ActiveRows, Active
  <1>2. GrantsAreConfirmed' /\ PromisesAreKept'
    BY Zenon DEF StoreInv, GrantsAreConfirmed, PromisesAreKept
  <1>3. Forward /\ JoinersKeep
    BY Zenon DEF Forward, JoinersKeep, Advances
  <1> QED BY <1>1, <1>2, <1>3, Zenon DEF StoreInv, RowSound

(* One row moves forward.                                                  *)
LEMMA RowMoves ==
    ASSUME TypeOK, StoreInv, UNCHANGED <<space, secrets, admitted, joiner>>, space,
           NEW i \in Invitations, NEW t \in Session, SetRow(i, t),
           Advances(session[i], t), RowSound(i, t), Active(t) => i \in secrets
    PROVE  /\ StoreInv' /\ Forward /\ JoinersKeep
           /\ session' \in [Invitations -> Session]
           /\ session'[i] = t
           /\ \A j \in Invitations \ {i} : session'[j] = session[j]
  <1>0. /\ session \in [Invitations -> Session]
        /\ session' = [session EXCEPT ![i] = t]
    BY Zenon DEF TypeOK, SetRow
  <1>1. /\ session' \in [Invitations -> Session]
        /\ session'[i] = t
        /\ \A j \in Invitations \ {i} : session'[j] = session[j]
    BY <1>0, Zenon
  <1>2. \A j \in Invitations : Advances(session[j], session'[j])
    <2>1. \A j \in Invitations \ {i} : Advances(session[j], session'[j])
      BY <1>1, Zenon DEF Advances
    <2> QED BY <1>1, <2>1, Zenon
  <1>3. Forward /\ JoinersKeep
    BY <1>2, Zenon DEF Forward, JoinersKeep
  <1>4. (\A j \in Invitations : RowSound(j, session[j]))'
    BY <1>1, Zenon DEF StoreInv, RowSound
  <1>5. ActiveHasSecret'
    BY <1>1, Zenon DEF StoreInv, ActiveHasSecret, ActiveRows
  <1>6. GrantsAreConfirmed'
    <2>1. ASSUME NEW g \in admitted
          PROVE  \E j \in Invitations : /\ session'[j].plan = g
                                        /\ session'[j].state \in {"confirmed", "completed"}
      <3>1. PICK j \in Invitations : /\ session[j].plan = g
                                     /\ session[j].state \in {"confirmed", "completed"}
        BY <2>1, Zenon DEF StoreInv, GrantsAreConfirmed
      <3>2. g # NoGrant
        BY <2>1, PairingAssumption, Zenon DEF TypeOK, Grants
      <3> QED BY <1>2, <3>1, <3>2, Zenon DEF Advances
    <2> QED BY <2>1, Zenon DEF GrantsAreConfirmed
  <1>7. PromisesAreKept'
    <2>1. ASSUME NEW c \in Claims
          PROVE  LET s == session'[InvitationOf[c]] IN
                 /\ joiner[c].at \in {"pending", "paired"} => s.claim = c /\ s.plan = joiner[c].grant
                 /\ joiner[c].at = "paired" => s.state = "completed" /\ s.plan \in admitted
      <3>1. InvitationOf[c] \in Invitations
        BY PairingAssumption, Zenon
      <3>2. Advances(session[InvitationOf[c]], session'[InvitationOf[c]])
        BY <1>2, <3>1, Zenon
      <3>3. joiner[c].at \in {"pending", "paired"} => joiner[c].grant # NoGrant /\ c # NoClaim
        BY PairingAssumption, Zenon DEF StoreInv
      <3> QED BY <3>2, <3>3, Zenon DEF StoreInv, PromisesAreKept, Advances
    <2> QED BY <2>1, Zenon DEF PromisesAreKept
  <1> QED BY <1>1, <1>3, <1>4, <1>5, <1>6, <1>7, Zenon DEF StoreInv

(* A handler that only takes note leaves everything else as it is.         *)
LEMMA HandlerOnly ==
    ASSUME PairingInv, NEW h \in Handlers, mode = "up",
           UNCHANGED <<space, session, secrets, admitted, expired, lapsed, mode, joiner>>,
           refused' \subseteq Claims, faults' \in [crashes : 0..MaxCrashes, errors : 0..MaxErrors],
           Others(h), Apart(h), CreationSound(h)', HandlerSound(h)'
    PROVE  PairingInv' /\ Forward
  <1>1. TypeOK'
    BY Zenon DEF PairingInv, TypeOK, Others
  <1>2. StoreInv' /\ Forward /\ JoinersKeep
    BY StoreKept, Zenon DEF PairingInv, StoreInv, ActiveHasSecret
  <1>3. CreationsKept(h)
    BY Zenon DEF CreationsKept
  <1> QED BY <1>1, <1>2, <1>3, HandlerStep, Zenon

LEMMA EndsOnly ==
    ASSUME PairingInv, NEW h \in Handlers, mode = "up", Finish(h),
           UNCHANGED <<space, session, secrets, admitted, expired, lapsed, mode, joiner>>,
           refused' \subseteq Claims, faults' \in [crashes : 0..MaxCrashes, errors : 0..MaxErrors]
    PROVE  PairingInv' /\ Forward
  <1>1. Others(h) /\ handler'[h].at = "idle"
    BY FinishTakes, Zenon DEF PairingInv
  <1>2. CreationSound(h)' /\ HandlerSound(h)' /\ Apart(h)
    BY <1>1, EndedIsSound, Zenon
  <1> QED BY <1>1, <1>2, HandlerOnly, Zenon

LEMMA SameInvitation ==
    ASSUME PairingInv, NEW h \in Handlers, handler[h].at # "idle",
           handler'[h].invitation = handler[h].invitation
    PROVE  Apart(h)
BY Zenon DEF PairingInv, HandlersInv, CreationSound, Apart

LEMMA KnownInvitation ==
    ASSUME PairingInv, NEW h \in Handlers,
           session[handler'[h].invitation].state # "absent"
    PROVE  Apart(h)
BY DEF PairingInv, HandlersInv, CreationSound, Apart, NoSession

(* The row of a handler that is not creating one, changed, is no row that  *)
(* is being created.                                                       *)
LEMMA OwnRow ==
    ASSUME PairingInv, NEW i \in Invitations, NEW h \in Handlers, secrets' = secrets,
           \/ session[i].state # "absent"
           \/ handler[h].at # "idle" /\ handler[h].invitation = i,
           \A j \in Invitations \ {i} : session'[j] = session[j]
    PROVE  CreationsKept(h)
BY DEF PairingInv, HandlersInv, CreationSound, CreationsKept, NoSession

LEMMA RowsExist ==
    ASSUME PairingInv, NEW i \in Invitations, session[i].state # "absent"
    PROVE  space
BY DEF PairingInv, StoreInv, NoSession

(* A refusal is heard by a joiner that sent a claim, and ends the handler. *)
LEMMA RefusalTypes ==
    ASSUME PairingInv, NEW h \in Handlers, NEW c, NEW by, Refuse(h, c, by),
           by = "joiner" => c \in Claims
    PROVE  refused' \subseteq Claims /\ Finish(h)
BY Zenon DEF PairingInv, TypeOK, Refuse

-------------------------------------------------------------------------------
(* The actions.                                                            *)

LEMMA StoreSecretSound ==
    ASSUME PairingInv, NEW h \in Handlers, NEW i \in Invitations, StoreSecret(h, i)
    PROVE  PairingInv' /\ Forward
  <1> DEFINE r == [Idle EXCEPT !.at = "insert", !.invitation = i]
  <1>1. /\ r \in Handler /\ r.at = "insert" /\ r.invitation = i
    BY Zenon DEF Idle, Handler, HandlerSteps
  <1>2. Become(h, r)
    BY Zenon DEF StoreSecret
  <1> HIDE DEF r
  <1>3. Others(h) /\ handler'[h] = r
    BY <1>1, <1>2, BecomeTakes, Zenon DEF PairingInv
  <1>4. session[i] = NoSession
    <2>1. session[i] \in Session
      BY Zenon DEF PairingInv, TypeOK
    <2>2. session[i].state = "absent" /\ session[i].claim = NoClaim /\ session[i].plan = NoGrant
      BY Zenon DEF StoreSecret, PairingInv, StoreInv, RowSound
    <2> QED BY <2>1, <2>2, Zenon DEF Session, NoSession
  <1>5. TypeOK'
    BY <1>3, Zenon DEF StoreSecret, PairingInv, TypeOK, Others
  <1>6. StoreInv' /\ Forward /\ JoinersKeep
    BY StoreKept, Zenon DEF StoreSecret, PairingInv, StoreInv, ActiveHasSecret
  <1>7. \A k \in Handlers : handler[k].invitation # i
    BY Zenon DEF StoreSecret
  <1>8. CreationSound(h)'
    BY <1>1, <1>3, <1>4, <1>7, Zenon DEF CreationSound, StoreSecret, Others
  <1>9. HandlerSound(h)' /\ Apart(h) /\ CreationsKept(h)
    BY <1>1, <1>3, <1>7, Zenon DEF HandlerSound, Creating, Apart, CreationsKept, StoreSecret
  <1>10. mode' = "up"
    BY Zenon DEF StoreSecret, Free
  <1> QED BY <1>3, <1>5, <1>6, <1>8, <1>9, <1>10, HandlerStep, Zenon

LEMMA InsertRowSound ==
    ASSUME PairingInv, NEW h \in Handlers, InsertRow(h)
    PROVE  PairingInv' /\ Forward
  <1> DEFINE i == handler[h].invitation
  <1>1. /\ handler[h].at = "insert" /\ mode = "up" /\ mode' = "up"
        /\ UNCHANGED <<space, secrets, admitted, expired, lapsed, mode, joiner, refused, faults>>
    BY Zenon DEF InsertRow, At
  <1>2. /\ i \in Invitations /\ session[i] = NoSession /\ i \in secrets
        /\ \A k \in Handlers \ {h} : handler[k].at # "idle" => handler[k].invitation # i
    BY <1>1, Zenon DEF PairingInv, HandlersInv, CreationSound, Creating
  <1>3. TypeOK /\ StoreInv
    BY Zenon DEF PairingInv
  <1>4. CASE space
    <2> DEFINE t == [NoSession EXCEPT !.state = "created"]
    <2>1. /\ t \in Session /\ t.state = "created" /\ t.claim = NoClaim /\ t.plan = NoGrant
      BY Zenon DEF NoSession, Session, States
    <2>2. SetRow(i, t) /\ Finish(h)
      BY <1>4, Zenon DEF InsertRow
    <2> HIDE DEF t
    <2>3. Advances(session[i], t) /\ RowSound(i, t)
      BY <1>2, <2>1, PairingAssumption DEF Advances, RowSound, NoSession
    <2>4. /\ StoreInv' /\ Forward /\ JoinersKeep
          /\ session' \in [Invitations -> Session]
          /\ \A j \in Invitations \ {i} : session'[j] = session[j]
      BY <1>1, <1>2, <1>3, <1>4, <2>1, <2>2, <2>3, RowMoves, Zenon
    <2>5. Others(h) /\ handler'[h].at = "idle"
      BY <1>3, <2>2, FinishTakes, Zenon
    <2>6. CreationSound(h)' /\ HandlerSound(h)' /\ Apart(h)
      BY <2>5, EndedIsSound, Zenon
    <2>7. CreationsKept(h)
      BY <1>1, <1>2, <2>4, OwnRow, Zenon
    <2>8. TypeOK'
      BY <1>1, <1>3, <2>4, <2>5, Zenon DEF TypeOK, Others
    <2> QED BY <1>1, <2>4, <2>5, <2>6, <2>7, <2>8, HandlerStep, Zenon
  <1>5. CASE ~space
    <2>1. Step(h, "unstore") /\ session' = session
      BY <1>5, Zenon DEF InsertRow
    <2>2. /\ Others(h) /\ handler'[h].at = "unstore" /\ handler'[h].invitation = i
      BY <1>3, <2>1, StepTakes, Zenon DEF HandlerSteps
    <2>3. CreationSound(h)' /\ HandlerSound(h)'
      BY <1>2, <2>1, <2>2, Zenon DEF CreationSound, HandlerSound, Creating, Others
    <2>4. Apart(h)
      BY <1>1, <2>2, SameInvitation, Zenon
    <2>5. refused' \subseteq Claims /\ faults' \in [crashes : 0..MaxCrashes, errors : 0..MaxErrors]
      BY <1>1, <1>3, Zenon DEF TypeOK
    <2> QED BY <1>1, <2>1, <2>2, <2>3, <2>4, <2>5, HandlerOnly, Zenon
  <1> QED BY <1>4, <1>5, Zenon

LEMMA UnstoreSound ==
    ASSUME PairingInv, NEW h \in Handlers, Unstore(h)
    PROVE  PairingInv' /\ Forward
  <1> DEFINE i == handler[h].invitation
  <1>1. /\ handler[h].at = "unstore" /\ mode' = "up" /\ Finish(h) /\ secrets' = secrets \ {i}
        /\ UNCHANGED <<space, session, admitted, expired, lapsed, mode, joiner, refused, faults>>
    BY Zenon DEF Unstore, At
  <1>2. /\ i \in Invitations /\ session[i] = NoSession
        /\ \A k \in Handlers \ {h} : handler[k].at # "idle" => handler[k].invitation # i
    BY <1>1, Zenon DEF PairingInv, HandlersInv, CreationSound, Creating
  <1>3. Others(h) /\ handler'[h].at = "idle"
    BY <1>1, FinishTakes, Zenon DEF PairingInv
  <1>4. CreationSound(h)' /\ HandlerSound(h)' /\ Apart(h)
    BY <1>3, EndedIsSound, Zenon
  <1>5. ActiveRows \subseteq secrets'
    BY <1>1, <1>2 DEF PairingInv, StoreInv, ActiveHasSecret, ActiveRows, Active, NoSession
  <1>6. StoreInv' /\ Forward /\ JoinersKeep
    BY <1>1, <1>5, StoreKept, Zenon DEF PairingInv
  <1>7. CreationsKept(h)
    BY <1>1, <1>2, Zenon DEF CreationsKept, Creating
  <1>8. TypeOK'
    BY <1>1, <1>3, Zenon DEF PairingInv, TypeOK, Others
  <1> QED BY <1>1, <1>3, <1>4, <1>6, <1>7, <1>8, HandlerStep, Zenon

(* A handler moves a row that exists one step forward.                     *)
LEMMA RowStep ==
    ASSUME PairingInv, NEW h \in Handlers, mode = "up",
           NEW i \in Invitations, NEW t \in Session, SetRow(i, t),
           session[i].state # "absent", Advances(session[i], t), RowSound(i, t),
           Active(t) => Active(session[i]),
           UNCHANGED <<space, secrets, admitted, expired, lapsed, mode, joiner, faults>>,
           refused' \subseteq Claims,
           Others(h), Apart(h), CreationSound(h)', HandlerSound(h)'
    PROVE  PairingInv' /\ Forward
  <1>0. TypeOK /\ StoreInv /\ space
    BY RowsExist, Zenon DEF PairingInv
  <1>1. Active(t) => i \in secrets
    BY <1>0, Zenon DEF StoreInv, ActiveHasSecret, ActiveRows
  <1>2. /\ StoreInv' /\ Forward /\ JoinersKeep
        /\ session' \in [Invitations -> Session]
        /\ \A j \in Invitations \ {i} : session'[j] = session[j]
    BY <1>0, <1>1, RowMoves, Zenon
  <1>3. CreationsKept(h)
    BY <1>2, OwnRow, Zenon
  <1>4. TypeOK'
    BY <1>0, <1>2, Zenon DEF TypeOK, Others
  <1> QED BY <1>2, <1>3, <1>4, HandlerStep, Zenon

LEMMA StateField ==
    ASSUME NEW s \in Session, NEW state \in States
    PROVE  LET t == [s EXCEPT !.state = state] IN
           t \in Session /\ t.state = state /\ t.claim = s.claim /\ t.plan = s.plan
BY Zenon DEF Session

LEMMA ClaimSound ==
    ASSUME PairingInv, NEW h \in Handlers, Claim(h)
    PROVE  PairingInv' /\ Forward
  <1> DEFINE i == handler[h].invitation
             c == handler[h].claim
             s == session[i]
  <1>1. /\ handler[h].at = "claim" /\ mode = "up"
        /\ UNCHANGED <<space, secrets, admitted, expired, lapsed, mode, joiner, refused, faults>>
    BY Zenon DEF Claim, At
  <1>2. i \in Invitations /\ c \in Claims /\ InvitationOf[c] = i
    BY <1>1, Zenon DEF PairingInv, HandlersInv, HandlerSound, Creating
  <1>3. TypeOK /\ s \in Session /\ RowSound(i, s)
    BY <1>2, Zenon DEF PairingInv, TypeOK, StoreInv
  <1>4. refused' \subseteq Claims /\ faults' \in [crashes : 0..MaxCrashes, errors : 0..MaxErrors]
    BY <1>1, <1>3, Zenon DEF TypeOK
  <1>5. CASE Finish(h) /\ session' = session
    BY <1>1, <1>4, <1>5, EndsOnly, Zenon
  <1>6. CASE /\ Finish(h) /\ s.state = "created"
             /\ SetRow(i, [s EXCEPT !.state = "expired"])
    <2> DEFINE t == [s EXCEPT !.state = "expired"]
    <2>1. t \in Session /\ t.state = "expired" /\ t.claim = s.claim /\ t.plan = s.plan
      BY <1>3, StateField, Zenon DEF States
    <2>2. SetRow(i, t)
      BY <1>6, Zenon
    <2> HIDE DEF t
    <2>3. Advances(s, t) /\ RowSound(i, t) /\ ~Active(t)
      BY <1>3, <1>6, <2>1, Zenon DEF Advances, RowSound, Active
    <2>4. Others(h) /\ handler'[h].at = "idle"
      BY <1>3, <1>6, FinishTakes, Zenon
    <2>5. CreationSound(h)' /\ HandlerSound(h)' /\ Apart(h)
      BY <2>4, EndedIsSound, Zenon
    <2> QED BY <1>1, <1>2, <1>4, <1>6, <2>1, <2>2, <2>3, <2>4, <2>5, RowStep, Zenon
  <1>7. CASE /\ s.state = "created" /\ Step(h, "plan")
             /\ SetRow(i, [s EXCEPT !.state = "claimed", !.claim = c])
    <2> DEFINE t == [s EXCEPT !.state = "claimed", !.claim = c]
    <2>1. t \in Session /\ t.state = "claimed" /\ t.claim = c /\ t.plan = s.plan
      BY <1>2, <1>3, Zenon DEF Session, States
    <2>2. SetRow(i, t)
      BY <1>7, Zenon
    <2> HIDE DEF t
    <2>3. Advances(s, t) /\ RowSound(i, t) /\ Active(s)
      BY <1>2, <1>3, <1>7, <2>1, Zenon DEF Advances, RowSound, Active
    <2>4. /\ Others(h) /\ handler'[h].at = "plan" /\ handler'[h].invitation = i
          /\ handler'[h].claim = c
      BY <1>3, <1>7, StepTakes, Zenon DEF HandlerSteps
    <2>5. session'[i] = t
      BY <1>2, <1>3, <2>2, Zenon DEF TypeOK, SetRow
    <2>6. CreationSound(h)' /\ HandlerSound(h)'
      BY <1>2, <2>1, <2>4, <2>5, Zenon
      DEF CreationSound, HandlerSound, Creating, Confirming, Granting
    <2>7. Apart(h)
      BY <1>1, <2>4, SameInvitation, Zenon
    <2> QED BY <1>1, <1>2, <1>4, <1>7, <2>1, <2>2, <2>3, <2>4, <2>6, <2>7, RowStep, Zenon
  <1>8. CASE Step(h, "replay") /\ session' = session /\ s.state # "absent"
    <2>1. /\ Others(h) /\ handler'[h].at = "replay" /\ handler'[h].invitation = i
          /\ handler'[h].claim = c
      BY <1>3, <1>8, StepTakes, Zenon DEF HandlerSteps
    <2>2. CreationSound(h)' /\ HandlerSound(h)'
      BY <1>2, <1>8, <2>1, Zenon DEF CreationSound, HandlerSound, Creating, Confirming, Granting
    <2>3. Apart(h)
      BY <1>1, <2>1, SameInvitation, Zenon
    <2> QED BY <1>1, <1>4, <1>8, <2>1, <2>2, <2>3, HandlerOnly, Zenon
  <1> QED
    BY <1>5, <1>6, <1>7, <1>8, Zenon DEF Claim, Row

LEMMA ReplaySound ==
    ASSUME PairingInv, NEW h \in Handlers, Replay(h)
    PROVE  PairingInv' /\ Forward
  <1> DEFINE i == handler[h].invitation
             c == handler[h].claim
             s == session[i]
  <1>1. /\ handler[h].at = "replay" /\ mode = "up"
        /\ UNCHANGED <<space, session, secrets, admitted, expired, lapsed, mode, joiner,
                       refused, faults>>
    BY Zenon DEF Replay, At
  <1>2. i \in Invitations /\ c \in Claims /\ InvitationOf[c] = i
    BY <1>1, Zenon DEF PairingInv, HandlersInv, HandlerSound, Creating
  <1>3. /\ TypeOK /\ refused' \subseteq Claims
        /\ faults' \in [crashes : 0..MaxCrashes, errors : 0..MaxErrors]
    BY <1>1, Zenon DEF PairingInv, TypeOK
  <1>4. CASE Finish(h)
    BY <1>1, <1>3, <1>4, EndsOnly, Zenon
  <1>5. CASE Replayable(s, c) /\ Step(h, AfterClaim(s))
    <2> DEFINE step == AfterClaim(s)
    <2>0. step \in {"plan", "answer"}
      BY Zenon DEF AfterClaim
    <2> HIDE DEF step
    <2>1. /\ Others(h) /\ handler'[h].at = step /\ handler'[h].invitation = i
          /\ handler'[h].claim = c
      BY <1>3, <1>5, <2>0, StepTakes, Zenon DEF HandlerSteps, step
    <2>2. CreationSound(h)' /\ HandlerSound(h)'
      BY <1>1, <1>2, <1>5, <2>0, <2>1, Zenon
      DEF CreationSound, HandlerSound, Creating, Confirming, Granting, Replayable
    <2>3. Apart(h)
      BY <1>1, <2>1, SameInvitation, Zenon
    <2> QED BY <1>1, <1>3, <2>1, <2>2, <2>3, HandlerOnly, Zenon
  <1> QED BY <1>4, <1>5, Zenon DEF Replay, Row

LEMMA PlanSound ==
    ASSUME PairingInv, NEW h \in Handlers, NEW step, NEW next, Plan(h, step, next),
           <<step, next>> \in {<<"plan", "answer">>, <<"sign", "submit">>}
    PROVE  PairingInv' /\ Forward
  <1> DEFINE i == handler[h].invitation
             c == handler[h].claim
             s == session[i]
  <1>0. /\ step \in {"plan", "sign"} /\ next \in {"answer", "submit"}
        /\ next = "submit" => step = "sign"
    BY Zenon
  <1>1. /\ handler[h].at = step /\ mode = "up"
        /\ UNCHANGED <<space, secrets, admitted, expired, lapsed, mode, joiner, refused, faults>>
    BY Zenon DEF Plan, At
  <1>2. i \in Invitations /\ c \in Claims /\ InvitationOf[c] = i
    BY <1>0, <1>1, Zenon DEF PairingInv, HandlersInv, HandlerSound, Creating
  <1>3. TypeOK /\ s \in Session /\ RowSound(i, s) /\ handler[h] \in Handler
    BY <1>2, Zenon DEF PairingInv, TypeOK, StoreInv
  <1>4. refused' \subseteq Claims /\ faults' \in [crashes : 0..MaxCrashes, errors : 0..MaxErrors]
    BY <1>1, <1>3, Zenon DEF TypeOK
  <1>5. CASE Finish(h) /\ session' = session
    BY <1>1, <1>4, <1>5, EndsOnly, Zenon
  <1>6. ASSUME Plannable(h), NEW g \in Fresh(c), SetRow(i, [s EXCEPT !.plan = g]),
               Become(h, [handler[h] EXCEPT !.at = next, !.grant = g])
        PROVE  PairingInv' /\ Forward
    <2> DEFINE t == [s EXCEPT !.plan = g]
               r == [handler[h] EXCEPT !.at = next, !.grant = g]
    <2>0. g \in Grants
      BY Zenon DEF Fresh
    <2>1. t \in Session /\ t.state = s.state /\ t.claim = s.claim /\ t.plan = g
      BY <1>3, <2>0, Zenon DEF Session
    <2>2. /\ r \in Handler /\ r.at = next /\ r.invitation = i /\ r.claim = c /\ r.grant = g
          /\ r.by = handler[h].by
      BY <1>0, <1>3, <2>0, Zenon DEF Handler, HandlerSteps
    <2>3. SetRow(i, t) /\ Become(h, r)
      BY <1>6, Zenon
    <2> HIDE DEF t, r
    <2>4. s.state \in {"claimed", "confirmed"} /\ s.claim = c /\ s.plan = NoGrant
      BY <1>6, Zenon DEF Plannable, Row
    <2>5. Advances(s, t) /\ RowSound(i, t) /\ Active(s)
      BY <1>2, <2>1, <2>4, Zenon DEF Advances, RowSound, Active
    <2>6. Others(h) /\ handler'[h] = r
      BY <1>3, <2>2, <2>3, BecomeTakes, Zenon
    <2>7. session'[i] = t
      BY <1>2, <1>3, <2>3, Zenon DEF TypeOK, SetRow
    <2>8. /\ next = "submit" /\ handler[h].by = "joiner" => joiner[c].at \in {"pending", "paired"}
          /\ next = "submit" /\ space => s.state \in {"confirmed", "completed"}
      BY <1>0, <1>1, Zenon DEF PairingInv, HandlersInv, HandlerSound, Creating, Confirming, Granting
    <2>9. CreationSound(h)' /\ HandlerSound(h)'
      BY <1>0, <1>1, <1>2, <2>0, <2>1, <2>2, <2>4, <2>6, <2>7, <2>8, Zenon
      DEF CreationSound, HandlerSound, Creating, Confirming, Granting
    <2>10. Apart(h)
      BY <1>0, <1>1, <2>2, <2>6, SameInvitation, Zenon
    <2> QED BY <1>1, <1>2, <1>4, <2>1, <2>3, <2>4, <2>5, <2>6, <2>9, <2>10, RowStep, Zenon
  <1> QED
    BY <1>5, <1>6, Zenon DEF Plan, Row

LEMMA AnswerSound ==
    ASSUME PairingInv, NEW h \in Handlers, Answer(h)
    PROVE  PairingInv' /\ Forward
  <1> DEFINE i == handler[h].invitation
             c == handler[h].claim
             s == session[i]
  <1>1. /\ handler[h].at = "answer" /\ mode = "up" /\ Finish(h)
        /\ UNCHANGED <<space, session, secrets, admitted, expired, lapsed, mode, refused, faults>>
    BY Zenon DEF Answer, At
  <1>2. /\ i \in Invitations /\ c \in Claims /\ InvitationOf[c] = i
        /\ space => s.claim = c
    BY <1>1, Zenon DEF PairingInv, HandlersInv, HandlerSound, Creating
  <1>3. /\ TypeOK /\ StoreInv /\ refused' \subseteq Claims
        /\ faults' \in [crashes : 0..MaxCrashes, errors : 0..MaxErrors]
    BY <1>1, Zenon DEF PairingInv, TypeOK
  <1>4. CASE joiner' = joiner
    BY <1>1, <1>3, <1>4, EndsOnly, Zenon
  <1>5. ASSUME joiner[c].at = "claiming",
               NEW r, joiner' = [joiner EXCEPT ![c] = r],
               \/ s.plan # NoGrant /\ r = [at |-> "pending", grant |-> s.plan]
               \/ r = [at |-> "failed", grant |-> NoGrant]
        PROVE  PairingInv' /\ Forward
    <2> DEFINE J == [at : {"claiming", "pending", "paired", "failed"},
                     grant : Grants \cup {NoGrant}]
    <2>1. /\ r \in J
          /\ r.at \in {"pending", "failed"}
          /\ r.at = "pending" => r.grant = s.plan /\ s.plan # NoGrant
      BY <1>2, <1>3, <1>5 DEF TypeOK, Session
    <2>2. /\ joiner' \in [Claims -> J] /\ joiner'[c] = r
          /\ \A d \in Claims \ {c} : joiner'[d] = joiner[d]
      BY <1>2, <1>3, <1>5, <2>1, Zenon DEF TypeOK
    <2> HIDE DEF J
    <2>3. JoinersKeep
      BY <1>5, <2>2, Zenon DEF JoinersKeep
    <2>4. PromisesAreKept'
      BY <1>1, <1>2, <1>3, <2>1, <2>2 DEF StoreInv, PromisesAreKept
    <2>5. (\A d \in Claims : joiner[d].at \in {"pending", "paired"} => joiner[d].grant # NoGrant)'
      BY <1>3, <2>1, <2>2, Zenon DEF StoreInv
    <2>6. ActiveHasSecret' /\ GrantsAreConfirmed'
      BY <1>1, <1>3, Zenon DEF StoreInv, ActiveHasSecret, ActiveRows, Active, GrantsAreConfirmed
    <2>7. StoreInv'
      BY <1>1, <1>3, <2>4, <2>5, <2>6, Zenon DEF StoreInv, RowSound
    <2>8. Forward /\ CreationsKept(h)
      BY <1>1, Zenon DEF Forward, Advances, CreationsKept
    <2>9. Others(h) /\ handler'[h].at = "idle"
      BY <1>1, <1>3, FinishTakes, Zenon
    <2>10. CreationSound(h)' /\ HandlerSound(h)' /\ Apart(h)
      BY <2>9, EndedIsSound, Zenon
    <2>11. TypeOK'
      BY <1>1, <1>3, <2>2, <2>9, Zenon DEF TypeOK, Others, J
    <2> QED BY <1>1, <2>3, <2>7, <2>8, <2>9, <2>10, <2>11, HandlerStep, Zenon
  <1> QED
    <2> DEFINE r == IF s.state = "claimed" /\ s.plan # NoGrant
                       THEN [at |-> "pending", grant |-> s.plan]
                       ELSE [at |-> "failed", grant |-> NoGrant]
    <2>1. \/ s.plan # NoGrant /\ r = [at |-> "pending", grant |-> s.plan]
          \/ r = [at |-> "failed", grant |-> NoGrant]
      BY Zenon
    <2>2. \/ joiner[c].at = "claiming" /\ joiner' = [joiner EXCEPT ![c] = r]
          \/ joiner' = joiner
      BY Zenon DEF Answer, Row
    <2> HIDE DEF r
    <2> QED BY <1>4, <1>5, <2>1, <2>2, Zenon

LEMMA ResumeSound ==
    ASSUME PairingInv, NEW h \in Handlers, Resume(h)
    PROVE  PairingInv' /\ Forward
  <1> DEFINE i == handler[h].invitation
             c == handler[h].claim
             s == session[i]
  <1>1. /\ handler[h].at = "resume" /\ mode = "up"
        /\ UNCHANGED <<space, session, secrets, admitted, expired, lapsed, mode, joiner, faults>>
    BY Zenon DEF Resume, At
  <1>2. /\ i \in Invitations /\ c \in Claims /\ InvitationOf[c] = i
        /\ handler[h].by = "joiner" => joiner[c].at \in {"pending", "paired"}
        /\ space => s.state # "absent" /\ s.claim = c
    BY <1>1, Zenon DEF PairingInv, HandlersInv, HandlerSound, Creating, Confirming
  <1>3. /\ TypeOK /\ s \in Session /\ refused \subseteq Claims
        /\ faults' \in [crashes : 0..MaxCrashes, errors : 0..MaxErrors]
    BY <1>1, <1>2, Zenon DEF PairingInv, TypeOK
  <1>4. CASE Refuse(h, c, handler[h].by)
    <2>1. refused' \subseteq Claims /\ Finish(h)
      BY <1>2, <1>4, RefusalTypes, Zenon
    <2> QED BY <1>1, <1>3, <2>1, EndsOnly, Zenon
  <1>5. ASSUME NEW step, Step(h, step), refused' = refused,
               <<s.state, step>> \in {<<"completed", "purge">>, <<"claimed", "confirm">>}
        PROVE  PairingInv' /\ Forward
    <2>0. step \in {"purge", "confirm"} /\ (step = "purge" => s.state = "completed")
      BY <1>5, Zenon
    <2>1. /\ Others(h) /\ handler'[h].at = step /\ handler'[h].invitation = i
          /\ handler'[h].claim = c /\ handler'[h].by = handler[h].by
      BY <1>3, <1>5, <2>0, StepTakes, Zenon DEF HandlerSteps
    <2>2. CreationSound(h)' /\ HandlerSound(h)'
      BY <1>1, <1>2, <2>0, <2>1, Zenon
      DEF CreationSound, HandlerSound, Creating, Confirming, Granting
    <2>3. Apart(h)
      BY <1>1, <2>1, SameInvitation, Zenon
    <2> QED BY <1>1, <1>3, <1>5, <2>1, <2>2, <2>3, HandlerOnly, Zenon
  <1>6. CASE s.state = "confirmed" /\ Proceed(h, s) /\ refused' = refused
    <2> DEFINE step == IF s.plan = NoGrant THEN "sign" ELSE "submit"
    <2>0. /\ step \in {"sign", "submit"}
          /\ step = "submit" => s.plan \in Grants
      BY <1>3, Zenon DEF Session
    <2>1. /\ Others(h) /\ handler'[h].at = step /\ handler'[h].by = handler[h].by
          /\ handler'[h].invitation = i /\ handler'[h].claim = c /\ handler'[h].grant = s.plan
      BY <1>3, <1>6, ProceedTakes, Zenon
    <2> HIDE DEF step
    <2>2. CreationSound(h)' /\ HandlerSound(h)'
      BY <1>1, <1>2, <1>6, <2>0, <2>1, Zenon
      DEF CreationSound, HandlerSound, Creating, Confirming, Granting
    <2>3. Apart(h)
      BY <1>1, <2>1, SameInvitation, Zenon
    <2> QED BY <1>1, <1>3, <1>6, <2>1, <2>2, <2>3, HandlerOnly, Zenon
  <1> QED
    <2>1. CASE s.state = "completed"
      BY <1>5, <2>1, Zenon DEF Resume, Row
    <2>2. CASE s.state = "claimed"
      BY <1>5, <2>2, Zenon DEF Resume, Row
    <2>3. CASE s.state = "confirmed"
      BY <1>6, <2>3, Zenon DEF Resume, Row
    <2>4. CASE s.state \notin {"completed", "claimed", "confirmed"}
      BY <1>4, <2>4, Zenon DEF Resume, Row
    <2> QED BY <2>1, <2>2, <2>3, <2>4, Zenon

LEMMA ConfirmSound ==
    ASSUME PairingInv, NEW h \in Handlers, Confirm(h)
    PROVE  PairingInv' /\ Forward
  <1> DEFINE i == handler[h].invitation
             c == handler[h].claim
             s == session[i]
  <1>1. /\ handler[h].at = "confirm" /\ mode = "up"
        /\ UNCHANGED <<space, secrets, admitted, expired, lapsed, mode, joiner, faults>>
    BY Zenon DEF Confirm, At
  <1>2. /\ i \in Invitations /\ c \in Claims /\ InvitationOf[c] = i
        /\ handler[h].by = "joiner" => joiner[c].at \in {"pending", "paired"}
    BY <1>1, Zenon DEF PairingInv, HandlersInv, HandlerSound, Creating, Confirming
  <1>3. /\ TypeOK /\ s \in Session /\ RowSound(i, s) /\ refused \subseteq Claims
        /\ faults' \in [crashes : 0..MaxCrashes, errors : 0..MaxErrors]
    BY <1>1, <1>2, Zenon DEF PairingInv, TypeOK, StoreInv
  <1>4. CASE Refuse(h, c, handler[h].by) /\ session' = session
    <2>1. refused' \subseteq Claims /\ Finish(h)
      BY <1>2, <1>4, RefusalTypes, Zenon
    <2> QED BY <1>1, <1>3, <1>4, <2>1, EndsOnly, Zenon
  <1>5. CASE /\ s.state = "claimed" /\ s.claim = c /\ Proceed(h, s) /\ refused' = refused
             /\ SetRow(i, [s EXCEPT !.state = "confirmed"])
    <2> DEFINE step == IF s.plan = NoGrant THEN "sign" ELSE "submit"
               t == [s EXCEPT !.state = "confirmed"]
    <2>0. /\ step \in {"sign", "submit"}
          /\ step = "submit" => s.plan \in Grants
      BY <1>3, Zenon DEF Session
    <2>1. /\ Others(h) /\ handler'[h].at = step /\ handler'[h].by = handler[h].by
          /\ handler'[h].invitation = i /\ handler'[h].claim = c /\ handler'[h].grant = s.plan
      BY <1>3, <1>5, ProceedTakes, Zenon
    <2>2. t \in Session /\ t.state = "confirmed" /\ t.claim = s.claim /\ t.plan = s.plan
      BY <1>3, StateField, Zenon DEF States
    <2>3. SetRow(i, t)
      BY <1>5, Zenon
    <2> HIDE DEF step, t
    <2>4. Advances(s, t) /\ RowSound(i, t) /\ Active(s)
      BY <1>3, <1>5, <2>2, Zenon DEF Advances, RowSound, Active
    <2>5. session'[i] = t
      BY <1>2, <1>3, <2>3, Zenon DEF TypeOK, SetRow
    <2>6. CreationSound(h)' /\ HandlerSound(h)'
      BY <1>1, <1>2, <1>5, <2>0, <2>1, <2>2, <2>5, Zenon
      DEF CreationSound, HandlerSound, Creating, Confirming, Granting
    <2>7. Apart(h)
      BY <1>1, <2>1, SameInvitation, Zenon
    <2> QED BY <1>1, <1>2, <1>3, <1>5, <2>1, <2>2, <2>3, <2>4, <2>6, <2>7, RowStep, Zenon
  <1> QED BY <1>4, <1>5, Zenon DEF Confirm, Row

LEMMA SubmitSound ==
    ASSUME PairingInv, NEW h \in Handlers, Submit(h)
    PROVE  PairingInv' /\ Forward
  <1> DEFINE i == handler[h].invitation
             c == handler[h].claim
             g == handler[h].grant
  <1>1. /\ handler[h].at = "submit" /\ mode = "up"
        /\ UNCHANGED <<space, session, secrets, expired, lapsed, mode, joiner, refused, faults>>
    BY Zenon DEF Submit, At
  <1>2. /\ i \in Invitations /\ c \in Claims /\ InvitationOf[c] = i
        /\ handler[h].by = "joiner" => joiner[c].at \in {"pending", "paired"}
        /\ space => /\ session[i].state \in {"confirmed", "completed"}
                    /\ session[i].claim = c /\ g \in Grants /\ session[i].plan = g
    BY <1>1, Zenon DEF PairingInv, HandlersInv, HandlerSound, Creating, Confirming, Granting
  <1>3. /\ TypeOK /\ StoreInv /\ refused' \subseteq Claims
        /\ faults' \in [crashes : 0..MaxCrashes, errors : 0..MaxErrors]
    BY <1>1, Zenon DEF PairingInv, TypeOK
  <1>4. CASE Finish(h) /\ admitted' = admitted
    BY <1>1, <1>3, <1>4, EndsOnly, Zenon
  <1>5. CASE space /\ admitted' = admitted \cup {g} /\ Step(h, "complete")
    <2>1. /\ Others(h) /\ handler'[h].at = "complete" /\ handler'[h].invitation = i
          /\ handler'[h].claim = c /\ handler'[h].by = handler[h].by
          /\ handler'[h].grant = g
      BY <1>3, <1>5, StepTakes, Zenon DEF HandlerSteps
    <2>2. CreationSound(h)' /\ HandlerSound(h)'
      BY <1>1, <1>2, <2>1, Zenon
      DEF CreationSound, HandlerSound, Creating, Confirming, Granting
    <2>3. Apart(h)
      BY <1>1, <2>1, SameInvitation, Zenon
    <2>4. GrantsAreConfirmed'
      BY <1>1, <1>2, <1>3, <1>5 DEF StoreInv, GrantsAreConfirmed
    <2>5. PromisesAreKept'
      BY <1>1, <1>3, <1>5, Zenon DEF StoreInv, PromisesAreKept
    <2>6. ActiveHasSecret'
      BY <1>1, <1>3, Zenon DEF StoreInv, ActiveHasSecret, ActiveRows, Active
    <2>7. (\A j \in Invitations : RowSound(j, session[j]))'
      BY <1>1, <1>3, <1>5, Zenon DEF StoreInv, RowSound
    <2>8. StoreInv'
      BY <1>1, <1>3, <1>5, <2>4, <2>5, <2>6, <2>7, Zenon DEF StoreInv
    <2>9. Forward /\ JoinersKeep /\ CreationsKept(h)
      BY <1>1, Zenon DEF Forward, Advances, JoinersKeep, CreationsKept
    <2>10. TypeOK'
      BY <1>1, <1>2, <1>3, <1>5, <2>1, Zenon DEF TypeOK, Others
    <2> QED BY <1>1, <2>1, <2>2, <2>3, <2>8, <2>9, <2>10, HandlerStep, Zenon
  <1> QED BY <1>4, <1>5, Zenon DEF Submit

LEMMA CompleteSound ==
    ASSUME PairingInv, NEW h \in Handlers, Complete(h)
    PROVE  PairingInv' /\ Forward
  <1> DEFINE i == handler[h].invitation
             c == handler[h].claim
             s == session[i]
  <1>1. /\ handler[h].at = "complete" /\ mode = "up"
        /\ UNCHANGED <<space, secrets, admitted, expired, lapsed, mode, joiner, faults>>
    BY Zenon DEF Complete, At
  <1>2. /\ i \in Invitations /\ c \in Claims /\ InvitationOf[c] = i
        /\ handler[h].by = "joiner" => joiner[c].at \in {"pending", "paired"}
        /\ space => s.claim = c
    BY <1>1, Zenon DEF PairingInv, HandlersInv, HandlerSound, Creating, Confirming, Granting
  <1>3. /\ TypeOK /\ s \in Session /\ RowSound(i, s) /\ refused \subseteq Claims
        /\ faults' \in [crashes : 0..MaxCrashes, errors : 0..MaxErrors]
    BY <1>1, <1>2, Zenon DEF PairingInv, TypeOK, StoreInv
  <1>4. CASE Refuse(h, c, handler[h].by) /\ session' = session
    <2>1. refused' \subseteq Claims /\ Finish(h)
      BY <1>2, <1>4, RefusalTypes, Zenon
    <2> QED BY <1>1, <1>3, <1>4, <2>1, EndsOnly, Zenon
  <1>5. CASE /\ s.state = "confirmed" /\ s.plan \in admitted
             /\ SetRow(i, [s EXCEPT !.state = "completed"])
             /\ Step(h, "purge") /\ refused' = refused
    <2> DEFINE t == [s EXCEPT !.state = "completed"]
    <2>1. /\ Others(h) /\ handler'[h].at = "purge" /\ handler'[h].invitation = i
          /\ handler'[h].claim = c /\ handler'[h].by = handler[h].by
      BY <1>3, <1>5, StepTakes, Zenon DEF HandlerSteps
    <2>2. t \in Session /\ t.state = "completed" /\ t.claim = s.claim /\ t.plan = s.plan
      BY <1>3, StateField, Zenon DEF States
    <2>3. SetRow(i, t)
      BY <1>5, Zenon
    <2> HIDE DEF t
    <2>4. Advances(s, t) /\ RowSound(i, t) /\ ~Active(t)
      BY <1>3, <1>5, <2>2, Zenon DEF Advances, RowSound, Active
    <2>5. session'[i] = t
      BY <1>2, <1>3, <2>3, Zenon DEF TypeOK, SetRow
    <2>6. CreationSound(h)' /\ HandlerSound(h)'
      BY <1>1, <1>2, <1>5, <2>1, <2>2, <2>5, Zenon
      DEF CreationSound, HandlerSound, Creating, Confirming, Granting
    <2>7. Apart(h)
      BY <1>1, <2>1, SameInvitation, Zenon
    <2> QED BY <1>1, <1>2, <1>3, <1>5, <2>1, <2>2, <2>3, <2>4, <2>6, <2>7, RowStep, Zenon
  <1> QED BY <1>4, <1>5, Zenon DEF Complete, Row

LEMMA PurgeSound ==
    ASSUME PairingInv, NEW h \in Handlers, Purge(h)
    PROVE  PairingInv' /\ Forward
  <1> DEFINE i == handler[h].invitation
             c == handler[h].claim
  <1>1. /\ handler[h].at = "purge" /\ mode = "up" /\ Finish(h) /\ secrets' = secrets \ {i}
        /\ UNCHANGED <<space, session, admitted, expired, lapsed, mode, faults>>
    BY Zenon DEF Purge, At
  <1>2. /\ i \in Invitations
        /\ space => session[i].state \in {"completed", "cancelled"}
        /\ handler[h].by = "joiner" =>
              /\ c \in Claims /\ InvitationOf[c] = i /\ joiner[c].at \in {"pending", "paired"}
              /\ space => session[i].state = "completed" /\ session[i].claim = c
    BY <1>1, Zenon DEF PairingInv, HandlersInv, HandlerSound, Creating
  <1>3. TypeOK /\ StoreInv
    BY Zenon DEF PairingInv
  <1>4. Others(h) /\ handler'[h].at = "idle"
    BY <1>1, <1>3, FinishTakes, Zenon
  <1>5. CreationSound(h)' /\ HandlerSound(h)' /\ Apart(h)
    BY <1>4, EndedIsSound, Zenon
  <1>6. ActiveRows \subseteq secrets'
    BY <1>1, <1>2, <1>3 DEF StoreInv, ActiveHasSecret, ActiveRows, Active, NoSession
  <1>7. CreationsKept(h)
    BY <1>1, Zenon DEF PairingInv, HandlersInv, CreationSound, CreationsKept
  <1>8. CASE UNCHANGED <<joiner, refused>>
    <2>1. StoreInv' /\ Forward /\ JoinersKeep
      BY <1>1, <1>3, <1>6, <1>8, StoreKept, Zenon
    <2>2. TypeOK'
      BY <1>1, <1>3, <1>4, <1>8, Zenon DEF TypeOK, Others
    <2> QED BY <1>1, <1>4, <1>5, <1>7, <2>1, <2>2, HandlerStep, Zenon
  <1>9. CASE /\ handler[h].by = "joiner" /\ refused' = refused \ {c}
             /\ joiner' = [joiner EXCEPT ![c].at = "paired"]
    <2> DEFINE J == [at : {"claiming", "pending", "paired", "failed"},
                     grant : Grants \cup {NoGrant}]
               r == [joiner[c] EXCEPT !.at = "paired"]
    <2>1. c \in Claims /\ joiner[c].at \in {"pending", "paired"} /\ joiner \in [Claims -> J]
      BY <1>2, <1>3, <1>9, Zenon DEF TypeOK
    <2>2. r \in J /\ r.at = "paired" /\ r.grant = joiner[c].grant
      BY <2>1, Zenon
    <2>3. joiner' = [joiner EXCEPT ![c] = r]
      BY <1>9, Zenon
    <2> HIDE DEF J, r
    <2>4. /\ joiner' \in [Claims -> J] /\ joiner'[c] = r
          /\ \A d \in Claims \ {c} : joiner'[d] = joiner[d]
      BY <2>1, <2>2, <2>3, Zenon
    <2>5. JoinersKeep
      BY <2>2, <2>4, Zenon DEF JoinersKeep
    <2>6. PromisesAreKept'
      <3>1. ASSUME space
            PROVE  /\ session[i].claim = c /\ session[i].plan = joiner[c].grant
                   /\ session[i].state = "completed" /\ session[i].plan \in admitted
        BY <1>2, <1>3, <1>9, <2>1, <3>1, Zenon DEF StoreInv, PromisesAreKept, RowSound
      <3> QED BY <1>1, <1>2, <1>3, <1>9, <2>1, <2>2, <2>4, <3>1 DEF StoreInv, PromisesAreKept
    <2>7. (\A d \in Claims : joiner[d].at \in {"pending", "paired"} => joiner[d].grant # NoGrant)'
      BY <1>3, <2>1, <2>2, <2>4, Zenon DEF StoreInv
    <2>8. ActiveHasSecret' /\ GrantsAreConfirmed'
      BY <1>1, <1>3, <1>6, Zenon
      DEF StoreInv, ActiveHasSecret, ActiveRows, Active, GrantsAreConfirmed
    <2>9. StoreInv'
      BY <1>1, <1>3, <2>6, <2>7, <2>8, Zenon DEF StoreInv, RowSound
    <2>10. Forward
      BY <1>1, Zenon DEF Forward, Advances
    <2>11. TypeOK'
      BY <1>1, <1>3, <1>4, <1>9, <2>4, Zenon DEF TypeOK, Others, J
    <2> QED BY <1>1, <1>4, <1>5, <1>7, <2>5, <2>9, <2>10, <2>11, HandlerStep, Zenon
  <1> QED BY <1>8, <1>9, Zenon DEF Purge

LEMMA CancelSound ==
    ASSUME PairingInv, NEW h \in Handlers, NEW i \in Invitations, Cancel(h, i)
    PROVE  PairingInv' /\ Forward
  <1> DEFINE s == session[i]
             t == [s EXCEPT !.state = "cancelled"]
             r == [Idle EXCEPT !.at = "purge", !.invitation = i]
  <1>1. /\ mode = "up" /\ s.state \in {"created", "claimed"}
        /\ SetRow(i, t) /\ Become(h, r)
        /\ UNCHANGED <<space, secrets, admitted, expired, lapsed, mode, joiner, refused, faults>>
    BY Zenon DEF Cancel, Free
  <1>2. /\ r \in Handler /\ r.at = "purge" /\ r.invitation = i /\ r.by = "operator"
    BY Zenon DEF Idle, Handler, HandlerSteps
  <1>3. TypeOK /\ s \in Session /\ RowSound(i, s) /\ refused' \subseteq Claims
    BY <1>1, Zenon DEF PairingInv, TypeOK, StoreInv
  <1>4. t \in Session /\ t.state = "cancelled" /\ t.claim = s.claim /\ t.plan = s.plan
    BY <1>3, StateField, Zenon DEF States
  <1> HIDE DEF t, r
  <1>5. Others(h) /\ handler'[h] = r
    BY <1>1, <1>2, <1>3, BecomeTakes, Zenon
  <1>6. Advances(s, t) /\ RowSound(i, t) /\ ~Active(t)
    BY <1>1, <1>3, <1>4, Zenon DEF Advances, RowSound, Active
  <1>7. session'[i] = t
    BY <1>1, <1>3, Zenon DEF TypeOK, SetRow
  <1>8. CreationSound(h)' /\ HandlerSound(h)'
    BY <1>2, <1>4, <1>5, <1>7, Zenon DEF CreationSound, HandlerSound, Creating, Confirming, Granting
  <1>9. Apart(h)
    BY <1>1, <1>2, <1>5, KnownInvitation, Zenon
  <1> QED BY <1>1, <1>3, <1>4, <1>5, <1>6, <1>8, <1>9, RowStep, Zenon

(* A request that turns to a session that exists.                          *)
LEMMA RequestSound ==
    ASSUME PairingInv, NEW h \in Handlers, NEW i \in Invitations, NEW r \in Handler,
           NEW c \in Claims, mode = "up", Become(h, r), InvitationOf[c] = i,
           r.invitation = i, r.claim = c, session[i].state # "absent",
           r.at \in {"claim", "plan", "answer", "resume"},
           r.at # "claim" => session[i].claim = c,
           r.at = "resume" /\ r.by = "joiner" => joiner[c].at \in {"pending", "paired"},
           UNCHANGED <<space, session, secrets, admitted, expired, lapsed, mode, joiner,
                       refused, faults>>
    PROVE  PairingInv' /\ Forward
  <1>1. Others(h) /\ handler'[h] = r
    BY BecomeTakes, Zenon DEF PairingInv
  <1>2. CreationSound(h)' /\ HandlerSound(h)'
    BY <1>1, Zenon DEF CreationSound, HandlerSound, Creating, Confirming, Granting
  <1>3. Apart(h)
    BY <1>1, KnownInvitation, Zenon
  <1>4. refused' \subseteq Claims /\ faults' \in [crashes : 0..MaxCrashes, errors : 0..MaxErrors]
    BY Zenon DEF PairingInv, TypeOK
  <1> QED BY <1>1, <1>2, <1>3, <1>4, HandlerOnly, Zenon

LEMMA HandshakeSound ==
    ASSUME PairingInv, NEW h \in Handlers, NEW c \in Claims, Handshake(h, c)
    PROVE  PairingInv' /\ Forward
  <1> DEFINE i == InvitationOf[c]
  <1>1. /\ mode = "up" /\ i \in Invitations
        /\ UNCHANGED <<space, session, secrets, admitted, expired, lapsed, mode, joiner,
                       refused, faults>>
    BY PairingAssumption, Zenon DEF Handshake, Free
  <1>2. ASSUME NEW step \in {"claim", "plan", "answer"}, NEW late \in BOOLEAN,
               session[i].state # "absent", step # "claim" => session[i].claim = c,
               Become(h, [at |-> step, by |-> "joiner", invitation |-> i, claim |-> c,
                          grant |-> NoGrant, late |-> late])
        PROVE  PairingInv' /\ Forward
    <2> DEFINE r == [at |-> step, by |-> "joiner", invitation |-> i, claim |-> c,
                     grant |-> NoGrant, late |-> late]
    <2>1. r \in Handler
      BY <1>1, Zenon DEF Handler, HandlerSteps
    <2>2. r.at = step /\ r.invitation = i /\ r.claim = c
      BY Zenon
    <2>3. Become(h, r)
      BY <1>2, Zenon
    <2> HIDE DEF r
    <2> QED BY <1>1, <1>2, <2>1, <2>2, <2>3, RequestSound, Zenon
  <1>3. AfterClaim(session[i]) \in {"plan", "answer"} /\ (i \in expired) \in BOOLEAN
    BY DEF AfterClaim
  <1> QED
    BY <1>2, <1>3, Zenon DEF Handshake, Replayable

LEMMA AcceptSound ==
    ASSUME PairingInv, NEW h \in Handlers, NEW c \in Claims, Accept(h, c)
    PROVE  PairingInv' /\ Forward
  <1> DEFINE i == InvitationOf[c]
             r == [at |-> "resume", by |-> "joiner", invitation |-> i, claim |-> c,
                   grant |-> NoGrant, late |-> FALSE]
  <1>1. /\ mode = "up" /\ i \in Invitations /\ joiner[c].at = "pending"
        /\ UNCHANGED <<space, session, secrets, admitted, expired, lapsed, mode, joiner, faults>>
    BY PairingAssumption, Zenon DEF Accept, Free
  <1>2. CASE ValidAcceptance(c)
    <2>1. r \in Handler
      BY <1>1, Zenon DEF Handler, HandlerSteps
    <2>2. r.at = "resume" /\ r.invitation = i /\ r.claim = c
      BY Zenon
    <2>3. Become(h, r) /\ refused' = refused
      BY <1>2, Zenon DEF Accept
    <2>4. session[i].state # "absent" /\ session[i].claim = c
      BY <1>2, Zenon DEF ValidAcceptance
    <2> HIDE DEF r
    <2> QED BY <1>1, <2>1, <2>2, <2>3, <2>4, RequestSound, Zenon
  <1>3. CASE ~ValidAcceptance(c)
    <2>1. Refuse(h, c, "joiner")
      BY <1>3, Zenon DEF Accept
    <2>2. refused' \subseteq Claims /\ Finish(h)
      BY <2>1, RefusalTypes, Zenon
    <2>3. faults' \in [crashes : 0..MaxCrashes, errors : 0..MaxErrors]
      BY <1>1, Zenon DEF PairingInv, TypeOK
    <2> QED BY <1>1, <2>2, <2>3, EndsOnly, Zenon
  <1> QED BY <1>2, <1>3, Zenon

LEMMA OperatorConfirmSound ==
    ASSUME PairingInv, NEW h \in Handlers, NEW i \in Invitations, OperatorConfirm(h, i)
    PROVE  PairingInv' /\ Forward
  <1> DEFINE c == session[i].claim
             r == [at |-> "resume", by |-> "operator", invitation |-> i, claim |-> c,
                   grant |-> NoGrant, late |-> FALSE]
  <1>1. /\ mode = "up" /\ c # NoClaim /\ Become(h, r)
        /\ UNCHANGED <<space, session, secrets, admitted, expired, lapsed, mode, joiner,
                       refused, faults>>
    BY Zenon DEF OperatorConfirm, Free
  <1>2. session[i] \in Session /\ RowSound(i, session[i])
    BY Zenon DEF PairingInv, TypeOK, StoreInv
  <1>3. c \in Claims /\ InvitationOf[c] = i /\ session[i].state # "absent"
    BY <1>1, <1>2, Zenon DEF Session, RowSound
  <1>4. r \in Handler
    BY <1>3, Zenon DEF Handler, HandlerSteps
  <1>5. r.at = "resume" /\ r.invitation = i /\ r.claim = c /\ r.by = "operator"
    BY Zenon
  <1> HIDE DEF r
  <1> QED BY <1>1, <1>3, <1>4, <1>5, RequestSound, Zenon

LEMMA HandlerFailsSound ==
    ASSUME PairingInv, NEW h \in Handlers, HandlerFails(h)
    PROVE  PairingInv' /\ Forward
  <1>1. /\ mode = "up" /\ handler[h].at # "idle"
        /\ UNCHANGED <<space, session, secrets, admitted, expired, lapsed, mode, joiner, refused>>
    BY Zenon DEF HandlerFails
  <1>2. refused' \subseteq Claims
    BY <1>1, Zenon DEF PairingInv, TypeOK
  <1>3. faults' \in [crashes : 0..MaxCrashes, errors : 0..MaxErrors]
    BY PairingAssumption DEF PairingInv, TypeOK, HandlerFails
  <1>4. CASE Finish(h)
    BY <1>1, <1>2, <1>3, <1>4, EndsOnly, Zenon
  <1>5. CASE handler[h].at = "insert" /\ Step(h, "unstore")
    <2>1. /\ Others(h) /\ handler'[h].at = "unstore"
          /\ handler'[h].invitation = handler[h].invitation
      BY <1>5, StepTakes, Zenon DEF PairingInv, HandlerSteps
    <2>2. CreationSound(h)
      BY Zenon DEF PairingInv, HandlersInv
    <2>3. CreationSound(h)' /\ HandlerSound(h)'
      BY <1>1, <1>5, <2>1, <2>2, Zenon DEF CreationSound, HandlerSound, Creating, Others
    <2>4. Apart(h)
      BY <1>1, <2>1, SameInvitation, Zenon
    <2> QED BY <1>1, <1>2, <1>3, <2>1, <2>3, <2>4, HandlerOnly, Zenon
  <1> QED BY <1>4, <1>5, Zenon DEF HandlerFails

LEMMA DeleteSpaceSound ==
    ASSUME PairingInv, DeleteSpace
    PROVE  PairingInv' /\ Forward
  <1>1. /\ space' = FALSE /\ admitted' = {} /\ session' = [i \in Invitations |-> NoSession]
        /\ UNCHANGED <<secrets, expired, lapsed, mode, handler, joiner, refused, faults>>
    BY Zenon DEF DeleteSpace
  <1>2. NoSession \in Session
    BY Zenon DEF NoSession, Session, States
  <1>3. TypeOK'
    BY <1>1, <1>2, Zenon DEF PairingInv, TypeOK
  <1>4. StoreInv'
    <2>1. ActiveHasSecret' /\ GrantsAreConfirmed' /\ PromisesAreKept'
      BY <1>1, Zenon DEF ActiveHasSecret, ActiveRows, Active, NoSession, GrantsAreConfirmed,
                  PromisesAreKept
    <2>2. (\A i \in Invitations : RowSound(i, session[i]))'
      BY <1>1, PairingAssumption, Zenon DEF RowSound, NoSession
    <2> QED BY <1>1, <2>1, <2>2, Zenon DEF PairingInv, StoreInv
  <1>5. ASSUME NEW h \in Handlers PROVE CreationSound(h)' /\ HandlerSound(h)'
    <2>1. CreationSound(h) /\ HandlerSound(h)
      BY <1>5, Zenon DEF PairingInv, HandlersInv
    <2>2. CreationSound(h)'
      BY <1>1, <2>1, Zenon DEF CreationSound
    <2>3. HandlerSound(h)'
      BY <1>1, <2>1, Zenon DEF HandlerSound
    <2> QED BY <2>2, <2>3, Zenon
  <1> QED BY <1>1, <1>3, <1>4, <1>5, Zenon DEF PairingInv, HandlersInv, DownIsIdle, Forward

(* The clock passes a deadline.                                            *)
LEMMA DeadlineSound ==
    ASSUME PairingInv, NEW i \in Invitations, Expire(i) \/ Lapse(i)
    PROVE  PairingInv' /\ Forward
  <1>1. UNCHANGED <<space, session, secrets, admitted, mode, handler, joiner, refused, faults>>
    BY Zenon DEF Expire, Lapse
  <1>2. TypeOK'
    BY <1>1, Zenon DEF PairingInv, TypeOK, Expire, Lapse
  <1>3. StoreInv' /\ Forward
    BY <1>1, StoreKept, Zenon DEF PairingInv, StoreInv, ActiveHasSecret
  <1>4. HandlersInv' /\ DownIsIdle'
    BY <1>1, ZenonT(30) DEF PairingInv, HandlersInv, CreationSound, HandlerSound, DownIsIdle
  <1> QED BY <1>2, <1>3, <1>4, Zenon DEF PairingInv

(* A node that serves no one keeps the invariant if its tables do.         *)
LEMMA IdleSound ==
    ASSUME TypeOK', StoreInv', \A h \in Handlers : handler'[h].at = "idle"
    PROVE  PairingInv'
  <1>1. HandlersInv'
    BY Zenon DEF HandlersInv, CreationSound, HandlerSound, Creating
  <1> QED BY <1>1, Zenon DEF PairingInv, DownIsIdle

LEMMA CrashSound ==
    ASSUME PairingInv, Crash
    PROVE  PairingInv' /\ Forward
  <1>1. /\ handler' = [h \in Handlers |-> Idle] /\ mode' = "down"
        /\ UNCHANGED <<space, session, secrets, admitted, expired, lapsed, joiner, refused>>
    BY Zenon DEF Crash
  <1>2. faults' \in [crashes : 0..MaxCrashes, errors : 0..MaxErrors]
    BY PairingAssumption DEF PairingInv, TypeOK, Crash
  <1>3. TypeOK'
    BY <1>1, <1>2, IdleType, Zenon DEF PairingInv, TypeOK
  <1>4. StoreInv' /\ Forward
    BY <1>1, StoreKept, Zenon DEF PairingInv, StoreInv, ActiveHasSecret
  <1>5. \A h \in Handlers : handler'[h].at = "idle"
    BY <1>1, IdleType, Zenon
  <1> QED BY <1>3, <1>4, <1>5, IdleSound, Zenon

LEMMA ReconcileSound ==
    ASSUME PairingInv, Reconcile
    PROVE  PairingInv' /\ Forward
  <1>1. /\ mode = "down" /\ mode' \in {"sweep", "down"}
        /\ UNCHANGED <<space, secrets, admitted, expired, lapsed, handler, joiner, refused,
                       faults>>
    BY Zenon DEF Reconcile
  <1>2. TypeOK /\ StoreInv
    BY Zenon DEF PairingInv
  <1>3. ASSUME NEW i \in Invitations
        PROVE  /\ session'[i] \in Session /\ Advances(session[i], session'[i])
               /\ RowSound(i, session'[i]) /\ (Active(session'[i]) => Active(session[i]))
               /\ session[i] = NoSession => session'[i] = NoSession
    <2> DEFINE s == session[i]
               t == [s EXCEPT !.state = "expired"]
    <2>1. s \in Session /\ RowSound(i, s)
      BY <1>2, <1>3, Zenon DEF TypeOK, StoreInv
    <2>2. session'[i] = IF Stale(i) THEN t ELSE s
      BY <1>3, Zenon DEF Reconcile
    <2>3. t \in Session /\ t.state = "expired" /\ t.claim = s.claim /\ t.plan = s.plan
      BY <2>1, StateField, Zenon DEF States
    <2>4. Stale(i) => s.state \in {"created", "claimed"}
      BY Zenon DEF Stale
    <2> HIDE DEF t
    <2>5. CASE Stale(i)
      BY <2>1, <2>2, <2>3, <2>4, <2>5 DEF Advances, RowSound, Active, NoSession
    <2>6. CASE ~Stale(i)
      BY <2>1, <2>2, <2>6, Zenon DEF Advances
    <2> QED BY <2>5, <2>6, Zenon
  <1>4. session' \in [Invitations -> Session]
    <2>1. session' = [i \in Invitations |-> session'[i]]
      BY Zenon DEF Reconcile
    <2> QED BY <1>3, <2>1, Zenon
  <1>5. TypeOK'
    BY <1>1, <1>2, <1>4, Zenon DEF TypeOK
  <1>6. Forward
    BY <1>1, <1>3, Zenon DEF Forward
  <1>7. ActiveHasSecret'
    BY <1>1, <1>2, <1>3, Zenon DEF StoreInv, ActiveHasSecret, ActiveRows
  <1>8. GrantsAreConfirmed'
    <2>1. ASSUME NEW g \in admitted
          PROVE  \E j \in Invitations : /\ session'[j].plan = g
                                        /\ session'[j].state \in {"confirmed", "completed"}
      <3>1. PICK j \in Invitations : /\ session[j].plan = g
                                     /\ session[j].state \in {"confirmed", "completed"}
        BY <1>2, <2>1, Zenon DEF StoreInv, GrantsAreConfirmed
      <3>2. g # NoGrant
        BY <1>2, <2>1, PairingAssumption, Zenon DEF TypeOK, Grants
      <3> QED BY <1>3, <3>1, <3>2, Zenon DEF Advances
    <2> QED BY <1>1, <2>1, Zenon DEF GrantsAreConfirmed
  <1>9. PromisesAreKept'
    <2>1. ASSUME NEW c \in Claims, space
          PROVE  LET s == session'[InvitationOf[c]] IN
                 /\ joiner[c].at \in {"pending", "paired"} => s.claim = c /\ s.plan = joiner[c].grant
                 /\ joiner[c].at = "paired" => s.state = "completed" /\ s.plan \in admitted
      <3>1. Advances(session[InvitationOf[c]], session'[InvitationOf[c]])
        BY <1>3, PairingAssumption, Zenon
      <3>2. joiner[c].at \in {"pending", "paired"} => joiner[c].grant # NoGrant /\ c # NoClaim
        BY <1>2, PairingAssumption, Zenon DEF StoreInv
      <3> QED BY <1>2, <2>1, <3>1, <3>2, Zenon DEF StoreInv, PromisesAreKept, Advances
    <2> QED BY <1>1, <2>1, Zenon DEF PromisesAreKept
  <1>10. (\A i \in Invitations : RowSound(i, session[i]))'
    BY <1>1, <1>3, Zenon DEF RowSound
  <1>11. StoreInv'
    BY <1>1, <1>2, <1>3, <1>7, <1>8, <1>9, <1>10, Zenon DEF StoreInv
  <1>12. \A h \in Handlers : handler'[h].at = "idle"
    BY <1>1, Zenon DEF PairingInv, DownIsIdle
  <1> QED BY <1>5, <1>6, <1>11, <1>12, IdleSound, Zenon

LEMMA SweepSound ==
    ASSUME PairingInv, NEW i \in Invitations, Sweep(i)
    PROVE  PairingInv' /\ Forward
  <1>1. /\ mode = "sweep" /\ i \notin ActiveRows /\ secrets' = secrets \ {i}
        /\ UNCHANGED <<space, session, admitted, expired, lapsed, mode, handler, joiner,
                       refused, faults>>
    BY Zenon DEF Sweep
  <1>2. TypeOK'
    BY <1>1, Zenon DEF PairingInv, TypeOK
  <1>3. StoreInv' /\ Forward
    BY <1>1, StoreKept, Zenon DEF PairingInv, StoreInv, ActiveHasSecret
  <1>4. \A h \in Handlers : handler'[h].at = "idle"
    BY <1>1, Zenon DEF PairingInv, DownIsIdle
  <1> QED BY <1>2, <1>3, <1>4, IdleSound, Zenon

LEMMA OpenedSound ==
    ASSUME PairingInv, Opened
    PROVE  PairingInv' /\ Forward
  <1>1. /\ mode = "sweep" /\ mode' = "up"
        /\ UNCHANGED <<space, session, secrets, admitted, expired, lapsed, handler, joiner,
                       refused, faults>>
    BY Zenon DEF Opened
  <1>2. TypeOK'
    BY <1>1, Zenon DEF PairingInv, TypeOK
  <1>3. StoreInv' /\ Forward
    BY <1>1, StoreKept, Zenon DEF PairingInv, StoreInv, ActiveHasSecret
  <1>4. \A h \in Handlers : handler'[h].at = "idle"
    BY <1>1, Zenon DEF PairingInv, DownIsIdle
  <1> QED BY <1>2, <1>3, <1>4, IdleSound, Zenon

-------------------------------------------------------------------------------
(* The theorems.                                                           *)

LEMMA InitSound == Init => PairingInv
  <1> SUFFICES ASSUME Init PROVE PairingInv
    BY Zenon
  <1>1. TypeOK
    <2>1. NoSession \in Session
      BY Zenon DEF NoSession, Session, States
    <2>2. faults \in [crashes : 0..MaxCrashes, errors : 0..MaxErrors]
      BY PairingAssumption DEF Init
    <2> QED BY <2>1, <2>2, IdleType, Zenon DEF Init, TypeOK
  <1>2. StoreInv
    <2>1. ActiveHasSecret /\ GrantsAreConfirmed /\ PromisesAreKept
      BY Zenon DEF Init, ActiveHasSecret, ActiveRows, Active, NoSession, GrantsAreConfirmed,
             PromisesAreKept
    <2>2. \A i \in Invitations : RowSound(i, session[i])
      BY PairingAssumption, Zenon DEF Init, RowSound, NoSession
    <2> QED BY <2>1, <2>2, Zenon DEF Init, StoreInv
  <1>3. \A h \in Handlers : handler[h].at = "idle"
    BY IdleType, Zenon DEF Init
  <1>4. HandlersInv /\ DownIsIdle
    BY <1>3, Zenon DEF HandlersInv, CreationSound, HandlerSound, Creating, DownIsIdle
  <1> QED BY <1>1, <1>2, <1>4, Zenon DEF PairingInv

LEMMA ServeSound ==
    ASSUME PairingInv, NEW h \in Handlers, Serve(h)
    PROVE  PairingInv' /\ Forward
  <1>1. CASE PlanClaimed(h)
    BY <1>1, PlanSound, Zenon DEF PlanClaimed
  <1>2. CASE PlanConfirmed(h)
    BY <1>2, PlanSound, Zenon DEF PlanConfirmed
  <1> QED
    BY <1>1, <1>2, InsertRowSound, UnstoreSound, ClaimSound, ReplaySound, AnswerSound,
       ResumeSound, ConfirmSound, SubmitSound, CompleteSound, PurgeSound, Zenon DEF Serve

LEMMA NextSound == PairingInv /\ [Next]_vars => PairingInv' /\ Forward
  <1> SUFFICES ASSUME PairingInv, [Next]_vars PROVE PairingInv' /\ Forward
    BY Zenon
  <1>1. ASSUME NEW h \in Handlers, Serve(h) \/ HandlerFails(h)
        PROVE  PairingInv' /\ Forward
    BY <1>1, ServeSound, HandlerFailsSound, Zenon
  <1>2. ASSUME NEW h \in Handlers, NEW c \in Claims, Handshake(h, c) \/ Accept(h, c)
        PROVE  PairingInv' /\ Forward
    BY <1>2, HandshakeSound, AcceptSound, Zenon
  <1>3. ASSUME NEW h \in Handlers, NEW i \in Invitations,
               StoreSecret(h, i) \/ OperatorConfirm(h, i) \/ Cancel(h, i)
        PROVE  PairingInv' /\ Forward
    BY <1>3, StoreSecretSound, OperatorConfirmSound, CancelSound, Zenon
  <1>4. ASSUME NEW i \in Invitations, Expire(i) \/ Lapse(i) \/ Sweep(i)
        PROVE  PairingInv' /\ Forward
    BY <1>4, DeadlineSound, SweepSound, Zenon
  <1>5. CASE UNCHANGED vars
    <2>1. UNCHANGED <<space, session, secrets, admitted, expired, lapsed, mode, handler,
                      joiner, refused, faults>>
      BY <1>5, Zenon DEF vars
    <2>2. TypeOK'
      BY <2>1, Zenon DEF PairingInv, TypeOK
    <2>3. StoreInv' /\ Forward
      BY <2>1, StoreKept, Zenon DEF PairingInv, StoreInv, ActiveHasSecret
    <2>4. HandlersInv' /\ DownIsIdle'
      BY <2>1, ZenonT(30) DEF PairingInv, HandlersInv, CreationSound, HandlerSound, DownIsIdle
    <2> QED BY <2>2, <2>3, <2>4, Zenon DEF PairingInv
  <1> QED
    BY <1>1, <1>2, <1>3, <1>4, <1>5, DeleteSpaceSound, CrashSound, ReconcileSound, OpenedSound,
       Zenon
    DEF Next

(* The inductive invariant: what every handler relies on between its       *)
(* transactions holds in every reachable state.                            *)
THEOREM PairingInvariant == Spec => []PairingInv
  <1>1. Init => PairingInv
    BY InitSound, Zenon
  <1>2. PairingInv /\ [Next]_vars => PairingInv'
    BY NextSound, Zenon
  <1> QED BY <1>1, <1>2, PTL DEF Spec

(* The rows, the files and what a handler holds between two transactions   *)
(* keep their shape, for every number of invitations, claims and handlers. *)
THEOREM PairingTypes == Spec => []TypeOK
  <1>1. PairingInv => TypeOK
    BY Zenon DEF PairingInv
  <1> QED BY <1>1, PairingInvariant, PTL

(* Every session that can still be used has its secret, wherever a crash   *)
(* or an error falls: reconcile() never refuses to start the node.         *)
THEOREM SecretsAreThere == Spec => []ActiveHasSecret
  <1>1. PairingInv => ActiveHasSecret
    BY Zenon DEF PairingInv, StoreInv
  <1> QED BY <1>1, PairingInvariant, PTL

(* Every grant in the log is the plan of a session that was confirmed,     *)
(* whatever handlers, cancellations and expiries interleave (confirm,      *)
(* complete_pairing_session, cancel).                                      *)
THEOREM OnlyConfirmedGrants == Spec => []GrantsAreConfirmed
  <1>1. PairingInv => GrantsAreConfirmed
    BY Zenon DEF PairingInv, StoreInv
  <1> QED BY <1>1, PairingInvariant, PTL

(* The grant a joiner was shown stays the plan of its session, and one     *)
(* that was told "completed" holds an admitted grant, however many         *)
(* handlers raced (handshake, plan_pairing_grant, confirm).                *)
THEOREM PromisesHold == Spec => []PromisesAreKept
  <1>1. PairingInv => PromisesAreKept
    BY Zenon DEF PairingInv, StoreInv
  <1> QED BY <1>1, PairingInvariant, PTL

(* A session is claimed once, a terminal row never changes and a confirmed *)
(* one is only completed, until the workspace is deleted                   *)
(* (claim_pairing_session and the guarded updates after it).               *)
THEOREM RowsOnlyAdvance == Spec => OneClaimPerInvitation
  <1>1. PairingInv /\ [Next]_vars =>
           [\A i \in Invitations :
              LET s == session[i]  t == session'[i] IN
              space' =>
                /\ s.claim # NoClaim => t.claim = s.claim
                /\ s.state \in {"completed", "cancelled", "expired"} => t = s
                /\ s.state = "confirmed" => t.state \in {"confirmed", "completed"}]_vars
    BY NextSound, Zenon DEF Forward, Advances
  <1> QED BY <1>1, PairingInvariant, PTL DEF Spec, OneClaimPerInvitation

-------------------------------------------------------------------------------
(* Who refuses an acceptance.                                              *)

(* A claim is newly refused by the acceptance itself or by one of three    *)
(* later steps of its handler.                                             *)
LEMMA WhoRefuses ==
    ASSUME Next, NEW c \in Claims, c \in refused' \ refused
    PROVE  \E h \in Handlers :
             \/ Accept(h, c) /\ ~ValidAcceptance(c)
             \/ /\ Resume(h) \/ Confirm(h) \/ Complete(h)
                /\ Refuse(h, handler[h].claim, handler[h].by) /\ handler[h].claim = c
  <1>1. refused' # refused
    BY Zenon
  <1>2. ASSUME NEW h \in Handlers, Serve(h)
        PROVE  Resume(h) \/ Confirm(h) \/ Complete(h) \/ Purge(h)
    BY <1>1, <1>2, Zenon DEF Serve, InsertRow, Unstore, Claim, Replay, PlanClaimed, PlanConfirmed,
       Plan, Answer, Submit
  <1>3. ASSUME NEW h \in Handlers PROVE ~Purge(h)
    BY Zenon DEF Purge
  <1>4. ASSUME NEW h \in Handlers, Resume(h) \/ Confirm(h) \/ Complete(h)
        PROVE  Refuse(h, handler[h].claim, handler[h].by) /\ handler[h].claim = c
    <2>1. CASE Refuse(h, handler[h].claim, handler[h].by)
      BY <2>1, Zenon DEF Refuse
    <2>2. CASE Resume(h)
      BY <1>1, <2>1, <2>2, Zenon DEF Resume
    <2>3. CASE Confirm(h)
      BY <1>1, <2>1, <2>3, Zenon DEF Confirm
    <2>4. CASE Complete(h)
      BY <1>1, <2>1, <2>4, Zenon DEF Complete
    <2> QED BY <1>4, <2>2, <2>3, <2>4, Zenon
  <1>5. ASSUME NEW h \in Handlers, NEW d \in Claims, Handshake(h, d) \/ Accept(h, d)
        PROVE  d = c /\ Accept(h, c) /\ ~ValidAcceptance(c)
    <2>1. ~Handshake(h, d)
      BY <1>1, Zenon DEF Handshake
    <2>2. Accept(h, d) /\ ~ValidAcceptance(d) /\ Refuse(h, d, "joiner")
      BY <1>1, <1>5, <2>1, Zenon DEF Accept
    <2>3. d = c
      BY <2>2, Zenon DEF Refuse
    <2> QED BY <2>2, <2>3, Zenon
  <1>6. \E h \in Handlers : Serve(h) \/ \E d \in Claims : Handshake(h, d) \/ Accept(h, d)
    BY <1>1, Zenon DEF Next, HandlerFails, StoreSecret, OperatorConfirm, Cancel, DeleteSpace,
       Expire, Lapse, Sweep, Crash, Reconcile, Opened
  <1> QED BY <1>2, <1>3, <1>4, <1>5, <1>6, Zenon

(* An acceptance of a completed session is answered again, except after    *)
(* the expiry of the invitation and except by a handler that was overtaken *)
(* (accept, confirm).                                                      *)
THEOREM AcceptanceIsReplayed == Spec => CompletedIsReplayed
  <1> DEFINE Overtaken(c) ==
               \E h \in Handlers : /\ handler[h].claim = c /\ handler'[h] = Idle
                                   /\ handler[h].at \in {"confirm", "complete"}
             Excused(c) ==
               LET s == session[InvitationOf[c]] IN
               s.state = "completed" /\ s.claim = c =>
                 InvitationOf[c] \in expired \/ Overtaken(c)
  <1>1. ASSUME PairingInv, Next, NEW c \in refused' \ refused
        PROVE  Excused(c)
    <2> SUFFICES ASSUME session[InvitationOf[c]].state = "completed",
                        session[InvitationOf[c]].claim = c,
                        InvitationOf[c] \notin expired
                 PROVE  Overtaken(c)
      BY Zenon
    <2>1. PairingInv'
      BY <1>1, NextSound, Zenon
    <2>2. c \in Claims /\ InvitationOf[c] \in Invitations
      BY <1>1, <2>1, PairingAssumption, Zenon DEF PairingInv, TypeOK
    <2>3. PICK h \in Handlers :
             \/ Accept(h, c) /\ ~ValidAcceptance(c)
             \/ /\ Resume(h) \/ Confirm(h) \/ Complete(h)
                /\ Refuse(h, handler[h].claim, handler[h].by) /\ handler[h].claim = c
      BY <1>1, <2>2, WhoRefuses, Zenon
    <2>4. CASE Accept(h, c) /\ ~ValidAcceptance(c)
      <3>1. joiner[c].at = "pending"
        BY <2>4, Zenon DEF Accept
      <3>2. space
        BY <1>1, <2>2, RowsExist, Zenon
      <3>3. session[InvitationOf[c]].plan = joiner[c].grant
        BY <1>1, <2>2, <3>1, <3>2, Zenon DEF PairingInv, StoreInv, PromisesAreKept
      <3> QED BY <2>4, <3>3, Zenon DEF ValidAcceptance
    <2>5. CASE Resume(h) /\ Refuse(h, handler[h].claim, handler[h].by) /\ handler[h].claim = c
      <3>1. handler[h].at = "resume"
        BY <2>5, Zenon DEF Resume, At
      <3>2. InvitationOf[c] = handler[h].invitation
        BY <1>1, <2>5, <3>1, Zenon DEF PairingInv, HandlersInv, HandlerSound, Creating
      <3>3. Step(h, "purge")
        BY <2>5, <3>2, Zenon DEF Resume, Row
      <3>4. handler'[h].at = "purge"
        BY <1>1, <3>3, StepTakes, Zenon DEF PairingInv, HandlerSteps
      <3>5. handler'[h].at = "idle"
        BY <1>1, <2>5, FinishTakes, Zenon DEF PairingInv, Refuse
      <3> QED BY <3>4, <3>5, Zenon
    <2>6. CASE /\ Confirm(h) \/ Complete(h)
               /\ Refuse(h, handler[h].claim, handler[h].by) /\ handler[h].claim = c
      <3>1. handler[h].at \in {"confirm", "complete"}
        BY <2>6, Zenon DEF Confirm, Complete, At
      <3>2. handler'[h] = Idle
        BY <1>1, <2>6, Zenon DEF PairingInv, TypeOK, Refuse, Finish
      <3> QED BY <2>6, <3>1, <3>2, Zenon
    <2> QED BY <2>3, <2>4, <2>5, <2>6, Zenon
  <1>2. PairingInv /\ [Next]_vars =>
           [\A c \in refused' \ refused :
              LET s == session[InvitationOf[c]] IN
              s.state = "completed" /\ s.claim = c =>
                \/ InvitationOf[c] \in expired
                \/ \E h \in Handlers : /\ handler[h].claim = c /\ handler'[h] = Idle
                                      /\ handler[h].at \in {"confirm", "complete"}]_vars
    BY <1>1, Zenon
  <1> QED BY <1>2, PairingInvariant, PTL DEF Spec, CompletedIsReplayed
===============================================================================
