--------------------------- MODULE WorkspacesProofs ---------------------------
(***************************************************************************)
(* The properties of Workspaces for every set of spaces, entities,         *)
(* invitations and concurrent calls, every batch size and every number of  *)
(* faults.                                                                 *)
(*                                                                         *)
(* The inductive invariant says of each call in flight what its next step  *)
(* may rely on although other calls run in between: a space that is being  *)
(* created is nobody else's and not listed yet; a space that is being      *)
(* dropped is not hosted any more; what a merge still has to import is     *)
(* ahead of its cursor or in the batch it has read.  Of the store it says  *)
(* that a record carries the grant of its own space, so that deleting one  *)
(* workspace takes no authority from another, and of a start what it has   *)
(* done so far for the spaces of the own node.                             *)
(***************************************************************************)
EXTENDS Workspaces, FiniteSetTheorems, WellFoundedInduction, TLAPS

AllSpaces == Spaces \cup {Remote}

(* The grants a record of s may be written under.                          *)
Grants(s) == IF s = Remote THEN {Paired(k) : k \in Sessions} ELSE {Owner(s)}

RecordType == [entity : Entities, pay : Nat, seq : Nat \ {0}, parents : SUBSET Nat,
               live : BOOLEAN, grant : ControlOps]
CallType ==
    [at : Labels, kind : {"none", "create", "activate", "delete", "claim", "pair", "write"},
     space : AllSpaces \cup {None}, grant : ControlOps \cup {None},
     session : Sessions \cup {None}, merge : BOOLEAN, source : AllSpaces \cup {None}, after : Nat,
     batch : SUBSET RecordType, wanted : SUBSET RecordType, entity : Entities \cup {None},
     parents : SUBSET Nat, live : BOOLEAN]
BootType == [at : {"down", "create", "open", "load", "recovery", "spaces", "serve", "up"},
             spaces : SUBSET Spaces, space : Spaces \cup {None}]
ActiveType == [space : AllSpaces, grant : ControlOps, peer : {"own", "other", "nobody"}]
PageType == [space : Spaces \cup {None}, ops : Seq(ControlOps)]

Creating == {"post", "store"}
Deleting == {"remove", "drop"}
Local == {"serve", "find", "check", "forget"} \cup Creating \cup Deleting
Importing == {"batch", "import"}
Merging == Importing \cup {"publish", "configure"}
Pulling == {"register", "pull"}
Claiming == {"handshake", "count"}
Joining == {"offer", "source"} \cup Pulling \cup Merging
Writing == {"observe", "commit"}
Looking == {"serve", "find", "check"}
Choosing == {"select", "adopt"}
Granted == Looking \cup Choosing \cup Creating \cup Joining \cup Writing

(* The record was imported into the joined workspace.                      *)
Joined(r) == \E q \in RecordsOf(Remote, r.entity) : q.pay = r.pay

(* A merge has imported, or still has before it, what it must.             *)
Merges(w) ==
    /\ w.source \in Spaces
    /\ \A r \in w.wanted : r.seq <= sequence
    /\ \A r \in w.wanted \cap LiveHeads(w.source) :
          Joined(r) \/ (w.at \in Importing /\ (r.seq > w.after \/ r \in w.batch))

(* What a call w in flight relies on.                                      *)
Fits(w) ==
    /\ w.at \in Granted => w.space \in AllSpaces /\ w.grant \in Grants(w.space)
    /\ w.at \in Local => w.space \in Spaces
    /\ w.at \in Joining => w.space = Remote
    /\ w.at \in Claiming \cup Joining => w.session \in Sessions
    /\ w.at \in Creating => w.space \in minted \ (rows \cup dropped)
    /\ w.at \in Deleting => w.space \in minted
    /\ w.at \in {"post", "remove"} => supervised
    /\ w.at \in {"post", "drop"} => w.space \notin hosted
    /\ w.at \in Writing => w.entity \in Entities
    /\ w.at \in Pulling => w.after + 1 \in DOMAIN RemoteLog
    /\ w.at = "import" <=> w.batch # {}
    /\ w.at \in Importing => w.merge
    /\ w.at \in Merging /\ w.merge => Merges(w)

(* A space that is being created is not that of another such call.         *)
Apart(v, w) ==
    v.at \in Creating /\ w.at \in Creating \cup Deleting => v.space # w.space

CallsFit ==
    /\ call \in [Callers -> CallType]
    /\ \A c \in Callers : Fits(call[c])
    /\ \A c, d \in Callers : c # d => Apart(call[c], call[d])

RecordsFit ==
    /\ sequence \in Nat /\ recs \in [AllSpaces -> SUBSET RecordType]
    /\ \A s \in AllSpaces :
          /\ IsFiniteSet(recs[s])
          /\ \A r \in recs[s] : r.seq <= sequence /\ r.grant \in Grants(s) /\ r.grant \in ops

Ledger ==
    /\ rows \subseteq Spaces /\ hosted \subseteq Spaces /\ dropped \subseteq Spaces
    /\ rows \cup hosted \cup dropped \subseteq minted
    /\ dropped \cap (rows \cup hosted) = {}
    /\ ~supervised => hosted = {}

(* The author and the active workspace.                                    *)
Selection ==
    /\ author # None => author \in [space : AllSpaces, grant : ControlOps]
                        /\ author.grant \in Grants(author.space)
    /\ active # None => active \in ActiveType /\ active.grant \in Grants(active.space)

(* A start: nothing else runs, and the spaces it is through with are kept, *)
(* with their anchors.                                                     *)
Starting ==
    /\ boot \in BootType
    /\ ~Up => \A c \in Callers : call[c] = Idle
    /\ boot.at \in {"create", "open", "load", "recovery"} => ~supervised
    /\ boot.at \in {"spaces", "serve"} =>
          /\ supervised /\ boot.spaces \subseteq hosted
          /\ \A s \in hosted \ boot.spaces :
                /\ s \in rows /\ Owner(s) \in ops
                /\ served[s] # "no" \/ (boot.at = "serve" /\ s = boot.space)
    /\ boot.at = "serve" => boot.space \in Spaces

(* The rest of the state has its type.                                     *)
Rest ==
    /\ supervised \in BOOLEAN
    /\ ops \subseteq ControlOps /\ admitted \in Seq(ControlOps)
    /\ served \in [Spaces -> {"no", "fresh", "pulled"}]
    /\ pending \subseteq Sessions /\ link \in Sessions \cup {None}
    /\ peer.session \in Sessions \cup {None}
    /\ page \in PageType /\ (page # NoPage => page.space \in Spaces)
    /\ supervised => keys.state = "missing" /\ binding = 0

WorkspacesInv ==
    Rest /\ Selection /\ Ledger /\ RecordsFit /\ CallsFit /\ Starting

USE WorkspaceAssumption

-------------------------------------------------------------------------------
(* Steps of one call, seen by the others.                                  *)

(* Only the call c changes, to a call.                                     *)
Moves(c) == call'[c] \in CallType /\ call' = [call EXCEPT ![c] = call'[c]]

(* A space is taken for creation when it was drawn just now, for deletion  *)
(* when it is listed.                                                      *)
Claims(c) ==
    /\ call'[c].at \in Creating =>
          \/ call[c].at \in Creating /\ call'[c].space = call[c].space
          \/ call'[c].space \notin minted
    /\ call'[c].at \in Deleting =>
          \/ call[c].at \in Deleting /\ call'[c].space = call[c].space
          \/ call'[c].space \in rows

(* What a step of c does to the spaces other calls are at work on.         *)
Gentle(c) ==
    /\ supervised' = supervised /\ minted \subseteq minted'
    /\ DOMAIN RemoteLog \subseteq DOMAIN RemoteLog'
    /\ \A s \in rows' \cup dropped' :
          s \in rows \cup dropped \/ (call[c].at \in Creating \cup Deleting /\ s = call[c].space)
    /\ \A s \in hosted' : s \in hosted \/ (call[c].at \in Creating /\ s = call[c].space)

(* What a step may do to the records: new ones come later, a space loses   *)
(* all of its records or none, the joined one none.                        *)
Grown ==
    /\ sequence <= sequence' /\ recs[Remote] \subseteq recs'[Remote]
    /\ \A s \in Spaces :
          /\ recs'[s] = {} \/ recs[s] \subseteq recs'[s]
          /\ \A r \in recs'[s] : r \in recs[s] \/ r.seq > sequence

LEMMA InvParts ==
    ASSUME WorkspacesInv
    PROVE  Rest /\ Selection /\ Ledger /\ RecordsFit /\ CallsFit /\ Starting
BY Zenon DEF WorkspacesInv

LEMMA TypeOfCall ==
    ASSUME WorkspacesInv, NEW c \in Callers
    PROVE  call[c] \in CallType /\ Fits(call[c]) /\ call \in [Callers -> CallType]
<1>1. CallsFit BY InvParts, Zenon
<1>2. call \in [Callers -> CallType] BY <1>1, Zenon DEF CallsFit
<1>3. Fits(call[c]) BY <1>1, Zenon DEF CallsFit
<1> QED BY <1>2, <1>3, Zenon

LEMMA BecomeMoves ==
    ASSUME WorkspacesInv, NEW c \in Callers, NEW w \in CallType, Become(c, w)
    PROVE  Moves(c) /\ call'[c] = w
<1>1. call \in [Callers -> CallType] BY TypeOfCall, Zenon
<1>2. call' = [call EXCEPT ![c] = w] BY Zenon DEF Become
<1>3. call'[c] = w BY <1>1, <1>2, Zenon
<1> QED BY <1>2, <1>3, Zenon DEF Moves

LEMMA MovesOthers ==
    ASSUME WorkspacesInv, NEW c \in Callers, Moves(c)
    PROVE  /\ call' \in [Callers -> CallType] /\ call'[c] \in CallType
           /\ \A d \in Callers \ {c} : call'[d] = call[d]
<1>1. call \in [Callers -> CallType] BY TypeOfCall, Zenon
<1>2. call' = [call EXCEPT ![c] = call'[c]] /\ call'[c] \in CallType BY Zenon DEF Moves
<1> QED BY <1>1, <1>2, Zenon

LEMMA IdleIsCall == Idle \in CallType
BY Zenon DEF Idle, CallType, Labels

(* An idle call relies on nothing.                                         *)
LEMMA IdleFits ==
    ASSUME NEW c, call'[c].at = "idle", call'[c].batch = {}
    PROVE  Fits(call[c])' /\ call'[c].at \notin Creating \cup Deleting
<1>1. call'[c].at = "idle" /\ call'[c].batch = {} BY Zenon
<1>2. /\ call'[c].at \notin Granted \cup Local \cup Joining \cup Claiming \cup Writing
      /\ call'[c].at \notin {"post", "remove", "drop", "import"} \cup Pulling \cup Importing
  BY <1>1, Zenon DEF Granted, Looking, Choosing, Local, Joining, Claiming, Writing, Merging,
     Importing, Pulling, Creating, Deleting
<1>3. call'[c].at \notin Creating \cup Deleting \cup Merging
  BY <1>1, Zenon DEF Creating, Deleting, Merging, Importing, Pulling
<1> QED BY <1>1, <1>2, <1>3, Zenon DEF Fits

LEMMA EndFits ==
    ASSUME WorkspacesInv, NEW c \in Callers, End(c)
    PROVE  Moves(c) /\ Fits(call[c])' /\ Claims(c) /\ call'[c] = Idle
<1>1. Moves(c) /\ call'[c] = Idle BY IdleIsCall, BecomeMoves, Zenon DEF End
<1>2. call'[c].at = "idle" /\ call'[c].batch = {} BY <1>1 DEF Idle
<1>3. Fits(call[c])' /\ call'[c].at \notin Creating \cup Deleting BY <1>2, IdleFits, Zenon
<1> QED BY <1>1, <1>3, Zenon DEF Claims

LEMMA ToCallMoves ==
    ASSUME WorkspacesInv, NEW c \in Callers, NEW l \in Labels, ToCall(c, l)
    PROVE  /\ Moves(c) /\ call'[c].at = l
           /\ call'[c].space = call[c].space /\ call'[c].grant = call[c].grant
           /\ call'[c].session = call[c].session /\ call'[c].merge = call[c].merge
           /\ call'[c].source = call[c].source /\ call'[c].after = call[c].after
           /\ call'[c].batch = call[c].batch /\ call'[c].wanted = call[c].wanted
           /\ call'[c].entity = call[c].entity
<1> DEFINE w == [call[c] EXCEPT !.at = l]
<1>1. call[c] \in CallType BY TypeOfCall, Zenon
<1>2. w \in CallType BY <1>1, Zenon DEF CallType
<1>3. /\ w.at = l /\ w.space = call[c].space /\ w.grant = call[c].grant
      /\ w.session = call[c].session /\ w.merge = call[c].merge
      /\ w.source = call[c].source /\ w.after = call[c].after
      /\ w.batch = call[c].batch /\ w.wanted = call[c].wanted
      /\ w.entity = call[c].entity
  BY <1>1, Zenon DEF CallType
<1>4. Become(c, w) BY Zenon DEF ToCall
<1> HIDE DEF w
<1>5. Moves(c) /\ call'[c] = w BY <1>2, <1>4, BecomeMoves, Zenon
<1> QED BY <1>3, <1>5, Zenon

(* The live heads of a space are records of it, and no older record        *)
(* becomes one.                                                            *)
LEMMA HeadsAreRecords ==
    ASSUME NEW s
    PROVE  LiveHeads(s) \subseteq recs[s]
BY Zenon DEF LiveHeads, HeadsOf, RecordsOf

LEMMA OldHeads ==
    ASSUME WorkspacesInv, Grown, NEW s \in Spaces, NEW r \in LiveHeads(s)', r.seq <= sequence,
           r.seq \in Nat, sequence \in Nat
    PROVE  r \in LiveHeads(s)
<1>1. PICK e \in Entities : r \in HeadsOf(s, e)' BY Zenon DEF LiveHeads
<1>2. r.live BY Zenon DEF LiveHeads
<1>3. r \in recs'[s] /\ r.entity = e /\ \A q \in recs'[s] : r.seq \notin q.parents
  BY <1>1, Zenon DEF HeadsOf, RecordsOf
<1>4. ~(r.seq > sequence) OBVIOUS
<1>5. r \in recs[s] /\ recs[s] \subseteq recs'[s] BY <1>3, <1>4, Zenon DEF Grown
<1>6. r \in HeadsOf(s, e) BY <1>3, <1>5, Zenon DEF HeadsOf, RecordsOf
<1> QED BY <1>2, <1>6, Zenon DEF LiveHeads

LEMMA JoinedStays ==
    ASSUME Grown, NEW r, Joined(r)
    PROVE  Joined(r)'
<1>1. PICK q \in recs[Remote] : q.entity = r.entity /\ q.pay = r.pay
  BY Zenon DEF Joined, RecordsOf
<1>2. q \in recs'[Remote] BY <1>1, Zenon DEF Grown
<1> QED BY <1>1, <1>2, Zenon DEF Joined, RecordsOf

(* A merge keeps what it relies on when every record that it must import   *)
(* is in the joined workspace after the step, or still before it.          *)
LEMMA MergesOn ==
    ASSUME WorkspacesInv, Grown, sequence' \in Nat, NEW d \in Callers,
           call'[d].source = call[d].source, call'[d].wanted = call[d].wanted, Merges(call[d]),
           \A r \in call[d].wanted \cap LiveHeads(call[d].source) :
              \/ Joined(r)'
              \/ call'[d].at \in Importing /\ (r.seq > call'[d].after \/ r \in call'[d].batch)
    PROVE  Merges(call[d])'
<1>1. call[d] \in CallType /\ sequence \in Nat BY TypeOfCall, InvParts, Zenon DEF RecordsFit
<1>2. call[d].source \in Spaces BY Zenon DEF Merges
<1>3. ASSUME NEW r \in call[d].wanted
      PROVE  r.seq \in Nat /\ r.seq <= sequence /\ r.seq <= sequence'
  <2>1. r \in RecordType BY <1>1, Zenon DEF CallType
  <2>2. r.seq \in Nat BY <2>1, Zenon DEF RecordType
  <2>3. r.seq <= sequence BY Zenon DEF Merges
  <2>4. sequence <= sequence' BY Zenon DEF Grown
  <2> QED BY <1>1, <2>2, <2>3, <2>4
<1>4. ASSUME NEW r \in call[d].wanted \cap LiveHeads(call[d].source)'
      PROVE  \/ Joined(r)'
             \/ call'[d].at \in Importing /\ (r.seq > call'[d].after \/ r \in call'[d].batch)
  <2>1. r \in LiveHeads(call[d].source)
    <3>1. PICK s \in Spaces : s = call[d].source BY <1>2, Zenon
    <3>2. r \in LiveHeads(s)'
      <4>1. s = call'[d].source BY <3>1, Zenon
      <4>2. PICK e \in Entities : r \in HeadsOf(call[d].source, e)' BY Zenon DEF LiveHeads
      <4>3. r.live BY Zenon DEF LiveHeads
      <4>4. r \in HeadsOf(s, e)' BY <4>1, <4>2, Zenon DEF HeadsOf, RecordsOf
      <4> QED BY <4>3, <4>4, Zenon DEF LiveHeads
    <3>3. r.seq \in Nat /\ r.seq <= sequence BY <1>3, Zenon
    <3>4. r \in LiveHeads(s) BY <1>1, <3>2, <3>3, OldHeads, Zenon
    <3> QED BY <3>1, <3>4, Zenon
  <2> QED BY <2>1, Zenon
<1> QED BY <1>2, <1>3, <1>4, Zenon DEF Merges

LEMMA OthersMerge ==
    ASSUME WorkspacesInv, Grown, sequence' \in Nat, NEW d \in Callers, call'[d] = call[d],
           Merges(call[d])
    PROVE  Merges(call[d])'
<1>1. ASSUME NEW r \in call[d].wanted \cap LiveHeads(call[d].source)
      PROVE  \/ Joined(r)'
             \/ call'[d].at \in Importing /\ (r.seq > call'[d].after \/ r \in call'[d].batch)
  <2>1. \/ Joined(r)
        \/ call[d].at \in Importing /\ (r.seq > call[d].after \/ r \in call[d].batch)
    BY Zenon DEF Merges
  <2> QED BY <2>1, JoinedStays, Zenon
<1> QED BY <1>1, MergesOn, Zenon

LEMMA OthersFit ==
    ASSUME WorkspacesInv, NEW c \in Callers, Gentle(c), Grown, sequence' \in Nat,
           NEW d \in Callers \ {c}, call'[d] = call[d]
    PROVE  Fits(call[d])'
<1>1. Fits(call[d]) /\ Apart(call[d], call[c]) /\ Apart(call[c], call[d])
  BY InvParts, Zenon DEF CallsFit
<1> DEFINE w == call[d]
<1>2. w.at \in Granted => w.space \in AllSpaces /\ w.grant \in Grants(w.space)
  BY <1>1, Zenon DEF Fits
<1>3. /\ w.at \in Local => w.space \in Spaces
      /\ w.at \in Joining => w.space = Remote
      /\ w.at \in Claiming \cup Joining => w.session \in Sessions
      /\ w.at \in Writing => w.entity \in Entities
      /\ w.at = "import" <=> w.batch # {}
      /\ w.at \in Importing => w.merge
  BY <1>1, Zenon DEF Fits
<1>4. w.at \in Creating => w.space \in minted' \ (rows' \cup dropped')
  BY <1>1, Zenon DEF Fits, Gentle, Apart
<1>5. w.at \in Deleting => w.space \in minted' BY <1>1, Zenon DEF Fits, Gentle
<1>6. w.at \in {"post", "remove"} => supervised' BY <1>1, Zenon DEF Fits, Gentle
<1>7. w.at \in {"post", "drop"} => w.space \notin hosted'
  <2>1. w.at \in {"post", "drop"} => w.at \in Creating \cup Deleting BY Zenon DEF Creating, Deleting
  <2> QED BY <1>1, <2>1, Zenon DEF Fits, Gentle, Apart
<1>8. w.at \in Pulling => w.after + 1 \in DOMAIN RemoteLog' BY <1>1, Zenon DEF Fits, Gentle
<1>9. w.at \in Merging /\ w.merge => Merges(call[d])' BY <1>1, OthersMerge, Zenon DEF Fits
<1> DEFINE v == call'[d]
<1>10. v = w BY Zenon
<1>11. /\ v.at \in Granted => v.space \in AllSpaces /\ v.grant \in Grants(v.space)
       /\ v.at \in Local => v.space \in Spaces
       /\ v.at \in Joining => v.space = Remote
       /\ v.at \in Claiming \cup Joining => v.session \in Sessions
       /\ v.at \in Writing => v.entity \in Entities
       /\ v.at = "import" <=> v.batch # {}
       /\ v.at \in Importing => v.merge
  BY <1>2, <1>3, <1>10, Zenon
<1>12. /\ v.at \in Creating => v.space \in minted' \ (rows' \cup dropped')
       /\ v.at \in Deleting => v.space \in minted'
       /\ v.at \in {"post", "remove"} => supervised'
       /\ v.at \in {"post", "drop"} => v.space \notin hosted'
       /\ v.at \in Pulling => v.after + 1 \in DOMAIN RemoteLog'
       /\ v.at \in Merging /\ v.merge => Merges(call[d])'
  BY <1>4, <1>5, <1>6, <1>7, <1>8, <1>9, <1>10, Zenon
<1> QED BY <1>11, <1>12, Zenon DEF Fits

(* A step of c that is gentle and leaves c itself fit keeps all calls fit. *)
LEMMA CallsKept ==
    ASSUME WorkspacesInv, NEW c \in Callers, Moves(c), Fits(call[c])', Claims(c),
           Gentle(c), Grown, sequence' \in Nat
    PROVE  CallsFit'
<1>1. /\ call' \in [Callers -> CallType]
      /\ \A d \in Callers \ {c} : call'[d] = call[d]
  BY MovesOthers, Zenon
<1>2. \A d \in Callers : Fits(call[d])' BY <1>1, OthersFit, Zenon
<1>3. ASSUME NEW d \in Callers \ {c}
      PROVE  Apart(call[c], call[d])' /\ Apart(call[d], call[c])'
  <2>1. Fits(call[d]) /\ Apart(call[d], call[c]) /\ Apart(call[c], call[d])
    BY InvParts, Zenon DEF CallsFit
  <2>2. call'[d] = call[d] BY <1>1, Zenon
  <2>3. call[d].at \in Creating => call[d].space \in minted /\ call[d].space \notin rows
    BY <2>1, Zenon DEF Fits
  <2>4. call[d].at \in Deleting => call[d].space \in minted BY <2>1, Zenon DEF Fits
  <2>5. Apart(call[c], call[d])' BY <2>1, <2>2, <2>3, <2>4, Zenon DEF Apart, Claims
  <2>6. Apart(call[d], call[c])' BY <2>1, <2>2, <2>3, <2>4, Zenon DEF Apart, Claims
  <2> QED BY <2>5, <2>6, Zenon
<1>4. \A d, e \in Callers \ {c} : d # e => Apart(call[d], call[e])'
  <2> TAKE d, e \in Callers \ {c}
  <2> HAVE d # e
  <2>1. Apart(call[d], call[e]) BY InvParts, Zenon DEF CallsFit
  <2>2. call'[d] = call[d] /\ call'[e] = call[e] BY <1>1, Zenon
  <2> QED BY <2>1, <2>2, Zenon DEF Apart
<1>5. \A d, e \in Callers : d # e => Apart(call[d], call[e])' BY <1>3, <1>4, Zenon
<1> QED BY <1>1, <1>2, <1>5, Zenon DEF CallsFit

(* Calls do not disturb a start: there are none then.                      *)
LEMMA StartingKept ==
    ASSUME WorkspacesInv, Up, boot' = boot
    PROVE  Starting'
<1>1. boot \in BootType /\ boot.at = "up" BY InvParts, Zenon DEF Starting, Up
<1>2. boot.at \notin {"create", "open", "load", "recovery", "spaces", "serve"} BY <1>1, Zenon
<1>3. boot.at # "serve" BY <1>1, Zenon
<1> QED BY <1>1, <1>2, <1>3, Zenon DEF Starting, Up


-------------------------------------------------------------------------------
(* Steps that change no record, grant, row or space.                       *)

(* The call c moves on, and what it relies on next is so.                  *)
Proceeds(c) == Moves(c) /\ Fits(call[c])' /\ Claims(c)

(* The shared state is left alone; identifiers may be drawn, and the other *)
(* node may admit a grant.                                                 *)
Still ==
    /\ UNCHANGED <<supervised, hosted, dropped, rows, ops, recs, sequence, boot>>
    /\ minted \subseteq minted' /\ DOMAIN RemoteLog \subseteq DOMAIN RemoteLog'

LEMMA StillGrown ==
    ASSUME WorkspacesInv, UNCHANGED <<recs, sequence>>
    PROVE  Grown /\ sequence' \in Nat
<1>1. sequence \in Nat BY InvParts, Zenon DEF RecordsFit
<1>2. sequence <= sequence' BY <1>1
<1>3. recs' = recs BY Zenon
<1>4. Grown BY <1>2, <1>3, Zenon DEF Grown
<1> QED BY <1>1, <1>4, Zenon

LEMMA LedgerKept ==
    ASSUME WorkspacesInv, UNCHANGED <<supervised, hosted, dropped, rows>>, minted \subseteq minted'
    PROVE  Ledger'
<1>1. Ledger BY InvParts, Zenon
<1> QED BY <1>1, Zenon DEF Ledger

LEMMA RecordsKept ==
    ASSUME WorkspacesInv, UNCHANGED <<recs, sequence>>, ops \subseteq ops'
    PROVE  RecordsFit'
<1>1. RecordsFit BY InvParts, Zenon
<1> QED BY <1>1, Zenon DEF RecordsFit, Grants, Owner, Paired

LEMMA StillGentle ==
    ASSUME NEW c, Still
    PROVE  Gentle(c)
BY Zenon DEF Still, Gentle

LEMMA QuietStep ==
    ASSUME WorkspacesInv, NEW c \in Callers, Up, Proceeds(c), Still, Rest', Selection'
    PROVE  WorkspacesInv'
<1>1. Grown /\ sequence' \in Nat BY StillGrown, Zenon DEF Still
<1>2. Gentle(c) BY StillGentle, Zenon
<1>3. CallsFit' BY <1>1, <1>2, CallsKept, Zenon DEF Proceeds
<1>4. Ledger' BY LedgerKept, Zenon DEF Still
<1>5. RecordsFit' BY RecordsKept, Zenon DEF Still
<1>6. Starting' BY StartingKept, Zenon DEF Still
<1> QED BY <1>3, <1>4, <1>5, <1>6, Zenon DEF WorkspacesInv

(* Only the call changes, and identifiers may be drawn.                    *)
Only ==
    /\ UNCHANGED <<frame, nodes, rows, ops, recs, sequence, active, served, peer, link, author,
                   pending, page, dropped>>
    /\ minted \subseteq minted'

LEMMA RestStays ==
    ASSUME WorkspacesInv,
           UNCHANGED <<supervised, ops, admitted, served, pending, link, peer, page, keys, binding>>
    PROVE  Rest'
<1>1. Rest BY InvParts, Zenon
<1> QED BY <1>1, Zenon DEF Rest

LEMMA SelectionStays ==
    ASSUME WorkspacesInv, UNCHANGED <<author, active>>
    PROVE  Selection'
<1>1. Selection BY InvParts, Zenon
<1> QED BY <1>1, Zenon DEF Selection, Grants, Owner, Paired

LEMMA OnlyStep ==
    ASSUME WorkspacesInv, NEW c \in Callers, Up, Proceeds(c), Only
    PROVE  WorkspacesInv'
<1>1. Rest' BY RestStays, Zenon DEF Only, frame, nodes
<1>2. Selection' BY SelectionStays, Zenon DEF Only
<1>3. RemoteLog' = RemoteLog BY Zenon DEF Only, nodes, RemoteLog
<1>4. Still BY <1>3, Zenon DEF Still, Only, frame, nodes
<1> QED BY <1>1, <1>2, <1>4, QuietStep, Zenon

LEMMA EndProceeds ==
    ASSUME WorkspacesInv, NEW c \in Callers, End(c)
    PROVE  Proceeds(c)
BY EndFits, Zenon DEF Proceeds


-------------------------------------------------------------------------------
(* Grants and labels.                                                      *)

LEMMA OwnGrant ==
    ASSUME NEW s \in Spaces
    PROVE  Owner(s) \in Grants(s) /\ Owner(s) \in ControlOps /\ Genesis(s) \in ControlOps
           /\ Grants(s) = {Owner(s)} /\ s \in AllSpaces
<1>1. s # Remote BY Zenon
<1>2. Grants(s) = {Owner(s)} BY <1>1, Zenon DEF Grants
<1> QED BY <1>2, Zenon DEF ControlOps, AllSpaces

LEMMA PairGrant ==
    ASSUME NEW k \in Sessions
    PROVE  Paired(k) \in Grants(Remote) /\ Paired(k) \in ControlOps /\ Remote \in AllSpaces
BY Zenon DEF Grants, ControlOps, AllSpaces

LEMMA GrantsAreOps ==
    ASSUME NEW s \in AllSpaces, NEW g \in Grants(s)
    PROVE  g \in ControlOps
BY Zenon DEF Grants, ControlOps, AllSpaces

LEMMA GrantsAreConstant ==
    ASSUME NEW s, NEW g
    PROVE  (g \in Grants(s))' <=> g \in Grants(s)
BY Zenon DEF Grants, Owner, Paired

(* What a call at one of these labels holds.                               *)
LEMMA HeldGrant ==
    ASSUME WorkspacesInv, NEW c \in Callers, call[c].at \in Granted
    PROVE  call[c].space \in AllSpaces /\ call[c].grant \in Grants(call[c].space)
           /\ call[c].grant \in ControlOps
<1>1. call[c].space \in AllSpaces /\ call[c].grant \in Grants(call[c].space)
  BY TypeOfCall, Zenon DEF Fits
<1> QED BY <1>1, GrantsAreOps, Zenon

LEMMA NoBatch ==
    ASSUME WorkspacesInv, NEW c \in Callers, call[c].at # "import"
    PROVE  call[c].batch = {}
BY TypeOfCall, Zenon DEF Fits

(* Labels at which a call relies on its grant only.                        *)
LEMMA GrantedFits ==
    ASSUME NEW c, call'[c].at \in Choosing, call'[c].batch = {},
           call'[c].space \in AllSpaces, call'[c].grant \in Grants(call'[c].space)
    PROVE  Fits(call[c])' /\ Claims(c)
<1>1. call'[c].at \notin Local \cup Joining \cup Claiming \cup Writing
  BY Zenon DEF Choosing, Local, Joining, Claiming, Writing, Merging, Importing, Pulling,
     Creating, Deleting
<1>2. call'[c].at \notin Creating \cup Deleting \cup Merging
  BY Zenon DEF Choosing, Creating, Deleting, Merging, Importing, Pulling
<1>3. call'[c].at \notin {"post", "remove", "drop", "import"} \cup Pulling \cup Importing
  BY Zenon DEF Choosing, Pulling, Importing
<1>4. Fits(call[c])'
  BY <1>1, <1>2, <1>3, Zenon DEF Fits, Grants, Owner, Paired, AllSpaces
<1> QED BY <1>2, <1>4, Zenon DEF Claims

LEMMA LocalFits ==
    ASSUME NEW c, call'[c].at \in Looking, call'[c].batch = {},
           call'[c].space \in Spaces, call'[c].grant \in Grants(call'[c].space)
    PROVE  Fits(call[c])' /\ Claims(c)
<1>1. call'[c].at \notin Joining \cup Claiming \cup Writing
  BY Zenon DEF Looking, Joining, Claiming, Writing, Merging, Importing, Pulling
<1>2. call'[c].at \notin Creating \cup Deleting \cup Merging
  BY Zenon DEF Looking, Creating, Deleting, Merging, Importing, Pulling
<1>3. call'[c].at \notin {"post", "remove", "drop", "import"} \cup Pulling \cup Importing
  BY Zenon DEF Looking, Pulling, Importing
<1>4. Fits(call[c])'
  BY <1>1, <1>2, <1>3, Zenon DEF Fits, Grants, Owner, Paired, AllSpaces
<1> QED BY <1>2, <1>4, Zenon DEF Claims

(* On the way to the joined workspace, before and after the merge.         *)
LEMMA JoiningFits ==
    ASSUME NEW c, call'[c].at \in Joining \ Importing, call'[c].batch = {},
           call'[c].space = Remote, call'[c].grant \in Grants(Remote),
           call'[c].session \in Sessions,
           call'[c].at \in Pulling => (call'[c].after + 1 \in DOMAIN RemoteLog'),
           call'[c].at \in Merging /\ call'[c].merge => Merges(call[c])'
    PROVE  Fits(call[c])' /\ Claims(c)
<1>1. call'[c].at \notin Local \cup Writing /\ call'[c].at \in Granted
  BY Zenon DEF Local, Writing, Creating, Deleting, Joining, Merging, Importing, Pulling, Granted
<1>2. call'[c].at \notin Creating \cup Deleting
  BY Zenon DEF Creating, Deleting, Joining, Merging, Importing, Pulling
<1>3. call'[c].at \notin {"post", "remove", "drop", "import"}
  BY Zenon DEF Joining, Merging, Importing, Pulling
<1>4. Fits(call[c])'
  BY <1>1, <1>2, <1>3, Zenon DEF Fits, Grants, Owner, Paired, AllSpaces
<1> QED BY <1>2, <1>4, Zenon DEF Claims

-------------------------------------------------------------------------------
(* Activation, selection and adoption.                                     *)

LEMMA ActivateKeeps ==
    ASSUME WorkspacesInv, NEW c \in Callers, NEW s \in Spaces, ActivateWorkspace(c, s)
    PROVE  WorkspacesInv'
<1> DEFINE w == [Idle EXCEPT !.at = "find", !.kind = "activate", !.space = s, !.grant = Owner(s)]
<1>1. Up /\ Become(c, w) /\ Only BY Zenon DEF ActivateWorkspace, Begin, Only
<1>2. Owner(s) \in ControlOps /\ s \in AllSpaces /\ Owner(s) \in Grants(s) BY OwnGrant, Zenon
<1>3. w \in CallType /\ w.at = "find" /\ w.space = s /\ w.grant = Owner(s) /\ w.batch = {}
  BY <1>2, Zenon DEF Idle, CallType, Labels
<1> HIDE DEF w
<1>4. Moves(c) /\ call'[c] = w BY <1>1, <1>3, BecomeMoves, Zenon
<1>5. call'[c].at \in Looking BY <1>3, <1>4, Zenon DEF Looking
<1>6. call'[c].space \in Spaces /\ call'[c].grant \in Grants(call'[c].space) /\ call'[c].batch = {}
  BY <1>2, <1>3, <1>4, Zenon
<1>7. Fits(call[c])' /\ Claims(c) BY <1>5, <1>6, LocalFits, Zenon
<1> QED BY <1>1, <1>4, <1>7, OnlyStep, Zenon DEF Proceeds

LEMMA FindKeeps ==
    ASSUME WorkspacesInv, NEW c \in Callers, Find(c)
    PROVE  WorkspacesInv'
<1>1. Up /\ call[c].at = "find" /\ Only BY Zenon DEF Find, In, Only
<1>2. CASE End(c) BY <1>1, <1>2, EndProceeds, OnlyStep, Zenon
<1>3. CASE ToCall(c, "check")
  <2>1. "check" \in Labels BY Zenon DEF Labels
  <2>2. /\ Moves(c) /\ call'[c].at = "check" /\ call'[c].space = call[c].space
        /\ call'[c].grant = call[c].grant /\ call'[c].batch = call[c].batch
    BY <1>3, <2>1, ToCallMoves, Zenon
  <2>3. call[c].at \in Granted \cap Local /\ call[c].at # "import"
    BY <1>1, Zenon DEF Granted, Looking, Local
  <2>4. call[c].space \in Spaces BY <2>3, TypeOfCall, Zenon DEF Fits
  <2>5. call[c].grant \in Grants(call[c].space) /\ call[c].batch = {}
    BY <2>3, HeldGrant, NoBatch, Zenon
  <2>6. call'[c].at \in Looking BY <2>2, Zenon DEF Looking
  <2>7. call'[c].space \in Spaces /\ call'[c].grant \in Grants(call'[c].space)
        /\ call'[c].batch = {}
    BY <2>2, <2>4, <2>5, Zenon
  <2>8. Fits(call[c])' /\ Claims(c) BY <2>6, <2>7, LocalFits, Zenon
  <2> QED BY <1>1, <2>2, <2>8, OnlyStep, Zenon DEF Proceeds
<1> QED BY <1>2, <1>3, Zenon DEF Find

(* A call that goes on to select the space whose grant it holds.           *)
LEMMA SelectNext ==
    ASSUME WorkspacesInv, NEW c \in Callers, call[c].at \in {"store", "serve", "check"},
           ToCall(c, "select")
    PROVE  Proceeds(c)
<1>1. "select" \in Labels BY Zenon DEF Labels
<1>2. /\ Moves(c) /\ call'[c].at = "select" /\ call'[c].space = call[c].space
      /\ call'[c].grant = call[c].grant /\ call'[c].batch = call[c].batch
  BY <1>1, ToCallMoves, Zenon
<1>3. call[c].at \in Granted /\ call[c].at # "import" BY Zenon DEF Granted, Looking, Creating
<1>4. call[c].space \in AllSpaces /\ call[c].grant \in Grants(call[c].space) /\ call[c].batch = {}
  BY <1>3, HeldGrant, NoBatch, Zenon
<1>5. call'[c].at \in Choosing BY <1>2, Zenon DEF Choosing
<1>6. /\ call'[c].space \in AllSpaces /\ call'[c].grant \in Grants(call'[c].space)
      /\ call'[c].batch = {}
  BY <1>2, <1>4, Zenon
<1>7. Fits(call[c])' /\ Claims(c) BY <1>5, <1>6, GrantedFits, Zenon
<1> QED BY <1>2, <1>7, Zenon DEF Proceeds

LEMMA CheckKeeps ==
    ASSUME WorkspacesInv, NEW c \in Callers, Check(c)
    PROVE  WorkspacesInv'
<1>1. Up /\ call[c].at = "check" /\ Only BY Zenon DEF Check, In, Only
<1>2. call[c].at \in {"store", "serve", "check"} BY <1>1, Zenon
<1>3. Proceeds(c) BY <1>2, EndProceeds, SelectNext, Zenon DEF Check
<1> QED BY <1>1, <1>3, OnlyStep, Zenon

LEMMA ServedIsTyped ==
    ASSUME WorkspacesInv, NEW s \in Spaces
    PROVE  ServedBy(s) \in [Spaces -> {"no", "fresh", "pulled"}] /\ ServedBy(s)[s] # "no"
           /\ \A t \in Spaces : served[t] # "no" => ServedBy(s)[t] # "no"
<1>1. served \in [Spaces -> {"no", "fresh", "pulled"}] BY InvParts, Zenon DEF Rest
<1> QED BY <1>1, Zenon DEF ServedBy

LEMMA ServeKeeps ==
    ASSUME WorkspacesInv, NEW c \in Callers, ServeCreated(c)
    PROVE  WorkspacesInv'
<1>1. /\ Up /\ call[c].at = "serve" /\ ToCall(c, "select") /\ served' = ServedBy(call[c].space)
      /\ UNCHANGED <<frame, nodes, rows, ops, recs, sequence, active, peer, link,
                     author, pending, page, minted, dropped>>
  BY Zenon DEF ServeCreated, In
<1>2. call[c].at \in {"store", "serve", "check"} BY <1>1, Zenon
<1>3. Proceeds(c) BY <1>1, <1>2, SelectNext, Zenon
<1>4. call[c].at \in Local BY <1>1, Zenon DEF Local
<1>5. call[c].space \in Spaces BY <1>4, TypeOfCall, Zenon DEF Fits
<1>6. served' \in [Spaces -> {"no", "fresh", "pulled"}] BY <1>1, <1>5, ServedIsTyped, Zenon
<1>7. Rest' BY <1>1, <1>6, InvParts, Zenon DEF Rest, frame, nodes
<1>8. Selection' BY <1>1, SelectionStays, Zenon
<1>9. Still BY <1>1, Zenon DEF Still, frame, nodes, RemoteLog
<1> QED BY <1>1, <1>3, <1>7, <1>8, <1>9, QuietStep, Zenon

LEMMA SelectKeeps ==
    ASSUME WorkspacesInv, NEW c \in Callers, Select(c)
    PROVE  WorkspacesInv'
<1> DEFINE p == IF call[c].kind = "pair" THEN "other" ELSE IF supervised THEN "own" ELSE "nobody"
<1>1. /\ Up /\ call[c].at = "select" /\ ToCall(c, "adopt")
      /\ active' = [space |-> call[c].space, grant |-> call[c].grant, peer |-> p]
      /\ UNCHANGED <<frame, nodes, rows, ops, recs, sequence, served, peer, link,
                     author, pending, page, minted, dropped>>
  BY Zenon DEF Select, In
<1>2. p \in {"own", "other", "nobody"} BY Zenon
<1> HIDE DEF p
<1>3. "adopt" \in Labels BY Zenon DEF Labels
<1>4. /\ Moves(c) /\ call'[c].at = "adopt" /\ call'[c].space = call[c].space
      /\ call'[c].grant = call[c].grant /\ call'[c].batch = call[c].batch
  BY <1>1, <1>3, ToCallMoves, Zenon
<1>5. call[c].at \in Granted /\ call[c].at # "import" BY <1>1, Zenon DEF Granted, Choosing
<1>6. /\ call[c].space \in AllSpaces /\ call[c].grant \in Grants(call[c].space)
      /\ call[c].grant \in ControlOps /\ call[c].batch = {}
  BY <1>5, HeldGrant, NoBatch, Zenon
<1>7. call'[c].at \in Choosing BY <1>4, Zenon DEF Choosing
<1>8. Proceeds(c)
  <2>1. /\ call'[c].space \in AllSpaces /\ call'[c].grant \in Grants(call'[c].space)
        /\ call'[c].batch = {}
    BY <1>4, <1>6, Zenon
  <2>2. Fits(call[c])' /\ Claims(c) BY <1>7, <2>1, GrantedFits, Zenon
  <2> QED BY <1>4, <2>2, Zenon DEF Proceeds
<1>9. /\ active' \in ActiveType
      /\ active'.space = call[c].space /\ active'.grant = call[c].grant
  BY <1>1, <1>2, <1>6, Zenon DEF ActiveType
<1>10. active'.grant \in Grants(active'.space) BY <1>6, <1>9, Zenon
<1>11. Selection'
  <2>1. Selection BY InvParts, Zenon
  <2>2. author # None => author \in [space : AllSpaces, grant : ControlOps]
                         /\ author.grant \in Grants(author.space)
    BY <2>1, Zenon DEF Selection
  <2>3. author' = author BY <1>1, Zenon
  <2> QED BY <2>2, <2>3, <1>9, <1>10, Zenon DEF Selection, Grants, Owner, Paired
<1>12. Rest' BY <1>1, RestStays, Zenon DEF frame, nodes
<1>13. Still BY <1>1, Zenon DEF Still, frame, nodes, RemoteLog
<1> QED BY <1>1, <1>8, <1>11, <1>12, <1>13, QuietStep, Zenon

LEMMA AdoptKeeps ==
    ASSUME WorkspacesInv, NEW c \in Callers, Adopt(c)
    PROVE  WorkspacesInv'
<1>1. /\ Up /\ call[c].at = "adopt" /\ End(c) /\ pending' = pending \ {call[c].session}
      /\ author' = [space |-> call[c].space, grant |-> call[c].grant]
      /\ UNCHANGED <<frame, nodes, rows, ops, recs, sequence, active, served, peer,
                     link, page, minted, dropped>>
  BY Zenon DEF Adopt, In
<1>2. call[c].at \in Granted BY <1>1, Zenon DEF Granted, Choosing
<1>3. /\ call[c].space \in AllSpaces /\ call[c].grant \in Grants(call[c].space)
      /\ call[c].grant \in ControlOps
  BY <1>2, HeldGrant, Zenon
<1>4. /\ author' \in [space : AllSpaces, grant : ControlOps]
      /\ author'.space = call[c].space /\ author'.grant = call[c].grant
  BY <1>1, <1>3, Zenon
<1>5. author'.grant \in Grants(author'.space) BY <1>3, <1>4, Zenon
<1>6. Selection'
  <2>1. Selection BY InvParts, Zenon
  <2>2. active # None => active \in ActiveType /\ active.grant \in Grants(active.space)
    BY <2>1, Zenon DEF Selection
  <2>3. active' = active BY <1>1, Zenon
  <2> QED BY <2>2, <2>3, <1>4, <1>5, Zenon DEF Selection, Grants, Owner, Paired
<1>7. Rest' BY <1>1, InvParts, Zenon DEF Rest, frame, nodes
<1>8. Still BY <1>1, Zenon DEF Still, frame, nodes, RemoteLog
<1> QED BY <1>1, <1>6, <1>7, <1>8, EndProceeds, QuietStep, Zenon


LEMMA ForgetKeeps ==
    ASSUME WorkspacesInv, NEW c \in Callers, Forget(c)
    PROVE  WorkspacesInv'
<1>1. /\ Up /\ End(c) /\ (author' = None \/ author' = author)
      /\ UNCHANGED <<frame, nodes, rows, ops, recs, sequence, active, served, peer,
                     link, pending, page, minted, dropped>>
  BY Zenon DEF Forget, In
<1>2. Selection
  BY InvParts, Zenon
<1>3. Selection' BY <1>1, <1>2, Zenon DEF Selection, Grants, Owner, Paired
<1>4. Rest' BY <1>1, RestStays, Zenon DEF frame, nodes
<1>5. Still BY <1>1, Zenon DEF Still, frame, nodes, RemoteLog
<1> QED BY <1>1, <1>3, <1>4, <1>5, EndProceeds, QuietStep, Zenon

-------------------------------------------------------------------------------
(* A workspace is drawn, or taken for deletion.                            *)

LEMMA CreatingFits ==
    ASSUME NEW c, call'[c].at \in Creating, call'[c].batch = {},
           call'[c].space \in Spaces, call'[c].grant \in Grants(call'[c].space),
           call'[c].space \in minted' \ (rows' \cup dropped'),
           call'[c].at = "post" => supervised' /\ call'[c].space \notin hosted'
    PROVE  Fits(call[c])'
<1>1. call'[c].at \notin Joining \cup Claiming \cup Writing \cup Deleting
  BY Zenon DEF Joining, Claiming, Writing, Merging, Importing, Pulling, Creating, Deleting
<1>2. call'[c].at \notin {"remove", "drop", "import"} \cup Pulling \cup Importing \cup Merging
  BY Zenon DEF Creating, Pulling, Importing, Merging
<1>3. call'[c].space \in AllSpaces BY Zenon DEF AllSpaces
<1> QED BY <1>1, <1>2, <1>3, Zenon DEF Fits

LEMMA DeletingFits ==
    ASSUME NEW c, call'[c].at \in Deleting, call'[c].batch = {}, call'[c].space \in Spaces,
           call'[c].space \in minted',
           call'[c].at = "remove" => supervised',
           call'[c].at = "drop" => call'[c].space \notin hosted'
    PROVE  Fits(call[c])'
<1>1. call'[c].at \notin Granted \cup Joining \cup Claiming \cup Writing \cup Creating
  BY Zenon DEF Granted, Looking, Choosing, Joining, Claiming, Writing, Merging, Importing, Pulling,
     Creating, Deleting
<1>2. call'[c].at \notin {"post", "import"} \cup Pulling \cup Importing \cup Merging
  BY Zenon DEF Deleting, Pulling, Importing, Merging
<1> QED BY <1>1, <1>2, Zenon DEF Fits

LEMMA CreateKeeps ==
    ASSUME WorkspacesInv, NEW c \in Callers, NEW s \in Spaces, CreateWorkspace(c, s)
    PROVE  WorkspacesInv'
<1> DEFINE l == IF supervised THEN "post" ELSE "store"
           w == [Idle EXCEPT !.at = l, !.kind = "create", !.space = s, !.grant = Owner(s)]
<1>1. Up /\ Become(c, w) /\ Only /\ s \notin minted /\ minted' = minted \cup {s}
  BY Zenon DEF CreateWorkspace, Begin, Only
<1>2. l \in Creating /\ l \in Labels /\ (l = "post" => supervised) BY Zenon DEF Creating, Labels
<1> HIDE DEF l
<1>3. Owner(s) \in ControlOps /\ s \in AllSpaces /\ Owner(s) \in Grants(s) BY OwnGrant, Zenon
<1>4. w \in CallType /\ w.at = l /\ w.space = s /\ w.grant = Owner(s) /\ w.batch = {}
  BY <1>2, <1>3, Zenon DEF Idle, CallType
<1> HIDE DEF w
<1>5. Moves(c) /\ call'[c] = w BY <1>1, <1>4, BecomeMoves, Zenon
<1>6. s \in minted' \ (rows' \cup dropped') /\ s \notin hosted'
  BY <1>1, InvParts, Zenon DEF Ledger, Only, nodes
<1>7. supervised' = supervised BY <1>1, Zenon DEF Only, frame
<1>8. /\ call'[c].at \in Creating /\ call'[c].batch = {}
      /\ call'[c].space \in Spaces /\ call'[c].grant \in Grants(call'[c].space)
      /\ call'[c].space \in minted' \ (rows' \cup dropped')
      /\ call'[c].at = "post" => supervised' /\ call'[c].space \notin hosted'
  BY <1>2, <1>3, <1>4, <1>5, <1>6, <1>7, Zenon
<1>9. Fits(call[c])' BY <1>8, CreatingFits, Zenon
<1>10. call'[c].at \notin Deleting BY <1>8, Zenon DEF Creating, Deleting
<1>11. Claims(c) BY <1>1, <1>4, <1>5, <1>10, Zenon DEF Claims
<1> QED BY <1>1, <1>5, <1>9, <1>11, OnlyStep, Zenon DEF Proceeds

LEMMA DeleteKeeps ==
    ASSUME WorkspacesInv, NEW c \in Callers, NEW s \in Spaces, DeleteWorkspace(c, s)
    PROVE  WorkspacesInv'
<1> DEFINE l == IF supervised THEN "remove" ELSE "drop"
           w == [Idle EXCEPT !.at = l, !.kind = "delete", !.space = s]
<1>1. Up /\ Become(c, w) /\ Only /\ s \in rows BY Zenon DEF DeleteWorkspace, Begin, Only
<1>2. /\ l \in Deleting /\ l \in Labels
      /\ (l = "remove" => supervised) /\ (l = "drop" => ~supervised)
  BY Zenon DEF Deleting, Labels
<1> HIDE DEF l
<1>3. s \in AllSpaces BY OwnGrant, Zenon
<1>4. w \in CallType /\ w.at = l /\ w.space = s /\ w.batch = {}
  BY <1>2, <1>3, Zenon DEF Idle, CallType
<1> HIDE DEF w
<1>5. Moves(c) /\ call'[c] = w BY <1>1, <1>4, BecomeMoves, Zenon
<1>6. s \in minted' /\ (~supervised => s \notin hosted')
  BY <1>1, InvParts, Zenon DEF Ledger, Only, nodes
<1>7. supervised' = supervised BY <1>1, Zenon DEF Only, frame
<1>8. /\ call'[c].at \in Deleting /\ call'[c].batch = {} /\ call'[c].space \in Spaces
      /\ call'[c].space \in minted'
      /\ call'[c].at = "remove" => supervised'
      /\ call'[c].at = "drop" => call'[c].space \notin hosted'
  BY <1>2, <1>4, <1>5, <1>6, <1>7, Zenon
<1>9. Fits(call[c])' BY <1>8, DeletingFits, Zenon
<1>10. call'[c].at \notin Creating BY <1>8, Zenon DEF Creating, Deleting
<1>11. Claims(c) BY <1>1, <1>4, <1>5, <1>10, Zenon DEF Claims
<1> QED BY <1>1, <1>5, <1>9, <1>11, OnlyStep, Zenon DEF Proceeds

-------------------------------------------------------------------------------
(* Records are written: the author is taken, and the heads are read.       *)

LEMMA WritingFits ==
    ASSUME NEW c, call'[c].at \in Writing, call'[c].batch = {}, call'[c].entity \in Entities,
           call'[c].space \in AllSpaces, call'[c].grant \in Grants(call'[c].space)
    PROVE  Fits(call[c])' /\ Claims(c)
<1>1. call'[c].at \notin Local \cup Joining \cup Claiming
  BY Zenon DEF Local, Joining, Claiming, Writing, Merging, Importing, Pulling, Creating, Deleting
<1>2. call'[c].at \notin Creating \cup Deleting \cup Merging \cup Importing \cup Pulling
  BY Zenon DEF Writing, Creating, Deleting, Merging, Importing, Pulling
<1>3. call'[c].at \notin {"post", "remove", "drop", "import"} BY Zenon DEF Writing
<1>4. Fits(call[c])' BY <1>1, <1>2, <1>3, Zenon DEF Fits
<1> QED BY <1>2, <1>4, Zenon DEF Claims

LEMMA AuthorTyped ==
    ASSUME WorkspacesInv, author # None
    PROVE  /\ author.space \in AllSpaces /\ author.grant \in ControlOps
           /\ author.grant \in Grants(author.space)
<1>1. author \in [space : AllSpaces, grant : ControlOps] /\ author.grant \in Grants(author.space)
  BY InvParts, Zenon DEF Selection
<1> QED BY <1>1, Zenon

(* The author and the entity of the call are those it began with.          *)
LEMMA WriteProceeds ==
    ASSUME WorkspacesInv, NEW c \in Callers, author # None, NEW w \in CallType, Become(c, w),
           w.at \in Writing, w.space = author.space, w.grant = author.grant,
           w.entity \in Entities, w.batch = {}
    PROVE  Proceeds(c)
<1>1. Moves(c) /\ call'[c] = w BY BecomeMoves, Zenon
<1>2. w.space \in AllSpaces /\ w.grant \in Grants(w.space) BY AuthorTyped, Zenon
<1>3. /\ call'[c].at \in Writing /\ call'[c].batch = {} /\ call'[c].entity \in Entities
      /\ call'[c].space \in AllSpaces /\ call'[c].grant \in Grants(call'[c].space)
  BY <1>1, <1>2, Zenon
<1>4. Fits(call[c])' /\ Claims(c) BY <1>3, WritingFits, Zenon
<1> QED BY <1>1, <1>4, Zenon DEF Proceeds

LEMMA CreateRecordKeeps ==
    ASSUME WorkspacesInv, NEW c \in Callers, NEW e \in Entities, CreateRecord(c, e)
    PROVE  WorkspacesInv'
<1> DEFINE w == [Idle EXCEPT !.at = "commit", !.kind = "write", !.entity = e,
                             !.space = author.space, !.grant = author.grant]
<1>1. Up /\ Become(c, w) /\ Only /\ author # None BY Zenon DEF CreateRecord, Begin, Only
<1>2. author.space \in AllSpaces /\ author.grant \in ControlOps BY <1>1, AuthorTyped, Zenon
<1>3. /\ w \in CallType /\ w.at = "commit" /\ w.space = author.space /\ w.grant = author.grant
      /\ w.entity = e /\ w.batch = {}
  BY <1>2, Zenon DEF Idle, CallType, Labels
<1>4. w.at \in Writing BY <1>3, Zenon DEF Writing
<1> HIDE DEF w
<1>5. Proceeds(c) BY <1>1, <1>3, <1>4, WriteProceeds, Zenon
<1> QED BY <1>1, <1>5, OnlyStep, Zenon

LEMMA UpdateRecordKeeps ==
    ASSUME WorkspacesInv, NEW c \in Callers, NEW e \in Entities, NEW live \in BOOLEAN,
           UpdateRecord(c, e, live)
    PROVE  WorkspacesInv'
<1> DEFINE w == [Idle EXCEPT !.at = "observe", !.kind = "write", !.entity = e,
                             !.space = author.space, !.grant = author.grant, !.live = live]
<1>1. Up /\ Become(c, w) /\ Only /\ author # None BY Zenon DEF UpdateRecord, Begin, Only
<1>2. author.space \in AllSpaces /\ author.grant \in ControlOps BY <1>1, AuthorTyped, Zenon
<1>3. /\ w \in CallType /\ w.at = "observe" /\ w.space = author.space /\ w.grant = author.grant
      /\ w.entity = e /\ w.batch = {}
  BY <1>2, Zenon DEF Idle, CallType, Labels
<1>4. w.at \in Writing BY <1>3, Zenon DEF Writing
<1> HIDE DEF w
<1>5. Proceeds(c) BY <1>1, <1>3, <1>4, WriteProceeds, Zenon
<1> QED BY <1>1, <1>5, OnlyStep, Zenon

LEMMA RecordsTyped ==
    ASSUME WorkspacesInv, NEW s \in AllSpaces, NEW r \in recs[s]
    PROVE  /\ r \in RecordType /\ r.seq \in Nat \ {0} /\ r.seq <= sequence /\ sequence \in Nat
           /\ r.entity \in Entities /\ r.pay \in Nat
<1>1. recs \in [AllSpaces -> SUBSET RecordType] /\ r.seq <= sequence /\ sequence \in Nat
  BY InvParts, Zenon DEF RecordsFit
<1>2. r \in RecordType BY <1>1, Zenon
<1> QED BY <1>1, <1>2, Zenon DEF RecordType

LEMMA ObserveKeeps ==
    ASSUME WorkspacesInv, NEW c \in Callers, Observe(c)
    PROVE  WorkspacesInv'
<1> DEFINE heads == HeadsOf(call[c].space, call[c].entity)
           w == [call[c] EXCEPT !.at = "commit", !.parents = {h.seq : h \in heads}]
<1>1. Up /\ call[c].at = "observe" /\ Only BY Zenon DEF Observe, In, Only
<1>2. CASE End(c) BY <1>1, <1>2, EndProceeds, OnlyStep, Zenon
<1>3. CASE Become(c, w)
  <2>1. call[c] \in CallType /\ Fits(call[c]) BY TypeOfCall, Zenon
  <2>2. call[c].at \in Granted \cap Writing /\ call[c].at # "import"
    BY <1>1, Zenon DEF Granted, Writing
  <2>3. /\ call[c].space \in AllSpaces /\ call[c].grant \in Grants(call[c].space)
        /\ call[c].batch = {} /\ call[c].entity \in Entities
    BY <2>1, <2>2, HeldGrant, NoBatch, Zenon DEF Fits
  <2>4. \A h \in heads : h.seq \in Nat BY <2>3, RecordsTyped, Zenon DEF HeadsOf, RecordsOf
  <2> HIDE DEF heads
  <2>5. PICK p \in SUBSET Nat : p = {h.seq : h \in heads}
    <3>1. {h.seq : h \in heads} \subseteq Nat BY <2>4, Zenon
    <3> QED BY <3>1, Zenon
  <2>6. w \in CallType /\ w.at = "commit" /\ w.space = call[c].space /\ w.grant = call[c].grant
        /\ w.batch = call[c].batch /\ w.entity = call[c].entity
    <3>1. PICK u \in CallType : u = call[c] BY <2>1, Zenon
    <3>2. w = [u EXCEPT !.at = "commit", !.parents = p] BY <2>5, <3>1, Zenon
    <3> HIDE DEF w
    <3>3. w \in CallType BY <3>2, Zenon DEF CallType, Labels
    <3>4. /\ w.at = "commit" /\ w.space = u.space /\ w.grant = u.grant /\ w.batch = u.batch
          /\ w.entity = u.entity
      BY <3>2 DEF CallType
    <3> QED BY <3>1, <3>3, <3>4, Zenon
  <2>7. w.at \in Writing BY <2>6, Zenon DEF Writing
  <2> HIDE DEF w
  <2>8. Moves(c) /\ call'[c] = w BY <1>3, <2>6, BecomeMoves, Zenon
  <2>9. /\ call'[c].at \in Writing /\ call'[c].batch = {} /\ call'[c].entity \in Entities
        /\ call'[c].space \in AllSpaces /\ call'[c].grant \in Grants(call'[c].space)
    BY <2>3, <2>6, <2>7, <2>8, Zenon
  <2>10. Fits(call[c])' /\ Claims(c) BY <2>9, WritingFits, Zenon
  <2> QED BY <1>1, <2>8, <2>10, OnlyStep, Zenon DEF Proceeds
<1> QED BY <1>2, <1>3, Zenon DEF Observe


-------------------------------------------------------------------------------
(* Pairing, up to the merge.                                               *)

LEMMA ClaimingFits ==
    ASSUME NEW c, call'[c].at \in Claiming, call'[c].batch = {}, call'[c].session \in Sessions
    PROVE  Fits(call[c])' /\ Claims(c)
<1>1. call'[c].at \notin Granted \cup Local \cup Joining \cup Writing
  BY Zenon DEF Granted, Looking, Choosing, Local, Joining, Claiming, Writing, Merging, Importing,
     Pulling, Creating, Deleting
<1>2. call'[c].at \notin Creating \cup Deleting \cup Merging \cup Importing \cup Pulling
  BY Zenon DEF Claiming, Creating, Deleting, Merging, Importing, Pulling
<1>3. call'[c].at \notin {"post", "remove", "drop", "import"} BY Zenon DEF Claiming
<1>4. Fits(call[c])' BY <1>1, <1>2, <1>3, Zenon DEF Fits
<1> QED BY <1>2, <1>4, Zenon DEF Claims

LEMMA ClaimKeeps ==
    ASSUME WorkspacesInv, NEW c \in Callers, NEW k \in Sessions, ClaimInvitation(c, k)
    PROVE  WorkspacesInv'
<1> DEFINE l == IF k \in pending THEN "idle" ELSE "handshake"
           n == IF k \in pending THEN "none" ELSE "claim"
           j == IF k \in pending THEN None ELSE k
           w == [Idle EXCEPT !.at = l, !.kind = n, !.session = j]
<1>1. /\ Up /\ Become(c, w) /\ pending' = pending \cap {k}
      /\ UNCHANGED <<frame, nodes, rows, ops, recs, sequence, active, served, peer,
                     link, author, page, minted, dropped>>
  BY Zenon DEF ClaimInvitation, Begin
<1>2. \/ l = "idle" /\ n = "none" /\ j = None
      \/ l = "handshake" /\ n = "claim" /\ j = k
  BY Zenon
<1> HIDE DEF l, n, j
<1>3. Proceeds(c)
  <2>1. CASE l = "idle" /\ n = "none" /\ j = None
    <3>1. w \in CallType /\ w.at = "idle" /\ w.batch = {} BY <2>1, Zenon DEF Idle, CallType, Labels
    <3> HIDE DEF w
    <3>2. Moves(c) /\ call'[c] = w BY <1>1, <3>1, BecomeMoves, Zenon
    <3>3. call'[c].at = "idle" /\ call'[c].batch = {} BY <3>1, <3>2, Zenon
    <3>4. Fits(call[c])' /\ call'[c].at \notin Creating \cup Deleting BY <3>3, IdleFits, Zenon
    <3> QED BY <3>2, <3>4, Zenon DEF Proceeds, Claims
  <2>2. CASE l = "handshake" /\ n = "claim" /\ j = k
    <3>1. w \in CallType /\ w.at = "handshake" /\ w.session = k /\ w.batch = {}
      BY <2>2, Zenon DEF Idle, CallType, Labels
    <3>2. w.at \in Claiming BY <3>1, Zenon DEF Claiming
    <3> HIDE DEF w
    <3>3. Moves(c) /\ call'[c] = w BY <1>1, <3>1, BecomeMoves, Zenon
    <3>4. call'[c].at \in Claiming /\ call'[c].batch = {} /\ call'[c].session \in Sessions
      BY <3>1, <3>2, <3>3, Zenon
    <3>5. Fits(call[c])' /\ Claims(c) BY <3>4, ClaimingFits, Zenon
    <3> QED BY <3>3, <3>5, Zenon DEF Proceeds
  <2> QED BY <1>2, <2>1, <2>2, Zenon
<1>4. Rest' BY <1>1, InvParts, Zenon DEF Rest, frame, nodes
<1>5. Selection' BY <1>1, SelectionStays, Zenon
<1>6. Still BY <1>1, Zenon DEF Still, frame, nodes, RemoteLog
<1> QED BY <1>1, <1>3, <1>4, <1>5, <1>6, QuietStep, Zenon

LEMMA HandshakeKeeps ==
    ASSUME WorkspacesInv, NEW c \in Callers, Handshake(c)
    PROVE  WorkspacesInv'
<1>1. /\ Up /\ call[c].at = "handshake" /\ (End(c) \/ ToCall(c, "count"))
      /\ UNCHANGED <<frame, hosted, admitted, rows, ops, recs, sequence, active,
                     served, peer, link, author, pending, page, minted, dropped>>
  BY Zenon DEF Handshake, In
<1>2. ASSUME ToCall(c, "count") PROVE Proceeds(c)
  <2>1. "count" \in Labels BY Zenon DEF Labels
  <2>2. /\ Moves(c) /\ call'[c].at = "count" /\ call'[c].session = call[c].session
        /\ call'[c].batch = call[c].batch
    BY <1>2, <2>1, ToCallMoves, Zenon
  <2>3. call[c].at \in Claiming /\ call[c].at # "import" /\ call'[c].at \in Claiming
    BY <1>1, <2>2, Zenon DEF Claiming
  <2>4. call[c].session \in Sessions BY <2>3, TypeOfCall, Zenon DEF Fits
  <2>5. call'[c].batch = {} /\ call'[c].session \in Sessions BY <2>2, <2>3, <2>4, NoBatch, Zenon
  <2>6. Fits(call[c])' /\ Claims(c) BY <2>3, <2>5, ClaimingFits, Zenon
  <2> QED BY <2>2, <2>6, Zenon DEF Proceeds
<1>3. Proceeds(c) BY <1>1, <1>2, EndProceeds, Zenon
<1>4. Rest' BY <1>1, RestStays, Zenon DEF frame
<1>5. Selection' BY <1>1, SelectionStays, Zenon
<1>6. Still BY <1>1, Zenon DEF Still, frame, RemoteLog
<1> QED BY <1>1, <1>3, <1>4, <1>5, <1>6, QuietStep, Zenon

LEMMA CountKeeps ==
    ASSUME WorkspacesInv, NEW c \in Callers, Count(c)
    PROVE  WorkspacesInv'
<1>1. /\ Up /\ call[c].at = "count" /\ End(c) /\ pending' \subseteq pending \cup {call[c].session}
      /\ UNCHANGED <<frame, nodes, rows, ops, recs, sequence, active, served, peer,
                     link, author, page, minted, dropped>>
  BY Zenon DEF Count, In
<1>2. call[c].at \in Claiming BY <1>1, Zenon DEF Claiming
<1>3. call[c].session \in Sessions BY <1>2, TypeOfCall, Zenon DEF Fits
<1>4. pending' \subseteq Sessions BY <1>1, <1>3, InvParts, Zenon DEF Rest
<1>5. Rest' BY <1>1, <1>4, InvParts, Zenon DEF Rest, frame, nodes
<1>6. Selection' BY <1>1, SelectionStays, Zenon
<1>7. Still BY <1>1, Zenon DEF Still, frame, nodes, RemoteLog
<1> QED BY <1>1, <1>5, <1>6, <1>7, EndProceeds, QuietStep, Zenon

LEMMA AcceptKeeps ==
    ASSUME WorkspacesInv, NEW c \in Callers, NEW k \in Sessions, NEW merge \in BOOLEAN,
           AcceptInvitation(c, k, merge)
    PROVE  WorkspacesInv'
<1> DEFINE w == [Idle EXCEPT !.at = "offer", !.kind = "pair", !.space = Remote,
                             !.grant = Paired(k), !.session = k, !.merge = merge]
<1>1. Up /\ Become(c, w) /\ Only BY Zenon DEF AcceptInvitation, Begin, Only
<1>2. Paired(k) \in Grants(Remote) /\ Paired(k) \in ControlOps /\ Remote \in AllSpaces
  BY PairGrant, Zenon
<1>3. /\ w \in CallType /\ w.at = "offer" /\ w.space = Remote /\ w.grant = Paired(k)
      /\ w.session = k /\ w.batch = {}
  BY <1>2, Zenon DEF Idle, CallType, Labels
<1>4. w.at \in Joining \ Importing /\ w.at \notin Pulling \cup Merging
  BY <1>3, Zenon DEF Joining, Merging, Importing, Pulling
<1> HIDE DEF w
<1>5. Moves(c) /\ call'[c] = w BY <1>1, <1>3, BecomeMoves, Zenon
<1>6. /\ call'[c].at \in Joining \ Importing /\ call'[c].batch = {} /\ call'[c].space = Remote
      /\ call'[c].grant \in Grants(Remote) /\ call'[c].session \in Sessions
      /\ call'[c].at \notin Pulling \cup Merging
  BY <1>2, <1>3, <1>4, <1>5, Zenon
<1>7. Fits(call[c])' /\ Claims(c) BY <1>6, JoiningFits, Zenon
<1> QED BY <1>1, <1>5, <1>7, OnlyStep, Zenon DEF Proceeds

(* What a call on its way to the joined workspace holds.                   *)
LEMMA JoiningHolds ==
    ASSUME WorkspacesInv, NEW c \in Callers, call[c].at \in Joining
    PROVE  /\ call[c].space = Remote /\ call[c].grant \in Grants(Remote)
           /\ call[c].grant \in ControlOps /\ call[c].session \in Sessions
<1>1. call[c].at \in Granted BY Zenon DEF Granted
<1>2. call[c].space = Remote /\ call[c].session \in Sessions BY TypeOfCall, Zenon DEF Fits
<1> QED BY <1>1, <1>2, HeldGrant, Zenon


LEMMA LogShape ==
    ASSUME NEW a \in Seq(ControlOps)
    PROVE  LET log == <<Genesis(Remote), Owner(Remote)>> \o a IN
           /\ log \in Seq(ControlOps) /\ Len(a) \in Nat /\ Len(log) = Len(a) + 2
           /\ DOMAIN log = 1..Len(log)
<1>1. Genesis(Remote) \in ControlOps /\ Owner(Remote) \in ControlOps
  BY Zenon DEF ControlOps
<1>2. <<Genesis(Remote), Owner(Remote)>> \in Seq(ControlOps)
      /\ Len(<<Genesis(Remote), Owner(Remote)>>) = 2
  BY <1>1
<1> HIDE DEF ControlOps
<1> QED BY <1>2

LEMMA LogTyped ==
    ASSUME WorkspacesInv
    PROVE  /\ admitted \in Seq(ControlOps) /\ RemoteLog \in Seq(ControlOps)
           /\ Len(RemoteLog) \in Nat /\ Len(RemoteLog) >= 2 /\ DOMAIN RemoteLog = 1..Len(RemoteLog)
<1>1. admitted \in Seq(ControlOps) BY InvParts, Zenon DEF Rest
<1>2. /\ RemoteLog \in Seq(ControlOps) /\ Len(admitted) \in Nat
      /\ Len(RemoteLog) = Len(admitted) + 2 /\ DOMAIN RemoteLog = 1..Len(RemoteLog)
  BY <1>1, LogShape, Zenon DEF RemoteLog
<1> QED BY <1>1, <1>2

(* The other node's log only grows.                                        *)
LEMMA LogGrows ==
    ASSUME WorkspacesInv, NEW k \in Sessions,
           admitted' = admitted \/ admitted' = Append(admitted, Paired(k))
    PROVE  /\ admitted' \in Seq(ControlOps) /\ DOMAIN RemoteLog \subseteq DOMAIN RemoteLog'
           /\ 1 \in DOMAIN RemoteLog'
<1>1. /\ admitted \in Seq(ControlOps) /\ DOMAIN RemoteLog = 1..Len(RemoteLog)
      /\ Len(RemoteLog) = Len(admitted) + 2 /\ Len(admitted) \in Nat
  <2>1. admitted \in Seq(ControlOps) BY InvParts, Zenon DEF Rest
  <2> QED BY <2>1, LogShape, Zenon DEF RemoteLog
<1>2. Paired(k) \in ControlOps BY PairGrant, Zenon
<1>3. admitted' \in Seq(ControlOps) /\ Len(admitted') >= Len(admitted) /\ Len(admitted') \in Nat
  BY <1>1, <1>2
<1>4. DOMAIN RemoteLog' = 1..Len(RemoteLog') /\ Len(RemoteLog') = Len(admitted') + 2
  BY <1>3, LogShape, Zenon DEF RemoteLog
<1> QED BY <1>1, <1>3, <1>4

LEMMA OfferKeeps ==
    ASSUME WorkspacesInv, NEW c \in Callers, Offer(c)
    PROVE  WorkspacesInv'
<1> DEFINE k == call[c].session
           u == [call[c] EXCEPT !.at = "register", !.after = 0]
           v == [call[c] EXCEPT !.after = @ + 1]
<1>1. /\ Up /\ call[c].at = "offer"
      /\ admitted' = admitted \/ admitted' = Append(admitted, Paired(k))
      /\ Become(c, u) \/ Become(c, v) \/ End(c)
      /\ UNCHANGED <<frame, hosted, rows, ops, recs, sequence, active, served, peer,
                     link, author, pending, page, minted, dropped>>
  BY Zenon DEF Offer, In
<1>2. call[c].at \in Joining /\ call[c].at # "import" BY <1>1, Zenon DEF Joining
<1>3. /\ call[c].space = Remote /\ call[c].grant \in Grants(Remote) /\ k \in Sessions
      /\ call[c].batch = {} /\ call[c] \in CallType
  BY <1>2, JoiningHolds, NoBatch, TypeOfCall, Zenon
<1> HIDE DEF k
<1>4. /\ admitted' \in Seq(ControlOps) /\ DOMAIN RemoteLog \subseteq DOMAIN RemoteLog'
      /\ 1 \in DOMAIN RemoteLog'
  BY <1>1, <1>3, LogGrows, Zenon
<1>5. ASSUME Become(c, u) PROVE Proceeds(c)
  <2>1. /\ u \in CallType /\ u.at = "register" /\ u.after = 0 /\ u.space = call[c].space
        /\ u.grant = call[c].grant /\ u.session = k /\ u.batch = call[c].batch
    BY <1>3, Zenon DEF CallType, Labels, k
  <2>2. u.at \in Joining \ Importing /\ u.at \notin Merging
    BY <2>1, Zenon DEF Joining, Merging, Importing, Pulling
  <2> HIDE DEF u
  <2>3. Moves(c) /\ call'[c] = u BY <1>5, <2>1, BecomeMoves, Zenon
  <2>4. call'[c].after + 1 \in DOMAIN RemoteLog' BY <1>4, <2>1, <2>3
  <2>5. /\ call'[c].at \in Joining \ Importing /\ call'[c].batch = {} /\ call'[c].space = Remote
        /\ call'[c].grant \in Grants(Remote) /\ call'[c].session \in Sessions
        /\ call'[c].at \notin Merging
    BY <1>3, <2>1, <2>2, <2>3, Zenon
  <2>6. Fits(call[c])' /\ Claims(c) BY <2>4, <2>5, JoiningFits, Zenon
  <2> QED BY <2>3, <2>6, Zenon DEF Proceeds
<1>6. ASSUME Become(c, v) PROVE Proceeds(c)
  <2>1. /\ v \in CallType /\ v.at = "offer" /\ v.space = call[c].space
        /\ v.grant = call[c].grant /\ v.session = k /\ v.batch = call[c].batch
    BY <1>1, <1>3 DEF CallType, Labels, k
  <2>2. v.at \in Joining \ Importing /\ v.at \notin Merging \cup Pulling
    BY <2>1, Zenon DEF Joining, Merging, Importing, Pulling
  <2> HIDE DEF v
  <2>3. Moves(c) /\ call'[c] = v BY <1>6, <2>1, BecomeMoves, Zenon
  <2>4. /\ call'[c].at \in Joining \ Importing /\ call'[c].batch = {} /\ call'[c].space = Remote
        /\ call'[c].grant \in Grants(Remote) /\ call'[c].session \in Sessions
        /\ call'[c].at \notin Merging \cup Pulling
    BY <1>3, <2>1, <2>2, <2>3, Zenon
  <2>5. Fits(call[c])' /\ Claims(c) BY <2>4, JoiningFits, Zenon
  <2> QED BY <2>3, <2>5, Zenon DEF Proceeds
<1>7. Proceeds(c) BY <1>1, <1>5, <1>6, EndProceeds, Zenon
<1>8. Rest' BY <1>1, <1>4, InvParts, Zenon DEF Rest, frame
<1>9. Selection' BY <1>1, SelectionStays, Zenon
<1>10. Still BY <1>1, <1>4, Zenon DEF Still, frame
<1> QED BY <1>1, <1>7, <1>8, <1>9, <1>10, QuietStep, Zenon

(* A call on its way goes on to a label with no further duty.              *)
LEMMA JoiningNext ==
    ASSUME WorkspacesInv, NEW c \in Callers, NEW l \in Labels, ToCall(c, l),
           call[c].at \in Joining, call[c].at # "import", l \in Joining \ Importing,
           l \in Pulling => call[c].after + 1 \in DOMAIN RemoteLog',
           l \in Merging /\ call[c].merge => Merges(call[c])'
    PROVE  Proceeds(c)
<1>1. /\ Moves(c) /\ call'[c].at = l /\ call'[c].space = call[c].space
      /\ call'[c].grant = call[c].grant /\ call'[c].session = call[c].session
      /\ call'[c].batch = call[c].batch /\ call'[c].after = call[c].after
      /\ call'[c].merge = call[c].merge
  BY ToCallMoves, Zenon
<1>2. /\ call[c].space = Remote /\ call[c].grant \in Grants(Remote)
      /\ call[c].session \in Sessions /\ call[c].batch = {}
  BY JoiningHolds, NoBatch, Zenon
<1>3. /\ call'[c].at \in Joining \ Importing /\ call'[c].batch = {} /\ call'[c].space = Remote
      /\ call'[c].grant \in Grants(Remote) /\ call'[c].session \in Sessions
  BY <1>1, <1>2, Zenon
<1>4. call'[c].at \in Pulling => call'[c].after + 1 \in DOMAIN RemoteLog' BY <1>1, Zenon
<1>5. call'[c].at \in Merging /\ call'[c].merge => Merges(call[c])' BY <1>1, Zenon
<1>6. Fits(call[c])' /\ Claims(c) BY <1>3, <1>4, <1>5, JoiningFits, Zenon
<1> QED BY <1>1, <1>6, Zenon DEF Proceeds

LEMMA RegisterKeeps ==
    ASSUME WorkspacesInv, NEW c \in Callers, Register(c)
    PROVE  WorkspacesInv'
<1>1. /\ Up /\ call[c].at = "register" /\ ToCall(c, "pull") /\ (peer' = peer \/ peer' = Dormant)
      /\ UNCHANGED <<frame, nodes, rows, ops, recs, sequence, active, served, link,
                     author, pending, page, minted, dropped>>
  BY Zenon DEF Register, In
<1>2. /\ "pull" \in Labels /\ "pull" \in Joining \ Importing /\ "pull" \notin Merging
      /\ call[c].at \in Pulling /\ call[c].at \in Joining /\ call[c].at # "import"
  BY <1>1, Zenon DEF Labels, Joining, Merging, Importing, Pulling
<1>3. RemoteLog' = RemoteLog BY <1>1, Zenon DEF nodes, RemoteLog
<1>4. call[c].after + 1 \in DOMAIN RemoteLog' BY <1>2, <1>3, TypeOfCall, Zenon DEF Fits
<1>5. Proceeds(c) BY <1>1, <1>2, <1>4, JoiningNext, Zenon
<1>6. Dormant.session = None BY Zenon DEF Dormant
<1>7. peer'.session \in Sessions \cup {None} BY <1>1, <1>6, InvParts, Zenon DEF Rest
<1>8. Rest' BY <1>1, <1>7, InvParts, Zenon DEF Rest, frame, nodes
<1>9. Selection' BY <1>1, SelectionStays, Zenon
<1>10. Still BY <1>1, <1>3, Zenon DEF Still, frame, nodes
<1> QED BY <1>1, <1>5, <1>8, <1>9, <1>10, QuietStep, Zenon

LEMMA PublishKeeps ==
    ASSUME WorkspacesInv, NEW c \in Callers, Publish(c)
    PROVE  WorkspacesInv'
<1>1. /\ Up /\ call[c].at = "publish" /\ ToCall(c, "configure")
      /\ peer' = Enabled(call[c].session)
      /\ UNCHANGED <<frame, nodes, rows, ops, recs, sequence, active, served, link,
                     author, pending, page, minted, dropped>>
  BY Zenon DEF Publish, In
<1>2. /\ "configure" \in Labels /\ "configure" \in Joining \ Importing
      /\ "configure" \notin Pulling /\ call[c].at \in Merging /\ call[c].at \in Joining
      /\ call[c].at # "import" /\ call[c].at \notin Importing
  BY <1>1, Zenon DEF Labels, Joining, Merging, Importing, Pulling
<1>3. call[c].merge => Merges(call[c])'
  <2>1. call[c].merge => Merges(call[c]) BY <1>2, TypeOfCall, Zenon DEF Fits
  <2>2. /\ call'[c].source = call[c].source /\ call'[c].wanted = call[c].wanted
    BY <1>1, <1>2, ToCallMoves, Zenon
  <2>3. Grown /\ sequence' \in Nat BY <1>1, StillGrown, Zenon
  <2>4. call[c].merge => \A r \in call[c].wanted \cap LiveHeads(call[c].source) : Joined(r)'
    BY <1>2, <2>1, <2>3, JoinedStays, Zenon DEF Merges
  <2> QED BY <2>1, <2>2, <2>3, <2>4, MergesOn, Zenon
<1>4. Proceeds(c) BY <1>1, <1>2, <1>3, JoiningNext, Zenon
<1>5. call[c].session \in Sessions BY <1>2, JoiningHolds, Zenon
<1>6. peer'.session = call[c].session BY <1>1, Zenon DEF Enabled
<1>7. Rest' BY <1>1, <1>5, <1>6, InvParts, Zenon DEF Rest, frame, nodes
<1>8. Selection' BY <1>1, SelectionStays, Zenon
<1>9. Still BY <1>1, Zenon DEF Still, frame, nodes, RemoteLog
<1> QED BY <1>1, <1>4, <1>7, <1>8, <1>9, QuietStep, Zenon

LEMMA ConfigureKeeps ==
    ASSUME WorkspacesInv, NEW c \in Callers, Configure(c)
    PROVE  WorkspacesInv'
<1> DEFINE w == [Idle EXCEPT !.at = "select", !.kind = "pair", !.space = Remote,
                             !.grant = call[c].grant, !.session = call[c].session]
<1>1. /\ Up /\ call[c].at = "configure" /\ Become(c, w) /\ link' = call[c].session
      /\ UNCHANGED <<frame, nodes, rows, ops, recs, sequence, active, served, peer,
                     author, pending, page, minted, dropped>>
  BY Zenon DEF Configure, In
<1>2. call[c].at \in Joining BY <1>1, Zenon DEF Joining, Merging
<1>3. /\ call[c].grant \in Grants(Remote) /\ call[c].grant \in ControlOps
      /\ call[c].session \in Sessions /\ Remote \in AllSpaces
  BY <1>2, JoiningHolds, Zenon DEF AllSpaces
<1>4. w \in CallType /\ w.at = "select" /\ w.space = Remote /\ w.grant = call[c].grant
      /\ w.batch = {}
  BY <1>3, Zenon DEF Idle, CallType, Labels
<1>5. w.at \in Choosing BY <1>4, Zenon DEF Choosing
<1> HIDE DEF w
<1>6. Moves(c) /\ call'[c] = w BY <1>1, <1>4, BecomeMoves, Zenon
<1>7. /\ call'[c].at \in Choosing /\ call'[c].batch = {} /\ call'[c].space \in AllSpaces
      /\ call'[c].grant \in Grants(call'[c].space)
  BY <1>3, <1>4, <1>5, <1>6, Zenon
<1>8. Proceeds(c)
  <2>1. Fits(call[c])' /\ Claims(c) BY <1>7, GrantedFits, Zenon
  <2> QED BY <1>6, <2>1, Zenon DEF Proceeds
<1>9. Rest' BY <1>1, <1>3, InvParts, Zenon DEF Rest, frame, nodes
<1>10. Selection' BY <1>1, SelectionStays, Zenon
<1>11. Still BY <1>1, Zenon DEF Still, frame, nodes, RemoteLog
<1> QED BY <1>1, <1>8, <1>9, <1>10, <1>11, QuietStep, Zenon


-------------------------------------------------------------------------------
(* The batches of a merge.                                                 *)

(* A set of numbers has a least one, and a bounded one a greatest.         *)
LEMMA LeastNumber ==
    ASSUME NEW T \in SUBSET Nat, T # {}
    PROVE  \E x \in T : \A y \in T : x <= y
<1>1. PICK x \in T : \A y \in T : <<y, x>> \notin OpToRel(<, Nat)
  BY WFMin, NatLessThanWellFounded, Zenon
<1>2. ASSUME NEW y \in T PROVE x <= y
  <2>1. x \in Nat /\ y \in Nat BY Zenon
  <2>2. <<y, x>> \notin OpToRel(<, Nat) BY <1>1, Zenon
  <2>3. y < x => <<y, x>> \in OpToRel(<, Nat) BY <2>1, Zenon DEF OpToRel
  <2>4. ~(y < x) BY <2>2, <2>3, Zenon
  <2> QED BY <2>1, <2>4
<1> QED BY <1>2, Zenon

LEMMA GreatestNumber ==
    ASSUME NEW T \in SUBSET Nat, T # {}, NEW n \in Nat, \A x \in T : x <= n
    PROVE  \E x \in T : \A y \in T : y <= x
<1> DEFINE U == {n - x : x \in T}
<1>1. U \in SUBSET Nat /\ U # {}
  <2>1. \A x \in T : n - x \in Nat OBVIOUS
  <2> QED BY <2>1, Zenon
<1>2. PICK u \in U : \A v \in U : u <= v BY <1>1, LeastNumber, Zenon
<1>3. PICK x \in T : u = n - x BY Zenon
<1>4. ASSUME NEW y \in T PROVE y <= x
  <2>1. n - x <= n - y BY <1>2, <1>3, Zenon
  <2> QED BY <2>1
<1> QED BY <1>4, Zenon


(* Numbered records: the first of them are some if there are any, and they *)
(* are all up to the last of them.                                         *)
LEMMA FirstsExist ==
    ASSUME NEW due, due # {}, \A r \in due : r.seq \in Nat
    PROVE  FirstOf(due) # {}
<1> DEFINE T == {r.seq : r \in due}
<1>1. T \in SUBSET Nat /\ T # {} BY Zenon
<1>2. PICK x \in T : \A y \in T : x <= y BY <1>1, LeastNumber, Zenon
<1>3. PICK r \in due : x = r.seq BY Zenon
<1>4. \A q \in due : ~(q.seq < r.seq)
  <2> TAKE q \in due
  <2>1. r.seq <= q.seq BY <1>2, <1>3, Zenon
  <2>2. r.seq \in Nat /\ q.seq \in Nat BY Zenon
  <2> QED BY <2>1, <2>2
<1>5. {q \in due : q.seq < r.seq} = {} BY <1>4, Zenon
<1>6. Cardinality({}) < BatchSize
  <2>1. Cardinality({}) = 0 BY FS_EmptySet, Zenon
  <2> QED BY <2>1
<1>7. r \in FirstOf(due) BY <1>5, <1>6, Zenon DEF FirstOf
<1> QED BY <1>7, Zenon

LEMMA LastOfFirsts ==
    ASSUME NEW due, IsFiniteSet(due), NEW n \in Nat,
           \A r \in due : r.seq \in Nat /\ r.seq <= n, FirstOf(due) # {}
    PROVE  /\ LastSeq(FirstOf(due)) \in Nat
           /\ \A r \in due : r.seq > LastSeq(FirstOf(due)) \/ r \in FirstOf(due)
<1> DEFINE T == {r.seq : r \in FirstOf(due)}
           m == LastSeq(FirstOf(due))
<1>1. FirstOf(due) \subseteq due BY Zenon DEF FirstOf
<1>2. T \in SUBSET Nat /\ T # {} /\ \A x \in T : x <= n BY <1>1, Zenon
<1>3. \E x \in T : \A y \in T : y <= x BY <1>2, GreatestNumber, Zenon
<1>4. \E x \in T : \A r \in FirstOf(due) : r.seq <= x BY <1>3, Zenon
<1>5. m \in T BY <1>4, Zenon DEF LastSeq
<1>6. PICK b \in FirstOf(due) : m = b.seq BY <1>5, Zenon
<1>7. m \in Nat BY <1>2, <1>5, Zenon
<1> HIDE DEF m, T
<1>8. ASSUME NEW r \in due, ~(r.seq > m)
      PROVE  r \in FirstOf(due)
  <2> DEFINE below(x) == {q \in due : q.seq < x}
  <2>1. r.seq \in Nat /\ r.seq <= m BY <1>7, <1>8
  <2>2. \A q \in due : q.seq < r.seq => q.seq < m
    <3> TAKE q \in due
    <3>1. q.seq \in Nat BY Zenon
    <3> QED BY <1>7, <2>1, <3>1
  <2>3. below(r.seq) \in SUBSET below(m) /\ below(m) \in SUBSET due BY <2>2, Zenon
  <2>4. Cardinality(below(m)) < BatchSize BY <1>6, Zenon DEF FirstOf
  <2> HIDE DEF below
  <2>5. IsFiniteSet(below(m)) BY <2>3, FS_Subset, Zenon
  <2>6. IsFiniteSet(below(r.seq)) /\ Cardinality(below(r.seq)) <= Cardinality(below(m))
    BY <2>3, <2>5, FS_Subset, Zenon
  <2>7. Cardinality(below(m)) \in Nat /\ Cardinality(below(r.seq)) \in Nat
    BY <2>5, <2>6, FS_CardinalityType, Zenon
  <2>8. Cardinality(below(r.seq)) < BatchSize BY <2>4, <2>6, <2>7
  <2> QED BY <2>8, Zenon DEF FirstOf, below
<1> QED BY <1>7, <1>8, Zenon DEF m

(* The least record of a batch.                                            *)
LEMMA NextIsIn ==
    ASSUME NEW batch, batch # {}, \A r \in batch : r.seq \in Nat
    PROVE  NextIn(batch) \in batch
<1> DEFINE T == {r.seq : r \in batch}
<1>1. T \in SUBSET Nat /\ T # {} BY Zenon
<1>2. PICK x \in T : \A y \in T : x <= y BY <1>1, LeastNumber, Zenon
<1>3. \E r \in batch : \A q \in batch : r.seq <= q.seq BY <1>2, Zenon
<1> QED BY <1>3, Zenon DEF NextIn

LEMMA ImportingFits ==
    ASSUME NEW c, call'[c].at \in Importing, call'[c].at = "import" <=> call'[c].batch # {},
           call'[c].merge, call'[c].space = Remote, call'[c].grant \in Grants(Remote),
           call'[c].session \in Sessions, Merges(call[c])'
    PROVE  Fits(call[c])' /\ Claims(c)
<1>1. /\ call'[c].at \notin Local \cup Writing \cup Pulling
      /\ call'[c].at \in Granted \cap Joining \cap Merging
  BY Zenon DEF Local, Writing, Creating, Deleting, Joining, Merging, Importing, Pulling, Granted
<1>2. call'[c].at \notin Creating \cup Deleting BY Zenon DEF Creating, Deleting, Importing
<1>3. call'[c].at \notin {"post", "remove", "drop"} BY Zenon DEF Importing
<1>4. Fits(call[c])' BY <1>1, <1>2, <1>3, Zenon DEF Fits, AllSpaces
<1> QED BY <1>2, <1>4, Zenon DEF Claims


LEMMA HeadsTyped ==
    ASSUME WorkspacesInv, NEW s \in AllSpaces
    PROVE  /\ LiveHeads(s) \in SUBSET RecordType
           /\ \A r \in LiveHeads(s) : r.seq \in Nat \ {0} /\ r.seq <= sequence
           /\ sequence \in Nat /\ IsFiniteSet(LiveHeads(s))
<1>1. LiveHeads(s) \subseteq recs[s] BY HeadsAreRecords, Zenon
<1>2. IsFiniteSet(recs[s]) /\ sequence \in Nat BY InvParts, Zenon DEF RecordsFit
<1>3. IsFiniteSet(LiveHeads(s)) BY <1>1, <1>2, FS_Subset, Zenon
<1> QED BY <1>1, <1>2, <1>3, RecordsTyped, Zenon

LEMMA SourceKeeps ==
    ASSUME WorkspacesInv, NEW c \in Callers, Source(c)
    PROVE  WorkspacesInv'
<1> DEFINE heads == LiveHeads(author.space)
           u == [call[c] EXCEPT !.at = "batch", !.after = 0, !.source = author.space,
                                !.wanted = heads]
           v == [call[c] EXCEPT !.at = "publish", !.after = 0, !.merge = FALSE]
<1>1. /\ Up /\ call[c].at = "source" /\ Only
      /\ \/ End(c)
         \/ author # None /\ author.space # Remote /\ call[c].merge /\ Become(c, u)
         \/ Become(c, v)
  BY Zenon DEF Source, In, Only
<1>2. call[c].at \in Joining /\ call[c].at # "import" BY <1>1, Zenon DEF Joining
<1>3. /\ call[c].space = Remote /\ call[c].grant \in Grants(Remote)
      /\ call[c].session \in Sessions /\ call[c].batch = {} /\ call[c] \in CallType
  BY <1>2, JoiningHolds, NoBatch, TypeOfCall, Zenon
<1>4. ASSUME author # None, author.space # Remote, call[c].merge, Become(c, u)
      PROVE  Proceeds(c)
  <2>1. author.space \in AllSpaces /\ author.space \in Spaces
    BY <1>4, AuthorTyped, Zenon DEF AllSpaces
  <2>2. /\ heads \in SUBSET RecordType /\ sequence \in Nat
        /\ \A r \in heads : r.seq \in Nat \ {0} /\ r.seq <= sequence
    BY <2>1, HeadsTyped, Zenon
  <2> HIDE DEF heads
  <2>3. u \in CallType
    BY <1>3, <2>1, <2>2, Zenon DEF CallType, Labels
  <2>4. /\ u.at = "batch" /\ u.after = 0 /\ u.source = author.space /\ u.wanted = heads
        /\ u.space = call[c].space /\ u.grant = call[c].grant /\ u.session = call[c].session
        /\ u.merge = call[c].merge /\ u.batch = call[c].batch
    BY <1>3, Zenon DEF CallType
  <2>5. u.at \in Importing /\ u.at # "import" BY <2>4, Zenon DEF Importing
  <2> HIDE DEF u
  <2>6. Moves(c) /\ call'[c] = u BY <1>4, <2>3, BecomeMoves, Zenon
  <2>7. /\ call'[c].at \in Importing /\ (call'[c].at = "import" <=> call'[c].batch # {})
        /\ call'[c].merge /\ call'[c].space = Remote /\ call'[c].grant \in Grants(Remote)
        /\ call'[c].session \in Sessions
    BY <1>3, <1>4, <2>4, <2>5, <2>6, Zenon
  <2>8. /\ call'[c].source \in Spaces /\ call'[c].wanted = heads /\ sequence' = sequence
        /\ call'[c].after = 0
    BY <1>1, <2>1, <2>4, <2>6, Zenon DEF Only
  <2>9. \A r \in call'[c].wanted : r.seq <= sequence' /\ r.seq > call'[c].after
    BY <2>2, <2>8
  <2>10. Merges(call[c])' BY <2>7, <2>8, <2>9, Zenon DEF Merges
  <2>11. Fits(call[c])' /\ Claims(c) BY <2>7, <2>10, ImportingFits, Zenon
  <2> QED BY <2>6, <2>11, Zenon DEF Proceeds
<1>5. ASSUME Become(c, v) PROVE Proceeds(c)
  <2>1. /\ v \in CallType /\ v.at = "publish" /\ ~v.merge /\ v.space = call[c].space
        /\ v.grant = call[c].grant /\ v.session = call[c].session /\ v.batch = call[c].batch
    BY <1>3, Zenon DEF CallType, Labels
  <2>2. v.at \in Joining \ Importing /\ v.at \notin Pulling
    BY <2>1, Zenon DEF Joining, Merging, Importing, Pulling
  <2> HIDE DEF v
  <2>3. Moves(c) /\ call'[c] = v BY <1>5, <2>1, BecomeMoves, Zenon
  <2>4. /\ call'[c].at \in Joining \ Importing /\ call'[c].batch = {} /\ call'[c].space = Remote
        /\ call'[c].grant \in Grants(Remote) /\ call'[c].session \in Sessions
        /\ call'[c].at \notin Pulling /\ ~call'[c].merge
    BY <1>3, <2>1, <2>2, <2>3, Zenon
  <2>5. Fits(call[c])' /\ Claims(c) BY <2>4, JoiningFits, Zenon
  <2> QED BY <2>3, <2>5, Zenon DEF Proceeds
<1>6. Proceeds(c) BY <1>1, <1>4, <1>5, EndProceeds, Zenon
<1> QED BY <1>1, <1>6, OnlyStep, Zenon

LEMMA ReadBatchKeeps ==
    ASSUME WorkspacesInv, NEW c \in Callers, ReadBatch(c)
    PROVE  WorkspacesInv'
<1> DEFINE s == call[c].source
           due == {r \in LiveHeads(s) : r.seq > call[c].after}
           first == FirstOf(due)
           u == [call[c] EXCEPT !.at = "publish"]
           v == [call[c] EXCEPT !.at = "import", !.batch = first, !.after = LastSeq(first)]
<1>1. /\ Up /\ call[c].at = "batch" /\ Only
      /\ (first = {} /\ ToCall(c, "publish")) \/ (first # {} /\ Become(c, v))
  <2>1. Up /\ call[c].at = "batch" /\ Only /\ Become(c, IF first = {} THEN u ELSE v)
    BY Zenon DEF ReadBatch, ImportBatch, In, Only
  <2> HIDE DEF first, u, v
  <2>2. CASE first = {}
    <3>1. (IF first = {} THEN u ELSE v) = u BY <2>2, Zenon
    <3>2. Become(c, u) BY <2>1, <3>1, Zenon
    <3>3. ToCall(c, "publish") BY <3>2, Zenon DEF ToCall, u
    <3> QED BY <2>1, <2>2, <3>3, Zenon
  <2>3. CASE first # {}
    <3>1. (IF first = {} THEN u ELSE v) = v BY <2>3, Zenon
    <3> QED BY <2>1, <2>3, <3>1, Zenon
  <2> QED BY <2>2, <2>3, Zenon
<1>2. /\ call[c].at \in Joining /\ call[c].at \in Merging /\ call[c].at \in Importing
      /\ call[c].at # "import"
  BY <1>1, Zenon DEF Joining, Merging, Importing
<1>3. /\ call[c].space = Remote /\ call[c].grant \in Grants(Remote)
      /\ call[c].session \in Sessions /\ call[c].batch = {} /\ call[c] \in CallType
      /\ call[c].merge /\ Merges(call[c])
  BY <1>2, JoiningHolds, NoBatch, TypeOfCall, Zenon DEF Fits
<1>4. s \in Spaces /\ s \in AllSpaces BY <1>3, Zenon DEF Merges, AllSpaces
<1>5. /\ LiveHeads(s) \in SUBSET RecordType /\ IsFiniteSet(LiveHeads(s)) /\ sequence \in Nat
      /\ \A r \in LiveHeads(s) : r.seq \in Nat \ {0} /\ r.seq <= sequence
  BY <1>4, HeadsTyped, Zenon
<1>6. due \in SUBSET LiveHeads(s) BY Zenon
<1>7. IsFiniteSet(due) /\ \A r \in due : r.seq \in Nat /\ r.seq <= sequence
  BY <1>5, <1>6, FS_Subset, Zenon
<1>8. first \in SUBSET RecordType BY <1>5, <1>6, Zenon DEF FirstOf
<1>9. \A r \in call[c].wanted \cap LiveHeads(s) : Joined(r) \/ r \in due
  BY <1>3, Zenon DEF Merges
<1>10. Grown /\ sequence' \in Nat BY <1>1, StillGrown, Zenon DEF Only
<1>11. ASSUME first = {}, ToCall(c, "publish") PROVE Proceeds(c)
  <2>1. due = {} BY <1>7, <1>11, FirstsExist, Zenon
  <2>2. \A r \in call[c].wanted \cap LiveHeads(s) : Joined(r)'
    BY <1>9, <1>10, <2>1, JoinedStays, Zenon
  <2>3. /\ "publish" \in Labels /\ "publish" \in Joining \ Importing /\ "publish" \notin Pulling
    BY Zenon DEF Labels, Joining, Merging, Importing, Pulling
  <2>4. call'[c].source = call[c].source /\ call'[c].wanted = call[c].wanted
    BY <1>11, <2>3, ToCallMoves, Zenon
  <2>5. Merges(call[c])' BY <1>3, <1>10, <2>2, <2>4, MergesOn, Zenon
  <2> QED BY <1>2, <1>11, <2>3, <2>5, JoiningNext, Zenon
<1>12. ASSUME first # {}, Become(c, v) PROVE Proceeds(c)
  <2>1. LastSeq(first) \in Nat /\ \A r \in due : r.seq > LastSeq(first) \/ r \in first
    BY <1>5, <1>7, <1>12, LastOfFirsts, Zenon
  <2> HIDE DEF first
  <2>2. v \in CallType BY <1>3, <1>8, <2>1, Zenon DEF CallType, Labels
  <2>3. /\ v.at = "import" /\ v.batch = first /\ v.after = LastSeq(first)
        /\ v.source = call[c].source /\ v.wanted = call[c].wanted /\ v.merge = call[c].merge
        /\ v.space = call[c].space /\ v.grant = call[c].grant /\ v.session = call[c].session
    BY <1>3, Zenon DEF CallType
  <2>4. v.at \in Importing BY <2>3, Zenon DEF Importing
  <2> HIDE DEF v
  <2>5. Moves(c) /\ call'[c] = v BY <1>12, <2>2, BecomeMoves, Zenon
  <2>6. /\ call'[c].at \in Importing /\ (call'[c].at = "import" <=> call'[c].batch # {})
        /\ call'[c].merge /\ call'[c].space = Remote /\ call'[c].grant \in Grants(Remote)
        /\ call'[c].session \in Sessions
    BY <1>3, <1>12, <2>3, <2>4, <2>5, Zenon
  <2>7. /\ call'[c].source = call[c].source /\ call'[c].wanted = call[c].wanted
        /\ call'[c].batch = first /\ call'[c].after = LastSeq(first)
    BY <2>3, <2>5, Zenon
  <2> HIDE DEF due
  <2>8. \A r \in call[c].wanted \cap LiveHeads(s) :
           \/ Joined(r)'
           \/ call'[c].at \in Importing /\ (r.seq > call'[c].after \/ r \in call'[c].batch)
    BY <1>9, <1>10, <2>1, <2>6, <2>7, JoinedStays, Zenon
  <2>9. Merges(call[c])' BY <1>3, <1>10, <2>7, <2>8, MergesOn, Zenon
  <2>10. Fits(call[c])' /\ Claims(c) BY <2>6, <2>9, ImportingFits, Zenon
  <2> QED BY <2>5, <2>10, Zenon DEF Proceeds
<1>13. Proceeds(c) BY <1>1, <1>11, <1>12, Zenon
<1> QED BY <1>1, <1>13, OnlyStep, Zenon


-------------------------------------------------------------------------------
(* Records are committed.                                                  *)

LEMMA CommitKeeps ==
    ASSUME WorkspacesInv, NEW s \in AllSpaces, NEW e \in Entities, NEW g \in Grants(s),
           NEW p \in SUBSET Nat, NEW y \in Nat, NEW live \in BOOLEAN,
           CanCommit(s, e, g, p), Commit(s, e, g, p, y, live), ops' = ops
    PROVE  /\ RecordsFit' /\ Grown /\ sequence' \in Nat
           /\ \E r \in recs'[s] : r.entity = e /\ r.pay = y
<1> DEFINE new == [entity |-> e, pay |-> y, seq |-> sequence + 1, parents |-> p, live |-> live,
                   grant |-> g]
<1>1. /\ sequence \in Nat /\ recs \in [AllSpaces -> SUBSET RecordType]
      /\ \A t \in AllSpaces : IsFiniteSet(recs[t])
      /\ \A t \in AllSpaces : \A r \in recs[t] :
            r.seq <= sequence /\ r.grant \in Grants(t) /\ r.grant \in ops
  BY InvParts, Zenon DEF RecordsFit
<1>2. g \in ControlOps /\ g \in ops BY GrantsAreOps, Zenon DEF CanCommit, References
<1>3. /\ new \in RecordType /\ new.seq = sequence + 1 /\ new.grant = g /\ new.entity = e
      /\ new.pay = y
  BY <1>1, <1>2 DEF RecordType
<1>4. sequence' = sequence + 1 /\ recs' = [recs EXCEPT ![s] = @ \cup {new}]
  BY Zenon DEF Commit
<1> HIDE DEF new
<1>5. /\ recs' \in [AllSpaces -> SUBSET RecordType] /\ recs'[s] = recs[s] \cup {new}
      /\ \A t \in AllSpaces \ {s} : recs'[t] = recs[t]
  BY <1>1, <1>3, <1>4, Zenon
<1>6. sequence' \in Nat /\ sequence <= sequence' BY <1>1, <1>4
<1>7. \A t \in AllSpaces : \A r \in recs[t] : r.seq <= sequence'
  <2> TAKE t \in AllSpaces
  <2> TAKE r \in recs[t]
  <2>1. r.seq \in Nat /\ r.seq <= sequence BY RecordsTyped, Zenon
  <2> QED BY <1>1, <1>6, <2>1
<1>8. new.seq <= sequence' /\ new.seq > sequence BY <1>1, <1>3, <1>4
<1>9. IsFiniteSet(recs'[s])
  <2>1. IsFiniteSet(recs[s] \cup {new}) BY <1>1, FS_AddElement, Zenon
  <2> QED BY <1>5, <2>1, Zenon
<1>10. \A t \in AllSpaces : IsFiniteSet(recs'[t]) BY <1>1, <1>5, <1>9, Zenon
<1>11. \A t \in AllSpaces : \A r \in recs'[t] :
          r.seq <= sequence' /\ r.grant \in Grants(t) /\ r.grant \in ops
  BY <1>1, <1>2, <1>3, <1>5, <1>7, <1>8, Zenon
<1>12. RecordsFit'
  BY <1>5, <1>6, <1>10, <1>11, Zenon DEF RecordsFit, Grants, Owner, Paired, AllSpaces
<1>13. \A t \in AllSpaces : /\ recs[t] \subseteq recs'[t]
                            /\ \A r \in recs'[t] : r \in recs[t] \/ r.seq > sequence
  BY <1>5, <1>8, Zenon
<1>14. Grown BY <1>6, <1>13, Zenon DEF Grown, AllSpaces
<1> QED BY <1>3, <1>5, <1>6, <1>12, <1>14, Zenon

(* A call that commits, or not, and keeps the rest.                        *)
LEMMA CommitStep ==
    ASSUME WorkspacesInv, NEW c \in Callers, Up, Proceeds(c), RecordsFit', Grown, sequence' \in Nat,
           UNCHANGED <<frame, nodes, rows, ops, active, served, peer, link, author, pending, page,
                       minted, dropped>>
    PROVE  WorkspacesInv'
<1>1. Rest' BY RestStays, Zenon DEF frame, nodes
<1>2. Selection' BY SelectionStays, Zenon
<1>3. Ledger' BY LedgerKept, Zenon DEF frame, nodes
<1>4. Starting' BY StartingKept, Zenon DEF frame
<1>5. Gentle(c) BY Zenon DEF Gentle, frame, nodes, RemoteLog
<1>6. CallsFit' BY <1>5, CallsKept, Zenon DEF Proceeds
<1> QED BY <1>1, <1>2, <1>3, <1>4, <1>6, Zenon DEF WorkspacesInv

LEMMA CommitRecordKeeps ==
    ASSUME WorkspacesInv, NEW c \in Callers, CommitRecord(c)
    PROVE  WorkspacesInv'
<1> DEFINE w == call[c]
<1>1. /\ Up /\ w.at = "commit" /\ End(c)
      /\ UNCHANGED <<frame, nodes, rows, ops, active, served, peer, link, author, pending, page,
                     minted, dropped>>
      /\ \/ /\ CanCommit(w.space, w.entity, w.grant, w.parents)
            /\ Commit(w.space, w.entity, w.grant, w.parents, sequence + 1, w.live)
         \/ UNCHANGED <<recs, sequence>>
  BY Zenon DEF CommitRecord, In
<1>2. w.at \in Granted \cap Writing BY <1>1, Zenon DEF Granted, Writing
<1>3. w.space \in AllSpaces /\ w.grant \in Grants(w.space) /\ w.entity \in Entities
  BY <1>2, HeldGrant, TypeOfCall, Zenon DEF Fits
<1>4. w.parents \in SUBSET Nat /\ w.live \in BOOLEAN BY TypeOfCall, Zenon DEF CallType
<1>5. sequence + 1 \in Nat
  <2>1. sequence \in Nat BY InvParts, Zenon DEF RecordsFit
  <2> QED BY <2>1
<1> HIDE DEF w
<1>6. RecordsFit' /\ Grown /\ sequence' \in Nat
  <2>1. CASE UNCHANGED <<recs, sequence>>
    <3>1. ops' = ops BY <1>1, Zenon
    <3> QED BY <2>1, <3>1, RecordsKept, StillGrown, Zenon
  <2>2. CASE /\ CanCommit(w.space, w.entity, w.grant, w.parents)
             /\ Commit(w.space, w.entity, w.grant, w.parents, sequence + 1, w.live)
    <3>1. ops' = ops BY <1>1, Zenon
    <3> QED BY <1>3, <1>4, <1>5, <2>2, <3>1, CommitKeeps, SMTT(20)
  <2> QED BY <1>1, <2>1, <2>2, Zenon
<1> QED BY <1>1, <1>6, EndProceeds, CommitStep, Zenon


(* The merge goes on when r is in the joined workspace.                    *)
LEMMA ImportProceeds ==
    ASSUME WorkspacesInv, NEW c \in Callers, call[c].at = "import", Grown, sequence' \in Nat,
           NEW r, Joined(r)', NEW rest, rest = call[c].batch \ {r},
           Become(c, [call[c] EXCEPT !.batch = rest,
                                     !.at = IF rest = {} THEN "batch" ELSE "import"])
    PROVE  Proceeds(c)
<1> DEFINE l == IF rest = {} THEN "batch" ELSE "import"
           w == [call[c] EXCEPT !.batch = rest, !.at = l]
<1>1. Become(c, w) BY Zenon
<1>2. /\ call[c].at \in Joining /\ call[c].at \in Merging /\ call[c].at \in Importing
  BY Zenon DEF Joining, Merging, Importing
<1>3. /\ call[c].space = Remote /\ call[c].grant \in Grants(Remote)
      /\ call[c].session \in Sessions /\ call[c] \in CallType
      /\ call[c].merge /\ Merges(call[c])
  BY <1>2, JoiningHolds, TypeOfCall, Zenon DEF Fits
<1>4. l \in Labels /\ l \in Importing /\ (l = "import" <=> rest # {}) BY Zenon DEF Labels, Importing
<1> HIDE DEF l
<1>5. rest \in SUBSET RecordType BY <1>3, Zenon DEF CallType
<1>6. w \in CallType BY <1>3, <1>4, <1>5, Zenon DEF CallType
<1>7. /\ w.at = l /\ w.batch = rest /\ w.after = call[c].after
      /\ w.source = call[c].source /\ w.wanted = call[c].wanted /\ w.merge = call[c].merge
      /\ w.space = call[c].space /\ w.grant = call[c].grant /\ w.session = call[c].session
  BY <1>3, Zenon DEF CallType
<1> HIDE DEF w
<1>8. Moves(c) /\ call'[c] = w BY <1>1, <1>6, BecomeMoves, Zenon
<1>9. /\ call'[c].at \in Importing /\ (call'[c].at = "import" <=> call'[c].batch # {})
      /\ call'[c].merge /\ call'[c].space = Remote /\ call'[c].grant \in Grants(Remote)
      /\ call'[c].session \in Sessions
  BY <1>3, <1>4, <1>7, <1>8, Zenon
<1>10. /\ call'[c].source = call[c].source /\ call'[c].wanted = call[c].wanted
       /\ call'[c].batch = call[c].batch \ {r} /\ call'[c].after = call[c].after
  BY <1>7, <1>8, Zenon
<1>11. ASSUME NEW x \in call[c].wanted \cap LiveHeads(call[c].source)
       PROVE  \/ Joined(x)'
              \/ call'[c].at \in Importing /\ (x.seq > call'[c].after \/ x \in call'[c].batch)
  <2>1. Joined(x) \/ x.seq > call[c].after \/ x \in call[c].batch BY <1>3, Zenon DEF Merges
  <2>2. x = r => Joined(x)' BY Zenon
  <2>3. Joined(x) => Joined(x)' BY JoinedStays, Zenon
  <2> QED BY <1>9, <1>10, <2>1, <2>2, <2>3, Zenon
<1>12. Merges(call[c])' BY <1>3, <1>10, <1>11, MergesOn, Zenon
<1>13. Fits(call[c])' /\ Claims(c) BY <1>9, <1>12, ImportingFits, Zenon
<1> QED BY <1>8, <1>13, Zenon DEF Proceeds

LEMMA ImportKeeps ==
    ASSUME WorkspacesInv, NEW c \in Callers, Import(c)
    PROVE  WorkspacesInv'
<1>1. /\ Up /\ call[c].at = "import"
      /\ UNCHANGED <<frame, nodes, rows, ops, active, served, peer, link, author,
                     pending, page, minted, dropped>>
  BY Zenon DEF Import, In
<1>2. call[c].at \in Joining BY <1>1, Zenon DEF Joining, Merging, Importing
<1>3. /\ call[c] \in CallType /\ call[c].batch # {} /\ call[c].grant \in Grants(Remote)
  BY <1>1, <1>2, JoiningHolds, TypeOfCall, Zenon DEF Fits
<1>4. \A x \in call[c].batch : x \in RecordType /\ x.seq \in Nat
  BY <1>3, Zenon DEF CallType, RecordType
<1>5. NextIn(call[c].batch) \in call[c].batch BY <1>3, <1>4, NextIsIn, Zenon
<1>6. PICK r \in RecordType : r = NextIn(call[c].batch) BY <1>4, <1>5, Zenon
<1>7. PICK rest : rest = call[c].batch \ {r} BY Zenon
<1>8. r.entity \in Entities /\ r.pay \in Nat BY Zenon DEF RecordType
<1> DEFINE have == HeadsOf(Remote, r.entity)
           on == Become(c, [call[c] EXCEPT !.batch = rest,
                                           !.at = IF rest = {} THEN "batch" ELSE "import"])
<1>9. \/ (\E h \in have : h.pay = r.pay) /\ on /\ UNCHANGED <<recs, sequence>>
      \/ End(c) /\ UNCHANGED <<recs, sequence>>
      \/ /\ CanCommit(Remote, r.entity, call[c].grant, {})
         /\ Commit(Remote, r.entity, call[c].grant, {}, r.pay, TRUE) /\ on
  BY <1>6, <1>7, Zenon DEF Import
<1>10. UNCHANGED <<recs, sequence>> => RecordsFit' /\ Grown /\ sequence' \in Nat
  BY <1>1, RecordsKept, StillGrown, Zenon
<1>11. CASE (\E h \in have : h.pay = r.pay) /\ on /\ UNCHANGED <<recs, sequence>>
  <2>1. Joined(r) BY <1>11, Zenon DEF Joined, HeadsOf
  <2>2. Joined(r)' BY <1>10, <1>11, <2>1, JoinedStays, Zenon
  <2>3. Proceeds(c) BY <1>1, <1>7, <1>10, <1>11, <2>2, ImportProceeds, Zenon
  <2> QED BY <1>1, <1>10, <1>11, <2>3, CommitStep, Zenon
<1>12. CASE End(c) /\ UNCHANGED <<recs, sequence>>
  BY <1>1, <1>10, <1>12, EndProceeds, CommitStep, Zenon
<1>13. CASE /\ CanCommit(Remote, r.entity, call[c].grant, {})
            /\ Commit(Remote, r.entity, call[c].grant, {}, r.pay, TRUE) /\ on
  <2>1. Remote \in AllSpaces /\ {} \in SUBSET Nat /\ ops' = ops BY <1>1, Zenon DEF AllSpaces
  <2>2. /\ RecordsFit' /\ Grown /\ sequence' \in Nat
        /\ \E q \in recs'[Remote] : q.entity = r.entity /\ q.pay = r.pay
    <3>1. PICK g \in Grants(Remote) : g = call[c].grant BY <1>3, Zenon
    <3>2. PICK live \in BOOLEAN : live = TRUE BY Zenon
    <3>3. /\ CanCommit(Remote, r.entity, g, {})
          /\ Commit(Remote, r.entity, g, {}, r.pay, live)
      BY <1>13, <3>1, <3>2, Zenon
    <3> QED BY <1>8, <2>1, <3>3, CommitKeeps
  <2>3. Joined(r)' BY <2>2, Zenon DEF Joined, RecordsOf
  <2>4. Proceeds(c) BY <1>1, <1>7, <1>13, <2>2, <2>3, ImportProceeds, Zenon
  <2> QED BY <1>1, <2>2, <2>4, CommitStep, Zenon
<1> QED BY <1>9, <1>11, <1>12, <1>13, Zenon

LEMMA PullKeeps ==
    ASSUME WorkspacesInv, NEW c \in Callers, Pull(c)
    PROVE  WorkspacesInv'
<1> DEFINE n == call[c].after + 1
           w == [call[c] EXCEPT !.after = n]
<1>1. /\ Up /\ call[c].at = "pull"
      /\ UNCHANGED <<frame, nodes, rows, recs, sequence, active, served, peer, link,
                     author, pending, page, minted, dropped>>
      /\ ops' = ops \/ ops' = ops \cup {RemoteLog[n]}
      /\ End(c) \/ ToCall(c, "source") \/ (n < Len(RemoteLog) /\ Become(c, w))
  BY Zenon DEF Pull, In
<1>2. /\ call[c].at \in Pulling /\ call[c].at \in Joining /\ call[c].at # "import"
      /\ "source" \in Labels /\ "source" \in Joining \ Importing /\ "source" \notin Pulling
      /\ "source" \notin Merging
  BY <1>1, Zenon DEF Pulling, Joining, Labels, Importing, Merging
<1>3. n \in DOMAIN RemoteLog BY <1>2, TypeOfCall, Zenon DEF Fits
<1>4. /\ RemoteLog \in Seq(ControlOps) /\ DOMAIN RemoteLog = 1..Len(RemoteLog)
      /\ Len(RemoteLog) \in Nat
  BY LogTyped, Zenon
<1>5. RemoteLog[n] \in ControlOps BY <1>3, <1>4
<1>6. RemoteLog' = RemoteLog BY <1>1, Zenon DEF nodes, RemoteLog
<1>7. /\ call[c].space = Remote /\ call[c].grant \in Grants(Remote)
      /\ call[c].session \in Sessions /\ call[c].batch = {} /\ call[c] \in CallType
  BY <1>2, JoiningHolds, NoBatch, TypeOfCall, Zenon
<1>8. ASSUME n < Len(RemoteLog), Become(c, w) PROVE Proceeds(c)
  <2>1. n \in Nat /\ n + 1 \in DOMAIN RemoteLog BY <1>3, <1>4, <1>8
  <2>2. /\ w \in CallType /\ w.at = call[c].at /\ w.after = n /\ w.space = call[c].space
        /\ w.grant = call[c].grant /\ w.session = call[c].session /\ w.batch = call[c].batch
    BY <1>7, <2>1, Zenon DEF CallType
  <2>3. w.at \in Joining \ Importing /\ w.at \notin Merging
    BY <1>1, <2>2, Zenon DEF Joining, Merging, Importing, Pulling
  <2> HIDE DEF n, w
  <2>4. Moves(c) /\ call'[c] = w BY <1>8, <2>2, BecomeMoves, Zenon
  <2>5. call'[c].after + 1 \in DOMAIN RemoteLog' BY <1>6, <2>1, <2>2, <2>4, Zenon
  <2>6. /\ call'[c].at \in Joining \ Importing /\ call'[c].batch = {} /\ call'[c].space = Remote
        /\ call'[c].grant \in Grants(Remote) /\ call'[c].session \in Sessions
        /\ call'[c].at \notin Merging
    BY <1>7, <2>2, <2>3, <2>4, Zenon
  <2>7. Fits(call[c])' /\ Claims(c) BY <2>5, <2>6, JoiningFits, Zenon
  <2> QED BY <2>4, <2>7, Zenon DEF Proceeds
<1> HIDE DEF n, w
<1>9. Proceeds(c) BY <1>1, <1>2, <1>8, EndProceeds, JoiningNext, Zenon
<1>10. ops \subseteq ops' /\ ops' \subseteq ControlOps
  <2>1. ops \subseteq ControlOps BY InvParts, Zenon DEF Rest
  <2> QED BY <1>1, <1>5, <2>1, Zenon
<1>11. Rest' BY <1>1, <1>10, InvParts, Zenon DEF Rest, frame, nodes
<1>12. Selection' BY <1>1, SelectionStays, Zenon
<1>13. Ledger' BY <1>1, LedgerKept, Zenon DEF frame, nodes
<1>14. RecordsFit' BY <1>1, <1>10, RecordsKept, Zenon
<1>15. Starting' BY <1>1, StartingKept, Zenon DEF frame
<1>16. Gentle(c) BY <1>1, <1>6, Zenon DEF Gentle, frame, nodes
<1>17. Grown /\ sequence' \in Nat BY <1>1, StillGrown, Zenon
<1>18. CallsFit' BY <1>9, <1>16, <1>17, CallsKept, Zenon DEF Proceeds
<1> QED BY <1>11, <1>12, <1>13, <1>14, <1>15, <1>18, Zenon DEF WorkspacesInv


-------------------------------------------------------------------------------
(* Spaces come and go.                                                     *)

(* A step that changes only spaces and their rows, besides its own call.   *)
LEMMA SpaceStep ==
    ASSUME WorkspacesInv, NEW c \in Callers, Up, Proceeds(c), Ledger', Gentle(c),
           UNCHANGED <<frame, admitted, ops, recs, sequence, active, served, peer, link, author,
                       pending, page>>
    PROVE  WorkspacesInv'
<1>1. Rest' BY RestStays, Zenon DEF frame
<1>2. Selection' BY SelectionStays, Zenon
<1>3. RecordsFit' BY RecordsKept, Zenon
<1>4. Starting' BY StartingKept, Zenon DEF frame
<1>5. Grown /\ sequence' \in Nat BY StillGrown, Zenon
<1>6. CallsFit' BY <1>5, CallsKept, Zenon DEF Proceeds
<1> QED BY <1>1, <1>2, <1>3, <1>4, <1>6, Zenon DEF WorkspacesInv

LEMMA PostKeeps ==
    ASSUME WorkspacesInv, NEW c \in Callers, Post(c)
    PROVE  WorkspacesInv'
<1> DEFINE s == call[c].space
<1>1. /\ Up /\ call[c].at = "post"
      /\ UNCHANGED <<frame, session, admitted, rows, ops, recs, sequence, active,
                     served, peer, link, author, pending, page, minted, dropped>>
      /\ hosted' = hosted \/ hosted' = hosted \cup {s}
      /\ End(c) \/ ToCall(c, "store")
  BY Zenon DEF Post, In, Host
<1>2. /\ call[c].at \in Creating /\ call[c].at \in Local /\ call[c].at \in Granted
      /\ call[c].at # "import"
  BY <1>1, Zenon DEF Creating, Local, Granted
<1>3. /\ s \in Spaces /\ s \in minted \ (rows \cup dropped) /\ supervised
      /\ call[c].grant \in Grants(s) /\ call[c].batch = {}
  BY <1>1, <1>2, TypeOfCall, NoBatch, Zenon DEF Fits
<1>4. ASSUME ToCall(c, "store") PROVE Proceeds(c)
  <2>1. "store" \in Labels /\ "store" \in Creating /\ "store" \notin Deleting /\ "store" # "post"
    BY Zenon DEF Labels, Creating, Deleting
  <2>2. /\ Moves(c) /\ call'[c].at = "store" /\ call'[c].space = s
        /\ call'[c].grant = call[c].grant /\ call'[c].batch = call[c].batch
    BY <1>4, <2>1, ToCallMoves, Zenon
  <2>3. /\ call'[c].at \in Creating /\ call'[c].batch = {} /\ call'[c].at # "post"
        /\ call'[c].space \in Spaces /\ call'[c].grant \in Grants(call'[c].space)
        /\ call'[c].space \in minted' \ (rows' \cup dropped')
    BY <1>1, <1>3, <2>1, <2>2, Zenon
  <2>4. Fits(call[c])' BY <2>3, CreatingFits, Zenon
  <2>5. Claims(c) BY <1>2, <2>1, <2>2, Zenon DEF Claims
  <2> QED BY <2>2, <2>4, <2>5, Zenon DEF Proceeds
<1>5. Proceeds(c) BY <1>1, <1>4, EndProceeds, Zenon
<1>6. Ledger
  BY InvParts, Zenon
<1>7. supervised' = supervised BY <1>1, Zenon DEF frame
<1>8. Ledger' BY <1>1, <1>3, <1>6, <1>7, Zenon DEF Ledger
<1>9. Gentle(c) BY <1>1, <1>2, <1>7, Zenon DEF Gentle, RemoteLog
<1> QED BY <1>1, <1>5, <1>8, <1>9, SpaceStep, Zenon

LEMMA RemoveKeeps ==
    ASSUME WorkspacesInv, NEW c \in Callers, RemoveHosted(c)
    PROVE  WorkspacesInv'
<1> DEFINE s == call[c].space
<1>1. /\ Up /\ call[c].at = "remove"
      /\ UNCHANGED <<frame, session, admitted, rows, ops, recs, sequence, active,
                     served, peer, link, author, pending, page, minted, dropped>>
      /\ hosted' = hosted \/ hosted' = hosted \ {s}
      /\ End(c) \/ (ToCall(c, "drop") /\ hosted' = hosted \ {s})
  BY Zenon DEF RemoveHosted, In, Unhost
<1>2. call[c].at \in Deleting /\ call[c].at \in Local /\ call[c].at # "import"
  BY <1>1, Zenon DEF Deleting, Local
<1>3. s \in Spaces /\ s \in minted /\ call[c].batch = {}
  BY <1>2, TypeOfCall, NoBatch, Zenon DEF Fits
<1>4. ASSUME ToCall(c, "drop"), hosted' = hosted \ {s} PROVE Proceeds(c)
  <2>1. "drop" \in Labels /\ "drop" \in Deleting /\ "drop" \notin Creating /\ "drop" # "remove"
    BY Zenon DEF Labels, Creating, Deleting
  <2>2. Moves(c) /\ call'[c].at = "drop" /\ call'[c].space = s /\ call'[c].batch = call[c].batch
    BY <1>4, <2>1, ToCallMoves, Zenon
  <2>3. /\ call'[c].at \in Deleting /\ call'[c].batch = {} /\ call'[c].at # "remove"
        /\ call'[c].space \in Spaces /\ call'[c].space \in minted' /\ call'[c].space \notin hosted'
    BY <1>1, <1>3, <1>4, <2>1, <2>2, Zenon
  <2>4. Fits(call[c])' BY <2>3, DeletingFits, Zenon
  <2>5. Claims(c) BY <1>2, <2>1, <2>2, Zenon DEF Claims
  <2> QED BY <2>2, <2>4, <2>5, Zenon DEF Proceeds
<1>5. Proceeds(c) BY <1>1, <1>4, EndProceeds, Zenon
<1>6. Ledger BY InvParts, Zenon
<1>7. supervised' = supervised BY <1>1, Zenon DEF frame
<1>8. Ledger' BY <1>1, <1>6, <1>7, Zenon DEF Ledger
<1>9. Gentle(c) BY <1>1, <1>2, <1>7, Zenon DEF Gentle, RemoteLog
<1> QED BY <1>1, <1>5, <1>8, <1>9, SpaceStep, Zenon

LEMMA StoreKeeps ==
    ASSUME WorkspacesInv, NEW c \in Callers, StoreCreated(c)
    PROVE  WorkspacesInv'
<1> DEFINE s == call[c].space
<1>1. /\ Up /\ call[c].at = "store"
      /\ UNCHANGED <<frame, nodes, recs, sequence, active, served, peer, link,
                     author, pending, page, minted, dropped>>
      /\ rows' = rows \cup {s} /\ ops' = ops \cup {Genesis(s), Owner(s)}
      /\ ToCall(c, "serve") \/ ToCall(c, "select")
  BY Zenon DEF StoreCreated, In, StoreWorkspace
<1>2. /\ call[c].at \in Creating /\ call[c].at \in Local /\ call[c].at \in Granted
      /\ call[c].at # "import"
  BY <1>1, Zenon DEF Creating, Local, Granted
<1>3. /\ s \in Spaces /\ s \in minted \ (rows \cup dropped)
      /\ call[c].grant \in Grants(s) /\ call[c].batch = {}
  BY <1>2, TypeOfCall, NoBatch, Zenon DEF Fits
<1>4. ASSUME ToCall(c, "serve") PROVE Proceeds(c)
  <2>1. "serve" \in Labels /\ "serve" \in Looking BY Zenon DEF Labels, Looking
  <2>2. /\ Moves(c) /\ call'[c].at = "serve" /\ call'[c].space = s
        /\ call'[c].grant = call[c].grant /\ call'[c].batch = call[c].batch
    BY <1>4, <2>1, ToCallMoves, Zenon
  <2>3. /\ call'[c].at \in Looking /\ call'[c].batch = {}
        /\ call'[c].space \in Spaces /\ call'[c].grant \in Grants(call'[c].space)
    BY <1>3, <2>1, <2>2, Zenon
  <2>4. Fits(call[c])' /\ Claims(c) BY <2>3, LocalFits, Zenon
  <2> QED BY <2>2, <2>4, Zenon DEF Proceeds
<1>5. ASSUME ToCall(c, "select") PROVE Proceeds(c)
  <2>1. call[c].at \in {"store", "serve", "check"} BY <1>1, Zenon
  <2> QED BY <1>5, <2>1, SelectNext, Zenon
<1>6. Proceeds(c) BY <1>1, <1>4, <1>5, Zenon
<1>7. Genesis(s) \in ControlOps /\ Owner(s) \in ControlOps BY <1>3, OwnGrant, Zenon
<1>8. ops \subseteq ops' /\ ops' \subseteq ControlOps
  <2>1. ops \subseteq ControlOps BY InvParts, Zenon DEF Rest
  <2> QED BY <1>1, <1>7, <2>1, Zenon
<1>9. Rest' BY <1>1, <1>8, InvParts, Zenon DEF Rest, frame, nodes
<1>10. Selection' BY <1>1, SelectionStays, Zenon
<1>11. Ledger' BY <1>1, <1>3, InvParts, Zenon DEF Ledger, frame, nodes
<1>12. RecordsFit' BY <1>1, <1>8, RecordsKept, Zenon
<1>13. Starting' BY <1>1, StartingKept, Zenon DEF frame
<1>14. Gentle(c) BY <1>1, <1>2, Zenon DEF Gentle, frame, nodes, RemoteLog
<1>15. Grown /\ sequence' \in Nat BY <1>1, StillGrown, Zenon
<1>16. CallsFit' BY <1>6, <1>14, <1>15, CallsKept, Zenon DEF Proceeds
<1> QED BY <1>9, <1>10, <1>11, <1>12, <1>13, <1>16, Zenon DEF WorkspacesInv

(* Grants of different spaces differ.                                      *)
LEMMA GrantsDiffer ==
    ASSUME NEW s \in Spaces, NEW t \in AllSpaces, t # s, NEW g \in Grants(t)
    PROVE  g \notin {Genesis(s), Owner(s)}
<1>1. g = Owner(t) \/ \E k \in Sessions : g = Paired(k) BY Zenon DEF Grants
<1>2. Owner(t) # Owner(s) /\ Owner(t) # Genesis(s) BY Zenon DEF Owner, Genesis
<1>3. \A k \in Sessions : Paired(k) # Owner(s) /\ Paired(k) # Genesis(s)
  BY Zenon DEF Owner, Genesis, Paired
<1> QED BY <1>1, <1>2, <1>3, Zenon

LEMMA DropKeeps ==
    ASSUME WorkspacesInv, NEW c \in Callers, DropDeleted(c)
    PROVE  WorkspacesInv'
<1> DEFINE s == call[c].space
<1>1. /\ Up /\ call[c].at = "drop" /\ ToCall(c, "forget")
      /\ UNCHANGED <<frame, nodes, sequence, peer, link, author, pending, page, minted>>
      /\ active' = None \/ active' = active
      /\ served' = [served EXCEPT ![s] = "no"]
      /\ rows' = rows \ {s} /\ dropped' = dropped \cup {s}
      /\ ops' = ops \ {Genesis(s), Owner(s)}
      /\ recs' = [recs EXCEPT ![s] = {}]
  BY Zenon DEF DropDeleted, In, Drop
<1>2. call[c].at \in Deleting /\ call[c].at \in Local /\ call[c].at # "import"
  BY <1>1, Zenon DEF Deleting, Local
<1>3. s \in Spaces /\ s \in minted /\ s \notin hosted /\ call[c].batch = {}
  BY <1>1, <1>2, TypeOfCall, NoBatch, Zenon DEF Fits
<1>4. Proceeds(c)
  <2>1. /\ "forget" \in Labels /\ "forget" \in Local
        /\ "forget" \notin Granted \cup Joining \cup Claiming \cup Writing
        /\ "forget" \notin Creating \cup Deleting \cup Merging \cup Importing \cup Pulling
        /\ "forget" \notin {"post", "remove", "drop", "import"}
    BY Zenon DEF Labels, Local, Granted, Looking, Choosing, Joining, Claiming, Writing, Creating,
       Deleting, Merging, Importing, Pulling
  <2>2. /\ Moves(c) /\ call'[c].at = "forget" /\ call'[c].space = s
        /\ call'[c].batch = call[c].batch
    BY <1>1, <2>1, ToCallMoves, Zenon
  <2>3. call'[c].batch = {} /\ call'[c].space \in Spaces BY <1>3, <2>2, Zenon
  <2>4. Fits(call[c])' BY <2>1, <2>2, <2>3, Zenon DEF Fits
  <2> QED BY <2>1, <2>2, <2>4, Zenon DEF Proceeds, Claims
<1> HIDE DEF s
<1>5. Rest'
  <2>1. served \in [Spaces -> {"no", "fresh", "pulled"}] BY InvParts, Zenon DEF Rest
  <2>2. served' \in [Spaces -> {"no", "fresh", "pulled"}] BY <1>1, <2>1, Zenon
  <2> QED BY <1>1, <2>2, InvParts, Zenon DEF Rest, frame, nodes
<1>6. Selection'
  <2>1. Selection BY InvParts, Zenon
  <2> QED BY <1>1, <2>1, Zenon DEF Selection, Grants, Owner, Paired
<1>7. Ledger' BY <1>1, <1>3, InvParts, Zenon DEF Ledger, frame, nodes
<1>8. /\ recs' \in [AllSpaces -> SUBSET RecordType] /\ recs'[s] = {}
      /\ \A t \in AllSpaces \ {s} : recs'[t] = recs[t]
  <2>1. recs \in [AllSpaces -> SUBSET RecordType] /\ s \in AllSpaces
    BY <1>3, InvParts, Zenon DEF RecordsFit, AllSpaces
  <2> QED BY <1>1, <2>1, Zenon
<1>9. RecordsFit'
  <2>1. RecordsFit BY InvParts, Zenon
  <2>2. IsFiniteSet({}) BY FS_EmptySet, Zenon
  <2>3. ASSUME NEW t \in AllSpaces
        PROVE  /\ IsFiniteSet(recs'[t])
               /\ \A r \in recs'[t] :
                     r.seq <= sequence' /\ r.grant \in Grants(t) /\ r.grant \in ops'
    <3>1. CASE t = s BY <1>8, <2>2, <3>1, Zenon
    <3>2. CASE t # s
      <4>1. recs'[t] = recs[t] BY <1>8, <3>2, Zenon
      <4>2. IsFiniteSet(recs[t]) BY <2>1, Zenon DEF RecordsFit
      <4>3. ASSUME NEW r \in recs[t]
            PROVE  r.seq <= sequence' /\ r.grant \in Grants(t) /\ r.grant \in ops'
        <5>1. r.seq <= sequence /\ r.grant \in Grants(t) /\ r.grant \in ops
          BY <2>1, Zenon DEF RecordsFit
        <5>2. r.grant \notin {Genesis(s), Owner(s)} BY <1>3, <3>2, <5>1, GrantsDiffer, Zenon
        <5> QED BY <1>1, <5>1, <5>2, Zenon
      <4> QED BY <4>1, <4>2, <4>3, Zenon
    <3> QED BY <3>1, <3>2, Zenon
  <2>4. sequence' \in Nat BY <1>1, <2>1, Zenon DEF RecordsFit
  <2> QED BY <1>8, <2>3, <2>4, Zenon DEF RecordsFit, Grants, Owner, Paired, AllSpaces
<1>10. Starting' BY <1>1, StartingKept, Zenon DEF frame
<1>11. Gentle(c) BY <1>1, <1>2, Zenon DEF Gentle, frame, nodes, RemoteLog, s
<1>12. Grown /\ sequence' \in Nat
  <2>1. sequence \in Nat BY InvParts, Zenon DEF RecordsFit
  <2>2. sequence' = sequence BY <1>1, Zenon
  <2>3. sequence <= sequence' BY <2>1, <2>2
  <2>4. Remote # s BY <1>3, Zenon
  <2> QED BY <1>8, <2>1, <2>2, <2>3, <2>4, Zenon DEF Grown, AllSpaces
<1>13. CallsFit' BY <1>4, <1>11, <1>12, CallsKept, Zenon DEF Proceeds
<1> QED BY <1>5, <1>6, <1>7, <1>9, <1>10, <1>13, Zenon DEF WorkspacesInv


-------------------------------------------------------------------------------
(* The worker, starts and faults.                                          *)

LEMMA CallsUntouched ==
    ASSUME WorkspacesInv,
           UNCHANGED <<call, supervised, admitted, hosted, rows, recs, sequence, minted, dropped>>
    PROVE  CallsFit'
<1>1. CallsFit BY InvParts, Zenon
<1>2. Grown /\ sequence' \in Nat BY StillGrown, Zenon
<1>3. call' \in [Callers -> CallType] BY <1>1, Zenon DEF CallsFit
<1>4. ASSUME NEW c \in Callers PROVE Fits(call[c])'
  <2>1. Fits(call[c]) BY <1>1, Zenon DEF CallsFit
  <2>2. call'[c] = call[c] /\ RemoteLog' = RemoteLog BY Zenon DEF RemoteLog
  <2>3. call[c].at \in Merging /\ call[c].merge => Merges(call[c])'
    BY <1>2, <2>1, <2>2, OthersMerge, Zenon DEF Fits
  <2>4. PICK w : w = call[c] BY Zenon
  <2>5. /\ w.at \in Granted => w.space \in AllSpaces /\ w.grant \in Grants(w.space)
        /\ w.at \in Local => w.space \in Spaces
        /\ w.at \in Joining => w.space = Remote
        /\ w.at \in Claiming \cup Joining => w.session \in Sessions
        /\ w.at \in Creating => w.space \in minted' \ (rows' \cup dropped')
        /\ w.at \in Deleting => w.space \in minted'
        /\ w.at \in {"post", "remove"} => supervised'
        /\ w.at \in {"post", "drop"} => w.space \notin hosted'
    BY <2>1, <2>4, Zenon DEF Fits
  <2>6. /\ w.at \in Writing => w.entity \in Entities
        /\ w.at \in Pulling => w.after + 1 \in DOMAIN RemoteLog'
        /\ w.at = "import" <=> w.batch # {}
        /\ w.at \in Importing => w.merge
        /\ w.at \in Merging /\ w.merge => Merges(w)'
    BY <2>1, <2>2, <2>3, <2>4, Zenon DEF Fits
  <2>7. Fits(w)' BY <2>5, <2>6, Zenon DEF Fits
  <2> QED BY <2>2, <2>4, <2>7, Zenon
<1>5. \A c, d \in Callers : c # d => Apart(call[c], call[d])' BY <1>1, Zenon DEF CallsFit, Apart
<1> QED BY <1>3, <1>4, <1>5, Zenon DEF CallsFit

LEMMA WorkerStep ==
    ASSUME WorkspacesInv, Up, Rest', ops \subseteq ops',
           UNCHANGED <<frame, nodes, rows, recs, sequence, active, author, call, minted, dropped>>
    PROVE  WorkspacesInv'
<1>1. Selection' BY SelectionStays, Zenon
<1>2. Ledger' BY LedgerKept, Zenon DEF frame, nodes
<1>3. RecordsFit' BY RecordsKept, Zenon
<1>4. Starting' BY StartingKept, Zenon DEF frame
<1>5. CallsFit' BY CallsUntouched, Zenon DEF frame, nodes
<1> QED BY <1>1, <1>2, <1>3, <1>4, <1>5, Zenon DEF WorkspacesInv

LEMMA WorkerKeeps ==
    ASSUME WorkspacesInv, Worker
    PROVE  WorkspacesInv'
<1>1. /\ page \in PageType /\ (page # NoPage => page.space \in Spaces)
      /\ served \in [Spaces -> {"no", "fresh", "pulled"}] /\ ops \subseteq ControlOps
  BY InvParts, Zenon DEF Rest
<1>2. NoPage \in PageType BY DEF NoPage, PageType
<1>3. ASSUME NEW s \in Spaces, FetchPage(s) PROVE WorkspacesInv'
  <2>1. /\ Up /\ page' = [space |-> s, ops |-> <<Genesis(s), Owner(s)>>]
        /\ UNCHANGED <<frame, nodes, rows, ops, recs, sequence, active, served, peer,
                       link, author, pending, call, minted, dropped>>
    BY <1>3, Zenon DEF FetchPage
  <2>2. Genesis(s) \in ControlOps /\ Owner(s) \in ControlOps BY OwnGrant, Zenon
  <2>3. page'.space = s /\ page'.ops = <<Genesis(s), Owner(s)>> BY <2>1, Zenon
  <2>4. page' \in PageType BY <2>1, <2>2 DEF PageType
  <2>5. Rest' BY <2>1, <2>3, <2>4, InvParts, Zenon DEF Rest, frame, nodes
  <2> QED BY <2>1, <2>5, WorkerStep, Zenon
<1>4. ASSUME CommitPage PROVE WorkspacesInv'
  <2> DEFINE o == Head(page.ops)
             q == [page EXCEPT !.ops = Tail(@)]
  <2>1. /\ Up /\ page # NoPage /\ page.ops # <<>>
        /\ \/ ops' = ops \cup {o} /\ page' = q
           \/ ops' = ops /\ page' = NoPage
        /\ UNCHANGED <<frame, nodes, rows, recs, sequence, active, served, peer, link,
                       author, pending, call, minted, dropped>>
    BY <1>4, Zenon DEF CommitPage
  <2>2. o \in ControlOps /\ Tail(page.ops) \in Seq(ControlOps) BY <1>1, <2>1 DEF PageType
  <2>3. ops \subseteq ops' /\ ops' \subseteq ControlOps BY <1>1, <2>1, <2>2, Zenon
  <2>4. page' \in PageType /\ (page' # NoPage => page'.space \in Spaces)
    <3>1. CASE page' = NoPage BY <1>2, <3>1, Zenon
    <3>2. CASE page' = q
      <4>1. q \in PageType /\ q.space = page.space BY <1>1, <2>2, Zenon DEF PageType
      <4> QED BY <1>1, <2>1, <3>2, <4>1, Zenon
    <3> QED BY <2>1, <3>1, <3>2, Zenon
  <2>5. Rest' BY <2>1, <2>3, <2>4, InvParts, Zenon DEF Rest, frame, nodes
  <2> QED BY <2>1, <2>3, <2>5, WorkerStep, Zenon
<1>5. ASSUME AdvanceCursor PROVE WorkspacesInv'
  <2> DEFINE x == IF served[page.space] = "fresh" THEN "pulled" ELSE served[page.space]
  <2>1. /\ Up /\ page # NoPage /\ page' = NoPage
        /\ served' = [served EXCEPT ![page.space] = x]
        /\ UNCHANGED <<frame, nodes, rows, ops, recs, sequence, active, peer, link,
                       author, pending, call, minted, dropped>>
    BY <1>5, Zenon DEF AdvanceCursor
  <2>2. page.space \in Spaces BY <1>1, <2>1, Zenon
  <2>3. x \in {"no", "fresh", "pulled"} BY <1>1, <2>2, Zenon
  <2> HIDE DEF x
  <2>4. served' \in [Spaces -> {"no", "fresh", "pulled"}] BY <1>1, <2>1, <2>3, Zenon
  <2>5. Rest' BY <1>2, <2>1, <2>4, InvParts, Zenon DEF Rest, frame, nodes
  <2> QED BY <2>1, <2>5, WorkerStep, Zenon
<1> QED BY <1>3, <1>4, <1>5, Zenon DEF Worker


LEMMA IdleCalls ==
    ASSUME \A c \in Callers : call'[c] = Idle, call' \in [Callers -> CallType]
    PROVE  CallsFit'
<1>1. ASSUME NEW c \in Callers
      PROVE  Fits(call[c])' /\ call'[c].at \notin Creating \cup Deleting
  <2>1. call'[c].at = "idle" /\ call'[c].batch = {} BY DEF Idle
  <2> QED BY <2>1, IdleFits, Zenon
<1>2. \A c, d \in Callers : c # d => Apart(call[c], call[d])' BY <1>1, Zenon DEF Apart
<1> QED BY <1>1, <1>2, Zenon DEF CallsFit

LEMMA DownCalls ==
    ASSUME WorkspacesInv, ~Up, call' = call
    PROVE  CallsFit'
<1>1. call \in [Callers -> CallType] BY InvParts, Zenon DEF CallsFit
<1>2. \A c \in Callers : call'[c] = Idle BY InvParts, Zenon DEF Starting
<1> QED BY <1>1, <1>2, IdleCalls, Zenon

LEMMA BootTyped ==
    ASSUME WorkspacesInv
    PROVE  boot \in BootType /\ boot.spaces \subseteq Spaces
<1>1. boot \in BootType BY InvParts, Zenon DEF Starting
<1> QED BY <1>1, Zenon DEF BootType

LEMMA ToBootTyped ==
    ASSUME WorkspacesInv,
           NEW l \in {"create", "open", "load", "recovery", "spaces", "up"}, ToBoot(l)
    PROVE  boot' \in BootType /\ boot'.at = l /\ boot'.spaces = boot.spaces
<1>1. boot \in BootType /\ boot' = [boot EXCEPT !.at = l] BY BootTyped, Zenon DEF ToBoot
<1> QED BY <1>1, Zenon DEF BootType

(* A start of a standalone client, up to its last step.                    *)
LEMMA StandaloneStarts ==
    ASSUME WorkspacesInv, ~supervised, supervised' = supervised, call' = call, ~Up,
           NEW l \in {"create", "open", "load", "recovery", "up"}, ToBoot(l)
    PROVE  Starting'
<1>1. boot' \in BootType /\ boot'.at = l BY ToBootTyped, Zenon
<1>2. boot'.at \notin {"spaces", "serve"} BY <1>1, Zenon
<1>3. \A c \in Callers : call'[c] = Idle BY InvParts, Zenon DEF Starting
<1> QED BY <1>1, <1>2, <1>3, Zenon DEF Starting

LEMMA PrepareKeeps ==
    ASSUME WorkspacesInv, Prepare
    PROVE  WorkspacesInv'
<1> DEFINE l == IF binding = 0
                THEN IF keys.state = "set" THEN "open" ELSE "create"
                ELSE IF keys.state = "set" THEN "open" ELSE "recovery"
<1>1. /\ boot.at = "down" /\ ~supervised /\ ToBoot(l)
      /\ UNCHANGED <<supervised, nodes, database, keys, author, pending, call,
                     page, minted, dropped, faults>>
  BY Zenon DEF Prepare, Booting
<1>2. l \in {"create", "open", "load", "recovery", "up"} BY Zenon
<1> HIDE DEF l
<1>3. ~Up BY <1>1, Zenon DEF Up
<1>4. Starting' BY <1>1, <1>2, <1>3, StandaloneStarts, Zenon
<1>5. Rest' BY <1>1, RestStays, Zenon DEF database, nodes
<1>6. Selection' BY <1>1, SelectionStays, Zenon DEF database
<1>7. Ledger' BY <1>1, LedgerKept, Zenon DEF database, nodes
<1>8. RecordsFit' BY <1>1, RecordsKept, Zenon DEF database
<1>9. CallsFit' BY <1>1, <1>3, DownCalls, Zenon
<1> QED BY <1>4, <1>5, <1>6, <1>7, <1>8, <1>9, Zenon DEF WorkspacesInv

(* While a standalone client opens its identity, the rest stays.           *)
LEMMA OpeningStep ==
    ASSUME WorkspacesInv, boot.at \in {"create", "open"}, Starting',
           UNCHANGED <<supervised, nodes, rows, ops, recs, sequence, active, served, peer, link,
                       author, pending, call, page, minted, dropped>>
    PROVE  WorkspacesInv'
<1>1. ~Up BY Zenon DEF Up
<1>2. ~supervised
  <2>1. boot.at \in {"create", "open", "load", "recovery"} BY Zenon
  <2> QED BY <2>1, InvParts, Zenon DEF Starting
<1>3. Rest' BY <1>2, InvParts, Zenon DEF Rest, nodes
<1>4. Selection' BY SelectionStays, Zenon
<1>5. Ledger' BY LedgerKept, Zenon DEF nodes
<1>6. RecordsFit' BY RecordsKept, Zenon
<1>7. CallsFit' BY <1>1, DownCalls, Zenon
<1> QED BY <1>3, <1>4, <1>5, <1>6, <1>7, Zenon DEF WorkspacesInv

LEMMA CreateKeysKeeps ==
    ASSUME WorkspacesInv, CreateKeys
    PROVE  WorkspacesInv'
<1>1. /\ boot.at = "create" /\ (boot' = boot \/ ToBoot("open"))
      /\ UNCHANGED <<supervised, nodes, database, author, pending, call, page, minted, dropped>>
  BY Zenon DEF CreateKeys, Booting
<1>2. boot.at \in {"create", "open"} /\ "open" \in {"create", "open", "load", "recovery", "up"}
  BY <1>1, Zenon
<1>3. ~Up /\ ~supervised
  <2>1. boot.at \in {"create", "open", "load", "recovery"} BY <1>1, Zenon
  <2>2. ~supervised BY <2>1, InvParts, Zenon DEF Starting
  <2> QED BY <1>1, <2>2, Zenon DEF Up
<1>4. Starting'
  <2>1. CASE ToBoot("open") BY <1>1, <1>2, <1>3, <2>1, StandaloneStarts, Zenon
  <2>2. CASE boot' = boot
    <3>1. boot'.at \notin {"spaces", "serve"} BY <1>1, <2>2, Zenon
    <3> QED BY <1>1, <1>3, <2>2, <3>1, InvParts, Zenon DEF Starting, Up
  <2> QED BY <1>1, <2>1, <2>2, Zenon
<1> QED BY <1>1, <1>2, <1>4, OpeningStep, Zenon DEF database

LEMMA BindKeeps ==
    ASSUME WorkspacesInv, Bind
    PROVE  WorkspacesInv'
<1>1. /\ boot.at = "open" /\ (ToBoot("load") \/ ToBoot("recovery"))
      /\ UNCHANGED <<supervised, nodes, rows, ops, recs, sequence, active, served, peer, link,
                     author, pending, call, page, minted, dropped>>
  BY Zenon DEF Bind, Booting
<1>2. /\ boot.at \in {"create", "open"}
      /\ "load" \in {"create", "open", "load", "recovery", "up"}
      /\ "recovery" \in {"create", "open", "load", "recovery", "up"}
  BY <1>1, Zenon
<1>3. ~Up /\ ~supervised
  <2>1. boot.at \in {"create", "open", "load", "recovery"} BY <1>1, Zenon
  <2>2. ~supervised BY <2>1, InvParts, Zenon DEF Starting
  <2> QED BY <1>1, <2>2, Zenon DEF Up
<1>4. Starting' BY <1>1, <1>2, <1>3, StandaloneStarts, Zenon
<1> QED BY <1>1, <1>2, <1>4, OpeningStep, Zenon

(* The author is that of the active workspace.                             *)
LEMMA LoadedSelection ==
    ASSUME active' # None => active' \in ActiveType /\ active'.grant \in Grants(active'.space),
           author' = AuthorOf(active')
    PROVE  Selection'
<1>1. CASE active' = None
  <2>1. author' = None BY <1>1, Zenon DEF AuthorOf
  <2> QED BY <1>1, <2>1, Zenon DEF Selection
<1>2. CASE active' # None
  <2>1. author' = [space |-> active'.space, grant |-> active'.grant] BY <1>2, Zenon DEF AuthorOf
  <2>2. active'.space \in AllSpaces /\ active'.grant \in ControlOps BY <1>2, Zenon DEF ActiveType
  <2>3. /\ author' \in [space : AllSpaces, grant : ControlOps]
        /\ author'.space = active'.space /\ author'.grant = active'.grant
    BY <2>1, <2>2
  <2>4. author'.grant \in Grants(author'.space) BY <1>2, <2>3, Zenon
  <2> QED BY <1>2, <2>3, <2>4, Zenon DEF Selection
<1> QED BY <1>1, <1>2, Zenon

LEMMA LoadStandaloneKeeps ==
    ASSUME WorkspacesInv, LoadStandalone
    PROVE  WorkspacesInv'
<1>1. /\ boot.at = "load" /\ ToBoot("up") /\ author' = AuthorOf(active')
      /\ active' = None \/ active' = active
      /\ UNCHANGED <<supervised, nodes, rows, ops, recs, sequence, served, peer,
                     link, binding, keys, pending, call, page, minted, dropped>>
  BY Zenon DEF LoadStandalone, Booting, KeptStandalone
<1>2. ~Up /\ ~supervised
  <2>1. boot.at \in {"create", "open", "load", "recovery"} BY <1>1, Zenon
  <2>2. ~supervised BY <2>1, InvParts, Zenon DEF Starting
  <2> QED BY <1>1, <2>2, Zenon DEF Up
<1>3. "up" \in {"create", "open", "load", "recovery", "up"} BY Zenon
<1>4. Starting' BY <1>1, <1>2, <1>3, StandaloneStarts, Zenon
<1>5. active' # None => active' \in ActiveType /\ active'.grant \in Grants(active'.space)
  BY <1>1, InvParts, Zenon DEF Selection
<1>6. Selection' BY <1>1, <1>5, LoadedSelection, Zenon
<1>7. Rest' BY <1>1, RestStays, Zenon DEF nodes
<1>8. Ledger' BY <1>1, LedgerKept, Zenon DEF nodes
<1>9. RecordsFit' BY <1>1, RecordsKept, Zenon
<1>10. CallsFit' BY <1>1, <1>2, DownCalls, Zenon
<1> QED BY <1>4, <1>6, <1>7, <1>8, <1>9, <1>10, Zenon DEF WorkspacesInv


LEMMA ContactKeeps ==
    ASSUME WorkspacesInv, Contact
    PROVE  WorkspacesInv'
<1>1. /\ boot.at = "down" /\ supervised
      /\ boot' = [at |-> "spaces", spaces |-> hosted, space |-> None]
      /\ UNCHANGED <<supervised, nodes, database, keys, author, pending, call,
                     page, minted, dropped, faults>>
  BY Zenon DEF Contact, Booting
<1>2. ~Up BY <1>1, Zenon DEF Up
<1>3. hosted \subseteq Spaces BY InvParts, Zenon DEF Ledger
<1>4. boot' \in BootType /\ boot'.at = "spaces" /\ boot'.spaces = hosted
  BY <1>1, <1>3, Zenon DEF BootType
<1>5. boot'.at \notin {"create", "open", "load", "recovery"} /\ boot'.at # "serve" BY <1>4, Zenon
<1>6. hosted' = hosted /\ supervised' BY <1>1, Zenon DEF nodes
<1>7. \A c \in Callers : call'[c] = Idle BY <1>1, <1>2, InvParts, Zenon DEF Starting
<1>8. Starting' BY <1>4, <1>5, <1>6, <1>7, Zenon DEF Starting
<1>9. Rest' BY <1>1, RestStays, Zenon DEF database, nodes
<1>10. Selection' BY <1>1, SelectionStays, Zenon DEF database
<1>11. Ledger' BY <1>1, LedgerKept, Zenon DEF database, nodes
<1>12. RecordsFit' BY <1>1, RecordsKept, Zenon DEF database
<1>13. CallsFit' BY <1>1, <1>2, DownCalls, Zenon
<1> QED BY <1>8, <1>9, <1>10, <1>11, <1>12, <1>13, Zenon DEF WorkspacesInv

(* What a start beside the own node has done.                              *)
LEMMA StartedSpaces ==
    ASSUME WorkspacesInv, boot.at \in {"spaces", "serve"}
    PROVE  /\ ~Up /\ supervised /\ boot.spaces \subseteq hosted /\ hosted \subseteq Spaces
           /\ \A s \in hosted \ boot.spaces :
                 /\ s \in rows /\ Owner(s) \in ops
                 /\ served[s] # "no" \/ (boot.at = "serve" /\ s = boot.space)
           /\ \A c \in Callers : call[c] = Idle
           /\ boot.at = "serve" => boot.space \in Spaces
<1>1. ~Up BY Zenon DEF Up
<1> QED BY <1>1, InvParts, Zenon DEF Starting, Ledger

LEMMA BootStoreKeeps ==
    ASSUME WorkspacesInv, NEW s \in Spaces, BootStore(s)
    PROVE  WorkspacesInv'
<1>1. /\ boot.at = "spaces" /\ s \in boot.spaces
      /\ rows' = rows \cup {s} /\ ops' = ops \cup {Genesis(s), Owner(s)}
      /\ boot' = [at |-> "serve", spaces |-> boot.spaces \ {s}, space |-> s]
      /\ UNCHANGED <<supervised, nodes, recs, sequence, active, served, peer, link,
                     binding, keys, author, pending, call, page, minted, dropped>>
  BY Zenon DEF BootStore, Booting, StoreWorkspace
<1>2. boot.at \in {"spaces", "serve"} /\ boot.at # "serve" BY <1>1, Zenon
<1>3. /\ ~Up /\ supervised /\ boot.spaces \subseteq hosted /\ hosted \subseteq Spaces
      /\ \A t \in hosted \ boot.spaces : t \in rows /\ Owner(t) \in ops /\ served[t] # "no"
      /\ \A c \in Callers : call[c] = Idle
  BY <1>2, StartedSpaces, Zenon
<1>4. /\ boot' \in BootType /\ boot'.at = "serve" /\ boot'.spaces = boot.spaces \ {s}
      /\ boot'.space = s
  <2>1. boot.spaces \ {s} \in SUBSET Spaces BY <1>3, Zenon
  <2> QED BY <1>1, <2>1, Zenon DEF BootType
<1>5. boot'.at \notin {"create", "open", "load", "recovery"} BY <1>4, Zenon
<1>6. hosted' = hosted /\ supervised' /\ served' = served BY <1>1, <1>3, Zenon DEF nodes
<1>7. \A t \in hosted' \ boot'.spaces :
         /\ t \in rows' /\ Owner(t) \in ops'
         /\ served'[t] # "no" \/ (boot'.at = "serve" /\ t = boot'.space)
  BY <1>1, <1>3, <1>4, <1>6, Zenon
<1>8. boot'.spaces \subseteq hosted' BY <1>3, <1>4, <1>6, Zenon
<1>9. \A c \in Callers : call'[c] = Idle BY <1>1, <1>3, Zenon
<1>10. Starting' BY <1>4, <1>5, <1>6, <1>7, <1>8, <1>9, Zenon DEF Starting, Owner
<1>11. Genesis(s) \in ControlOps /\ Owner(s) \in ControlOps BY OwnGrant, Zenon
<1>12. ops \subseteq ops' /\ ops' \subseteq ControlOps
  <2>1. ops \subseteq ControlOps BY InvParts, Zenon DEF Rest
  <2> QED BY <1>1, <1>11, <2>1, Zenon
<1>13. Rest' BY <1>1, <1>12, InvParts, Zenon DEF Rest, nodes
<1>14. Selection' BY <1>1, SelectionStays, Zenon
<1>15. s \in hosted BY <1>1, <1>3, Zenon
<1>16. Ledger' BY <1>1, <1>15, InvParts, Zenon DEF Ledger, nodes
<1>17. RecordsFit' BY <1>1, <1>12, RecordsKept, Zenon
<1>18. CallsFit' BY <1>1, <1>3, DownCalls, Zenon
<1> QED BY <1>10, <1>13, <1>14, <1>16, <1>17, <1>18, Zenon DEF WorkspacesInv

LEMMA BootServeKeeps ==
    ASSUME WorkspacesInv, BootServe
    PROVE  WorkspacesInv'
<1>1. /\ boot.at = "serve" /\ served' = ServedBy(boot.space) /\ ToBoot("spaces")
      /\ UNCHANGED <<supervised, nodes, rows, ops, recs, sequence, active, peer,
                     link, binding, keys, author, pending, call, page, minted, dropped>>
  BY Zenon DEF BootServe, Booting
<1>2. boot.at \in {"spaces", "serve"} BY <1>1, Zenon
<1>3. /\ ~Up /\ supervised /\ boot.spaces \subseteq hosted /\ hosted \subseteq Spaces
      /\ \A s \in hosted \ boot.spaces :
            s \in rows /\ Owner(s) \in ops /\ (served[s] # "no" \/ s = boot.space)
      /\ \A c \in Callers : call[c] = Idle
      /\ boot.space \in Spaces
  BY <1>1, <1>2, StartedSpaces, Zenon
<1>4. "spaces" \in {"create", "open", "load", "recovery", "spaces", "up"} BY Zenon
<1>5. boot' \in BootType /\ boot'.at = "spaces" /\ boot'.spaces = boot.spaces
  BY <1>1, <1>4, ToBootTyped, Zenon
<1>6. boot'.at \notin {"create", "open", "load", "recovery"} /\ boot'.at # "serve" BY <1>5, Zenon
<1>7. /\ served' \in [Spaces -> {"no", "fresh", "pulled"}] /\ served'[boot.space] # "no"
      /\ \A t \in Spaces : served[t] # "no" => served'[t] # "no"
  BY <1>1, <1>3, ServedIsTyped, Zenon
<1>8. hosted' = hosted /\ supervised' BY <1>1, <1>3, Zenon DEF nodes
<1>9. \A s \in hosted' \ boot'.spaces :
         /\ s \in rows' /\ Owner(s) \in ops'
         /\ served'[s] # "no" \/ (boot'.at = "serve" /\ s = boot'.space)
  BY <1>1, <1>3, <1>5, <1>7, <1>8, Zenon
<1>10. boot'.spaces \subseteq hosted' BY <1>3, <1>5, <1>8, Zenon
<1>11. \A c \in Callers : call'[c] = Idle BY <1>1, <1>3, Zenon
<1>12. Starting' BY <1>5, <1>6, <1>8, <1>9, <1>10, <1>11, Zenon DEF Starting, Owner
<1>13. Rest' BY <1>1, <1>7, InvParts, Zenon DEF Rest, nodes
<1>14. Selection' BY <1>1, SelectionStays, Zenon
<1>15. Ledger' BY <1>1, LedgerKept, Zenon DEF nodes
<1>16. RecordsFit' BY <1>1, RecordsKept, Zenon
<1>17. CallsFit' BY <1>1, <1>3, DownCalls, Zenon
<1> QED BY <1>12, <1>13, <1>14, <1>15, <1>16, <1>17, Zenon DEF WorkspacesInv

LEMMA LoadSupervisedKeeps ==
    ASSUME WorkspacesInv, LoadSupervised
    PROVE  WorkspacesInv'
<1>1. /\ boot.at = "spaces" /\ ToBoot("up") /\ author' = AuthorOf(active')
      /\ \/ active' = active
         \/ active' = None
         \/ \E s \in hosted : active' = [space |-> s, grant |-> Owner(s), peer |-> "own"]
      /\ UNCHANGED <<supervised, nodes, rows, ops, recs, sequence, served, peer,
                     link, binding, keys, pending, call, page, minted, dropped>>
  BY Zenon DEF LoadSupervised, Booting
<1>2. boot.at \in {"spaces", "serve"} BY <1>1, Zenon
<1>3. ~Up /\ hosted \subseteq Spaces /\ \A c \in Callers : call[c] = Idle
  BY <1>2, StartedSpaces, Zenon
<1>4. "up" \in {"create", "open", "load", "recovery", "spaces", "up"} BY Zenon
<1>5. boot' \in BootType /\ boot'.at = "up" BY <1>1, <1>4, ToBootTyped, Zenon
<1>6. boot'.at \notin {"create", "open", "load", "recovery", "spaces", "serve"} BY <1>5, Zenon
<1>7. boot'.at \notin {"create", "open", "load", "recovery"} /\ boot'.at \notin {"spaces", "serve"}
      /\ boot'.at # "serve"
  BY <1>6, Zenon
<1>8. \A c \in Callers : call'[c] = Idle BY <1>1, <1>3, Zenon
<1>9. Starting' BY <1>5, <1>7, <1>8, Zenon DEF Starting
<1>10. active' # None => active' \in ActiveType /\ active'.grant \in Grants(active'.space)
  <2>1. CASE active' = active \/ active' = None BY <2>1, InvParts, Zenon DEF Selection
  <2>2. ASSUME NEW s \in hosted, active' = [space |-> s, grant |-> Owner(s), peer |-> "own"]
        PROVE  active' \in ActiveType /\ active'.grant \in Grants(active'.space)
    <3>1. Owner(s) \in ControlOps /\ s \in AllSpaces /\ Owner(s) \in Grants(s)
      BY <1>3, OwnGrant, Zenon
    <3>2. active' \in ActiveType /\ active'.space = s /\ active'.grant = Owner(s)
      BY <2>2, <3>1, Zenon DEF ActiveType
    <3> QED BY <3>1, <3>2, Zenon
  <2> QED BY <1>1, <2>1, <2>2, Zenon
<1>11. Selection' BY <1>1, <1>10, LoadedSelection, Zenon
<1>12. Rest' BY <1>1, RestStays, Zenon DEF nodes
<1>13. Ledger' BY <1>1, LedgerKept, Zenon DEF nodes
<1>14. RecordsFit' BY <1>1, RecordsKept, Zenon
<1>15. CallsFit' BY <1>1, <1>3, DownCalls, Zenon
<1> QED BY <1>9, <1>11, <1>12, <1>13, <1>14, <1>15, Zenon DEF WorkspacesInv


(* A client that is down.                                                  *)
LEMMA DownStarts ==
    ASSUME boot' = Down, \A c \in Callers : call'[c] = Idle
    PROVE  Starting'
<1>1. boot' \in BootType /\ boot'.at = "down" BY Zenon DEF Down, BootType
<1>2. /\ boot'.at \notin {"create", "open", "load", "recovery"}
      /\ boot'.at \notin {"spaces", "serve"} /\ boot'.at # "serve"
  BY <1>1, Zenon
<1> QED BY <1>1, <1>2, Zenon DEF Starting

LEMMA StopKeeps ==
    ASSUME WorkspacesInv, Stop
    PROVE  WorkspacesInv'
<1>1. /\ author' = None /\ pending' = {} /\ page' = NoPage /\ boot' = Down
      /\ call' = [c \in Callers |-> Idle]
      /\ UNCHANGED <<supervised, nodes, database, keys, minted, dropped, faults>>
  BY Zenon DEF Stop
<1>2. \A c \in Callers : call'[c] = Idle BY <1>1, Zenon
<1>3. call' \in [Callers -> CallType] BY <1>1, IdleIsCall, Zenon
<1>4. Starting' BY <1>1, <1>2, DownStarts, Zenon
<1>5. CallsFit' BY <1>2, <1>3, IdleCalls, Zenon
<1>6. NoPage \in PageType BY DEF NoPage, PageType
<1>7. Rest' BY <1>1, <1>6, InvParts, Zenon DEF Rest, nodes, database
<1>8. Selection
  BY InvParts, Zenon
<1>9. Selection' BY <1>1, <1>8, Zenon DEF Selection, database, Grants, Owner, Paired
<1>10. Ledger' BY <1>1, LedgerKept, Zenon DEF nodes, database
<1>11. RecordsFit' BY <1>1, RecordsKept, Zenon DEF database
<1> QED BY <1>4, <1>5, <1>7, <1>9, <1>10, <1>11, Zenon DEF WorkspacesInv

LEMMA LoseKeysKeeps ==
    ASSUME WorkspacesInv, LoseKeys
    PROVE  WorkspacesInv'
<1>1. /\ boot = Down /\ keys.state # "missing"
      /\ UNCHANGED <<supervised, nodes, database, memory, minted, dropped>>
  BY Zenon DEF LoseKeys
<1>2. ~Up BY <1>1, Zenon DEF Up, Down
<1>3. ~supervised BY <1>1, InvParts, Zenon DEF Rest
<1>4. boot' = Down /\ call' = call BY <1>1, Zenon DEF memory
<1>5. \A c \in Callers : call'[c] = Idle BY <1>2, <1>4, InvParts, Zenon DEF Starting
<1>6. Starting' BY <1>4, <1>5, DownStarts, Zenon
<1>7. CallsFit' BY <1>2, <1>4, DownCalls, Zenon
<1>8. Rest' BY <1>1, <1>3, InvParts, Zenon DEF Rest, nodes, database, memory
<1>9. Selection' BY <1>1, SelectionStays, Zenon DEF database, memory
<1>10. Ledger' BY <1>1, LedgerKept, Zenon DEF nodes, database
<1>11. RecordsFit' BY <1>1, RecordsKept, Zenon DEF database
<1> QED BY <1>6, <1>7, <1>8, <1>9, <1>10, <1>11, Zenon DEF WorkspacesInv

(* An empty store.                                                         *)
LEMMA EmptyRecords ==
    ASSUME recs' = [s \in Spaces \cup {Remote} |-> {}], sequence' = 0
    PROVE  RecordsFit'
<1>1. \A s \in AllSpaces : recs'[s] = {} BY Zenon DEF AllSpaces
<1>2. recs' \in [AllSpaces -> SUBSET RecordType] BY Zenon DEF AllSpaces
<1>3. IsFiniteSet({}) /\ sequence' \in Nat BY FS_EmptySet, Zenon
<1> QED BY <1>1, <1>2, <1>3, Zenon DEF RecordsFit

LEMMA ResetKeeps ==
    ASSUME WorkspacesInv, Reset
    PROVE  WorkspacesInv'
<1>1. /\ boot.at \in {"down", "recovery"} /\ ~supervised
      /\ rows' = {} /\ ops' = {} /\ sequence' = 0 /\ active' = None
      /\ recs' = [s \in Spaces \cup {Remote} |-> {}]
      /\ served' = [s \in Spaces |-> "no"]
      /\ peer' = NoPeer /\ link' = None /\ binding' = 0 /\ boot' = Down
      /\ UNCHANGED <<supervised, nodes, keys, author, pending, call, page, minted, dropped>>
  BY Zenon DEF Reset
<1>2. ~Up BY <1>1, Zenon DEF Up
<1>3. \A c \in Callers : call'[c] = Idle BY <1>1, <1>2, InvParts, Zenon DEF Starting
<1>4. Starting' BY <1>1, <1>3, DownStarts, Zenon
<1>5. CallsFit' BY <1>1, <1>2, DownCalls, Zenon
<1>6. RecordsFit' BY <1>1, EmptyRecords, Zenon
<1>7. served' \in [Spaces -> {"no", "fresh", "pulled"}] BY <1>1, Zenon
<1>8. peer'.session = None BY <1>1, Zenon DEF NoPeer
<1>9. Rest' BY <1>1, <1>7, <1>8, InvParts, Zenon DEF Rest, nodes
<1>10. Selection BY InvParts, Zenon
<1>11. Selection' BY <1>1, <1>10, Zenon DEF Selection, Grants, Owner, Paired
<1>12. Ledger' BY <1>1, InvParts, Zenon DEF Ledger, nodes
<1> QED BY <1>4, <1>5, <1>6, <1>9, <1>11, <1>12, Zenon DEF WorkspacesInv

-------------------------------------------------------------------------------
LEMMA WorkspacesInit ==
    ASSUME Init
    PROVE  WorkspacesInv
<1>1. /\ supervised \in Kinds /\ hosted = {} /\ admitted = <<>> /\ rows = {} /\ ops = {}
      /\ sequence = 0 /\ active = None /\ recs = [s \in Spaces \cup {Remote} |-> {}]
      /\ served = [s \in Spaces |-> "no"] /\ peer = NoPeer /\ link = None /\ binding = 0
      /\ keys = [state |-> "missing", id |-> 0] /\ author = None /\ pending = {} /\ boot = Down
      /\ call = [c \in Callers |-> Idle] /\ page = NoPage /\ minted = {} /\ dropped = {}
  BY Zenon DEF Init
<1>2. Rest
  <2>1. admitted \in Seq(ControlOps) BY <1>1
  <2>2. served \in [Spaces -> {"no", "fresh", "pulled"}] BY <1>1, Zenon
  <2>3. peer.session = None /\ keys.state = "missing" BY <1>1, Zenon DEF NoPeer
  <2>4. page \in PageType BY <1>1 DEF NoPage, PageType
  <2>5. supervised \in BOOLEAN BY <1>1, Zenon
  <2> QED BY <1>1, <2>1, <2>2, <2>3, <2>4, <2>5, Zenon DEF Rest
<1>3. Selection BY <1>1, Zenon DEF Selection
<1>4. Ledger BY <1>1, Zenon DEF Ledger
<1>5. RecordsFit
  <2>1. \A s \in AllSpaces : recs[s] = {} BY <1>1, Zenon DEF AllSpaces
  <2>2. recs \in [AllSpaces -> SUBSET RecordType] BY <1>1, Zenon DEF AllSpaces
  <2>3. IsFiniteSet({}) /\ sequence \in Nat BY <1>1, FS_EmptySet, Zenon
  <2> QED BY <2>1, <2>2, <2>3, Zenon DEF RecordsFit
<1>6. CallsFit
  <2>1. call \in [Callers -> CallType] BY <1>1, IdleIsCall, Zenon
  <2>2. \A c \in Callers : call[c] = Idle BY <1>1, Zenon
  <2>3. ASSUME NEW c \in Callers PROVE call[c].at = "idle" /\ call[c].batch = {}
    BY <2>2 DEF Idle
  <2>4. /\ "idle" \notin Granted \cup Local \cup Joining \cup Claiming \cup Writing
        /\ "idle" \notin {"post", "remove", "drop", "import"} \cup Pulling \cup Importing
        /\ "idle" \notin Creating \cup Deleting \cup Merging
    BY Zenon DEF Granted, Looking, Choosing, Local, Joining, Claiming, Writing, Merging, Importing,
       Pulling, Creating, Deleting
  <2>5. \A c \in Callers : Fits(call[c]) BY <2>3, <2>4, Zenon DEF Fits
  <2>6. \A c, d \in Callers : c # d => Apart(call[c], call[d]) BY <2>3, <2>4, Zenon DEF Apart
  <2> QED BY <2>1, <2>5, <2>6, Zenon DEF CallsFit
<1>7. Starting
  <2>1. boot \in BootType /\ boot.at = "down" BY <1>1, Zenon DEF Down, BootType
  <2>2. /\ boot.at \notin {"create", "open", "load", "recovery"}
        /\ boot.at \notin {"spaces", "serve"} /\ boot.at # "serve"
    BY <2>1, Zenon
  <2>3. \A c \in Callers : call[c] = Idle BY <1>1, Zenon
  <2> QED BY <2>1, <2>2, <2>3, Zenon DEF Starting
<1> QED BY <1>2, <1>3, <1>4, <1>5, <1>6, <1>7, Zenon DEF WorkspacesInv

LEMMA WorkspacesNext ==
    ASSUME WorkspacesInv, [Next]_vars
    PROVE  WorkspacesInv'
<1>1. ASSUME NEW c \in Callers, CallStep(c) PROVE WorkspacesInv'
  BY <1>1, PostKeeps, StoreKeeps, ServeKeeps, SelectKeeps, AdoptKeeps, FindKeeps, CheckKeeps,
     RemoveKeeps, DropKeeps, ForgetKeeps, HandshakeKeeps, CountKeeps, OfferKeeps, RegisterKeeps,
     PullKeeps, SourceKeeps, ReadBatchKeeps, ImportKeeps, PublishKeeps, ConfigureKeeps,
     ObserveKeeps, CommitRecordKeeps, Zenon DEF CallStep
<1>2. ASSUME NEW c \in Callers, NewCall(c) PROVE WorkspacesInv'
  BY <1>2, CreateKeeps, ActivateKeeps, DeleteKeeps, ClaimKeeps, AcceptKeeps, CreateRecordKeeps,
     UpdateRecordKeeps, Zenon DEF NewCall
<1>3. CASE BootStep
  BY <1>3, PrepareKeeps, CreateKeysKeeps, BindKeeps, LoadStandaloneKeeps, ContactKeeps,
     BootStoreKeeps, BootServeKeeps, LoadSupervisedKeeps, Zenon DEF BootStep
<1>4. CASE Worker BY <1>4, WorkerKeeps, Zenon
<1>5. CASE Stop \/ LoseKeys \/ Reset BY <1>5, StopKeeps, LoseKeysKeeps, ResetKeeps, Zenon
<1>6. CASE UNCHANGED vars
  <2>1. UNCHANGED <<supervised, nodes, database, keys, memory, minted, dropped, faults>>
    BY <1>6, Zenon DEF vars
  <2>2. Rest' BY <2>1, RestStays, Zenon DEF nodes, database, memory
  <2>3. Selection' BY <2>1, SelectionStays, Zenon DEF database, memory
  <2>4. Ledger' BY <2>1, LedgerKept, Zenon DEF nodes, database
  <2>5. RecordsFit' BY <2>1, RecordsKept, Zenon DEF database
  <2>6. CallsFit' BY <2>1, CallsUntouched, Zenon DEF nodes, database, memory
  <2>7. /\ boot' = boot /\ call' = call /\ supervised' = supervised /\ hosted' = hosted
        /\ rows' = rows /\ ops' = ops /\ served' = served
    BY <2>1, Zenon DEF nodes, database, memory
  <2>8. Starting BY InvParts, Zenon
  <2>9. Starting' BY <2>7, <2>8, Zenon DEF Starting, Up, Owner
  <2> QED BY <2>2, <2>3, <2>4, <2>5, <2>6, <2>9, Zenon DEF WorkspacesInv
<1> QED BY <1>1, <1>2, <1>3, <1>4, <1>5, <1>6, Zenon DEF Next

(* What every call in flight, every start and every record relies on holds *)
(* whatever other calls, crashes and resets come in between.               *)
THEOREM WorkspacesInvariant == Spec => []WorkspacesInv
<1>1. Init => WorkspacesInv BY WorkspacesInit, Zenon
<1>2. WorkspacesInv /\ [Next]_vars => WorkspacesInv' BY WorkspacesNext, Zenon
<1> QED BY <1>1, <1>2, PTL DEF Spec

(* The state keeps its shape.                                              *)
THEOREM WorkspacesTypes == Spec => []TypeOK
<1>1. ASSUME WorkspacesInv PROVE TypeOK
  <2>1. Rest /\ Ledger /\ Selection BY <1>1, InvParts, Zenon
  <2>2. \A i \in DOMAIN admitted : admitted[i] \in ControlOps
    <3>1. admitted \in Seq(ControlOps) BY <2>1, Zenon DEF Rest
    <3> QED BY <3>1
  <2>3. Range(admitted) \subseteq ControlOps BY <2>2, Zenon DEF Range
  <2>4. \A s \in Spaces : served[s] \in {"no", "fresh", "pulled"}
    <3>1. served \in [Spaces -> {"no", "fresh", "pulled"}] BY <2>1, Zenon DEF Rest
    <3> QED BY <3>1, Zenon
  <2>5. author # None => author.grant \in ControlOps BY <1>1, AuthorTyped, Zenon
  <2>6. ASSUME NEW c \in Callers PROVE call[c].at \in Labels
    <3>1. call[c] \in CallType BY <1>1, TypeOfCall, Zenon
    <3> QED BY <3>1, Zenon DEF CallType
  <2> QED BY <2>1, <2>3, <2>4, <2>5, <2>6, Zenon DEF TypeOK, Rest, Ledger
<1> QED BY <1>1, WorkspacesInvariant, PTL

(* A record is in the store only together with the grant it was written    *)
(* under: delete_workspace takes the anchors of the space with all of its  *)
(* records, and nothing else takes a control operation.                    *)
THEOREM RecordsStayAuthorized == Spec => []RecordsAreAuthorized
<1>1. ASSUME WorkspacesInv PROVE RecordsAreAuthorized
  BY <1>1, InvParts, Zenon DEF RecordsFit, RecordsAreAuthorized, AllSpaces
<1> QED BY <1>1, WorkspacesInvariant, PTL

(* A merging pairing is published only when every record of the source     *)
(* that was live when the merge began, and still is unchanged, is in the   *)
(* joined workspace, for every batch size and however other calls write.   *)
THEOREM MergesAreWhole == Spec => []MergeIsWhole
<1>1. ASSUME WorkspacesInv PROVE MergeIsWhole
  <2>1. ASSUME NEW c \in Callers, call[c].at \in {"publish", "configure"}, call[c].merge
        PROVE  \A r \in call[c].wanted \cap LiveHeads(call[c].source) : Joined(r)
    <3>1. call[c].at \in Merging /\ call[c].at \notin Importing
      BY <2>1, Zenon DEF Merging, Importing
    <3>2. Fits(call[c]) BY <1>1, TypeOfCall, Zenon
    <3>3. Merges(call[c]) BY <2>1, <3>1, <3>2, Zenon DEF Fits
    <3> QED BY <3>1, <3>3, Zenon DEF Merges
  <2> QED BY <2>1, Zenon DEF MergeIsWhole, Joined
<1> QED BY <1>1, WorkspacesInvariant, PTL

(* A workspace that was deleted with success is never listed again, by no  *)
(* call that was in flight and by no later start.                          *)
THEOREM DeletedWorkspacesStayDeleted == Spec => []DeletedStaysDeleted
<1>1. ASSUME WorkspacesInv PROVE DeletedStaysDeleted
  <2>1. Ledger BY <1>1, InvParts, Zenon
  <2> QED BY <2>1, Zenon DEF Ledger, DeletedStaysDeleted
<1> QED BY <1>1, WorkspacesInvariant, PTL


(* Only the last step of a start makes a client that is up.                *)
LEMMA CallsNeedUp ==
    ASSUME NEW c \in Callers, CallStep(c) \/ NewCall(c)
    PROVE  Up
<1>1. CASE CallStep(c)
  BY <1>1, Zenon DEF CallStep, In, Post, StoreCreated, ServeCreated, Select, Adopt, Find, Check,
     RemoveHosted, DropDeleted, Forget, Handshake, Count, Offer, Register, Pull, Source,
     ReadBatch, Import, Publish, Configure, Observe, CommitRecord
<1>2. CASE NewCall(c)
  BY <1>2, Zenon DEF NewCall, Begin, CreateWorkspace, ActivateWorkspace, DeleteWorkspace,
     ClaimInvitation, AcceptInvitation, CreateRecord, UpdateRecord
<1> QED BY <1>1, <1>2, Zenon

LEMMA StartsEnd ==
    ASSUME WorkspacesInv, Next, ~Up, Up'
    PROVE  LoadStandalone \/ LoadSupervised
<1>1. boot \in BootType BY InvParts, Zenon DEF Starting
<1>2. ~(\E c \in Callers : CallStep(c) \/ NewCall(c)) BY CallsNeedUp, Zenon
<1>3. ~Worker BY Zenon DEF Worker, FetchPage, CommitPage, AdvanceCursor
<1>4. ASSUME NEW a \in {"create", "open", "recovery", "spaces", "load"}, ToBoot(a) PROVE FALSE
  BY <1>1, <1>4, Zenon DEF ToBoot, BootType, Up
<1>5. ~Prepare
  <2>1. ASSUME Prepare PROVE FALSE
    <3>1. PICK a \in {"create", "open", "recovery", "spaces", "load"} : ToBoot(a)
      BY <2>1, Zenon DEF Prepare
    <3> QED BY <1>4, <3>1, Zenon
  <2> QED BY <2>1, Zenon
<1>6. ~CreateKeys
  <2>1. ASSUME CreateKeys PROVE FALSE
    <3>1. boot' = boot \/ ToBoot("open") BY <2>1, Zenon DEF CreateKeys
    <3>2. ~(boot' = boot) BY Zenon DEF Up
    <3> QED BY <1>4, <3>1, <3>2, Zenon
  <2> QED BY <2>1, Zenon
<1>7. ~Bind
  <2>1. ASSUME Bind PROVE FALSE
    <3>1. ToBoot("load") \/ ToBoot("recovery") BY <2>1, Zenon DEF Bind
    <3> QED BY <1>4, <3>1, Zenon
  <2> QED BY <2>1, Zenon
<1>8. ~Contact BY DEF Contact, Up
<1>9. ~(\E s \in Spaces : BootStore(s)) BY DEF BootStore, Up
<1>10. ~BootServe
  <2>1. ASSUME BootServe PROVE FALSE
    <3>1. ToBoot("spaces") BY <2>1, Zenon DEF BootServe
    <3> QED BY <1>4, <3>1, Zenon
  <2> QED BY <2>1, Zenon
<1>11. Down.at # "up" BY Zenon DEF Down
<1>12. ~Stop /\ ~Reset /\ ~LoseKeys BY <1>11, Zenon DEF Stop, Reset, LoseKeys, memory, Up
<1> QED
  BY <1>2, <1>3, <1>5, <1>6, <1>7, <1>8, <1>9, <1>10, <1>12, Zenon DEF Next, BootStep

(* A start that succeeds leaves a usable active workspace, or none, and a  *)
(* client with a node of its own has every space of it, whatever crash or  *)
(* half-done call the database was left with.                              *)
THEOREM StartsHeal == Spec => StartHeals
<1> DEFINE Healed ==
      /\ author' = AuthorOf(active')
      /\ active' # None => active'.space \in rows' /\ active'.grant \in ops'
      /\ supervised => \A s \in hosted : s \in rows' /\ served'[s] # "no"
<1>1. ASSUME WorkspacesInv, LoadStandalone PROVE Healed
  <2>1. /\ boot.at = "load" /\ author' = AuthorOf(active') /\ active' = KeptStandalone
        /\ rows' = rows /\ ops' = ops
    BY <1>1, Zenon DEF LoadStandalone, Booting
  <2>2. boot.at \in {"create", "open", "load", "recovery"} BY <2>1, Zenon
  <2>3. ~supervised BY <1>1, <2>2, InvParts, Zenon DEF Starting
  <2>4. active' # None => active'.space \in rows' /\ active'.grant \in ops'
    BY <2>1, Zenon DEF KeptStandalone
  <2> QED BY <2>1, <2>3, <2>4, Zenon
<1>2. ASSUME WorkspacesInv, LoadSupervised PROVE Healed
  <2>1. /\ boot.at = "spaces" /\ boot.spaces = {} /\ author' = AuthorOf(active')
        /\ KeptSupervised(active')
        /\ rows' = rows /\ ops' = ops /\ served' = served
    BY <1>2, Zenon DEF LoadSupervised, Booting
  <2>2. boot.at \in {"spaces", "serve"} /\ boot.at # "serve" BY <2>1, Zenon
  <2>3. \A s \in hosted : s \in rows /\ Owner(s) \in ops /\ served[s] # "no"
    BY <1>2, <2>1, <2>2, StartedSpaces, Zenon
  <2>4. active' # None => active'.space \in rows' /\ active'.grant \in ops'
    <3>1. CASE active' = active /\ active.space \in hosted /\ active.grant \in ops
      BY <2>1, <2>3, <3>1, Zenon
    <3>2. ASSUME NEW s \in hosted, active' = [space |-> s, grant |-> Owner(s), peer |-> "own"]
          PROVE  active'.space \in rows' /\ active'.grant \in ops'
      <4>1. active'.space = s /\ active'.grant = Owner(s) BY <3>2, Zenon
      <4> QED BY <2>1, <2>3, <4>1, Zenon
    <3> QED BY <2>1, <3>1, <3>2, Zenon DEF KeptSupervised
  <2> QED BY <2>1, <2>3, <2>4, Zenon
<1>3. WorkspacesInv /\ [Next]_vars => [~Up /\ Up' => Healed]_vars
  <2>1. ASSUME WorkspacesInv, Next, ~Up, Up' PROVE Healed
    BY <1>1, <1>2, <2>1, StartsEnd, Zenon
  <2> QED BY <2>1, Zenon
<1> QED BY <1>3, WorkspacesInvariant, PTL DEF Spec, StartHeals

===============================================================================
