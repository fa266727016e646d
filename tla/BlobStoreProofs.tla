---------------------------- MODULE BlobStoreProofs ----------------------------
(***************************************************************************)
(* The safety properties of BlobStore for every set of uploads and         *)
(* contents and every number of faults, from one inductive invariant.      *)
(*                                                                         *)
(* A rename whose directory was not synchronized when a request failed or  *)
(* the process ended stays unsynchronized, and recovery trusts the file it *)
(* finds; a later loss of power would take it back.  FaultsApart excludes  *)
(* this: power is not lost in a run in which a call failed or the process  *)
(* ended.                                                                  *)
(***************************************************************************)
EXTENDS BlobStore, TLAPS

FaultsApart == \A b \in Budgets : b.losses > 0 => b.errors = 0 /\ b.crashes = 0

Clean == counts.errors = 0 /\ counts.crashes = 0

(* What the row and the staging file of an upload say.                     *)
RowSound(u) ==
    LET s == session[u] IN
    /\ s.offset = Len(accepted[u])
    /\ s.state = "active" =>
          IF staging[u] = None THEN u \in expired /\ ~IsFull(u)
          ELSE Len(staging[u]) >= s.offset /\ Truncated(u) = accepted[u]
    /\ s.state = "active" /\ IsFull(u) =>
          staging[u] = accepted[u] /\ s.expected \in {None, accepted[u]}
    /\ s.state # "active" =>
          s.final = accepted[u] /\ IsFull(u) /\ s.expected \in {None, s.final}
    /\ s.state = "finalizing" /\ Untouched =>
          staging[u] = accepted[u] \/ file[s.final] = s.final

(* What a request relies on between two of its steps.                      *)
StepSound(u) ==
    LET s == session[u] IN
    /\ step[u] = "created" => u \notin fresh /\ staging[u] = <<>>
    /\ step[u] \notin {"idle", "created"} => Known(u)
    /\ step[u] = "written" => /\ s.state = "active" /\ ~IsFull(u)
                              /\ staging[u] \in Contents
                              /\ staging[u] = accepted[u] \o chunk[u]
    /\ step[u] = "full" => s.state = "active" /\ IsFull(u)
    /\ step[u] \in {"begun", "renamed", "published"} => s.state = "finalizing"
    /\ step[u] = "renamed" => publisher = u
    /\ step[u] \in {"renamed", "published"} /\ Untouched => file[s.final] = s.final
    /\ step[u] = "discarding" => phase = "expire"

UploadSound(u) ==
    /\ u \in fresh \/ step[u] = "created" => ~Known(u) /\ accepted[u] = <<>>
    /\ Known(u) => RowSound(u)
    /\ StepSound(u)

(* Where recover() is.                                                     *)
PhaseSound ==
    /\ phase \in {"down", "orphans"} => Quiet
    /\ phase = "expire" => \A u \in Uploads : /\ ~NeedsFinalization(u)
                                              /\ step[u] \in {"idle", "discarding"}

(* While no call failed and the process did not end, a rename is only      *)
(* unsynchronized while its request holds publication_lock, and nothing    *)
(* else depends on the renamed file yet.                                   *)
RenameSound ==
    Clean =>
      /\ \A u \in Uploads, c \in Contents :
            <<u, c>> \in unsynced => step[u] = "renamed" /\ session[u].final = c
      /\ Untouched => \A u \in Uploads : step[u] = "renamed" =>
            /\ session[u].final \notin blobs
            /\ \A v \in Uploads \ {u} :
                  /\ Known(v) /\ session[v].state = "finalizing"
                  /\ session[v].final = session[u].final
                  => staging[v] = accepted[v] /\ step[v] # "published"

CacheSound(c) ==
    /\ verified[c] <= version[c]
    /\ verified[c] = version[c] => file[c] = c
    /\ reading[c] # None =>
          /\ reading[c].version <= version[c]
          /\ reading[c].intact /\ reading[c].version = version[c] => file[c] = c

BlobInv ==
    /\ TypeOK
    /\ \A u \in Uploads : UploadSound(u)
    /\ PhaseSound
    /\ RenameSound
    /\ BlobsAreWhole
    /\ \A c \in Contents : CacheSound(c)

-------------------------------------------------------------------------------
(* Sequences of bytes.                                                     *)

LEMMA NoneIsApart == None \notin Contents /\ None \notin Uploads /\ None \notin Session
BY BlobAssumption, Zenon

LEMMA Prefixes ==
    ASSUME NEW s \in Seq(Bytes)
    PROVE  /\ Len(s) \in Nat /\ SubSeq(s, 1, Len(s)) = s
           /\ \A i, j \in 1..Len(s) : SubSeq(s, i, j) \in Seq(Bytes)
           /\ Len(s) = 0 => s = <<>>
  <1>1. Len(s) \in Nat
    OBVIOUS
  <1>2. SubSeq(s, 1, Len(s)) = s /\ (Len(s) = 0 => s = <<>>)
    OBVIOUS
  <1>3. \A i, j \in 1..Len(s) : SubSeq(s, i, j) \in Seq(Bytes)
    OBVIOUS
  <1> QED BY <1>1, <1>2, <1>3, Zenon

LEMMA Extensions ==
    ASSUME NEW s \in Seq(Bytes), NEW t \in Seq(Bytes)
    PROVE  /\ Len(s \o t) = Len(s) + Len(t)
           /\ SubSeq(s \o t, 1, Len(s)) = s
  <1>1. Len(s \o t) = Len(s) + Len(t)
    OBVIOUS
  <1>2. SubSeq(s \o t, 1, Len(s)) = s
    OBVIOUS
  <1> QED BY <1>1, <1>2, Zenon

LEMMA Empties == <<>> \in Seq(Bytes) /\ Len(<<>>) = 0 /\ SubSeq(<<>>, 1, 0) = <<>>
OBVIOUS

LEMMA ContentTypes ==
    /\ \A c \in Contents : c \in Seq(Bytes) /\ Len(c) \in Nat /\ Len(c) \in Lengths
    /\ Lengths \subseteq Nat
    /\ <<>> \in Contents /\ Len(<<>>) = 0
  <1>1. \A c \in Contents : c \in Seq(Bytes) /\ Len(c) \in Nat /\ Len(c) \in Lengths
    BY BlobAssumption, Prefixes, Zenon DEF Lengths
  <1>2. Lengths \subseteq Nat
    BY <1>1, Zenon DEF Lengths
  <1>3. <<>> \in Contents /\ Len(<<>>) = 0
    BY BlobAssumption, Empties, Zenon
  <1> QED BY <1>1, <1>2, <1>3, Zenon

LEMMA ChunkTypes == \A b \in Chunks \cup {<<>>} : b \in Seq(Bytes) /\ Len(b) \in Nat
  <1>1. ASSUME NEW c \in Contents, NEW i \in 1..Len(c), NEW j \in 1..Len(c)
        PROVE  SubSeq(c, i, j) \in Seq(Bytes)
    BY ContentTypes, Prefixes, Zenon
  <1>2. ASSUME NEW b \in Chunks PROVE b \in Seq(Bytes)
    <2>1. PICK c \in Contents : b \in {SubSeq(c, i, j) : i, j \in 1..Len(c)}
      BY DEF Chunks
    <2>2. PICK i \in 1..Len(c), j \in 1..Len(c) : b = SubSeq(c, i, j)
      BY <2>1
    <2> QED BY <1>1, <2>2, Zenon
  <1> QED BY <1>2, Empties, Prefixes, Zenon

-------------------------------------------------------------------------------
(* What a step leaves alone.                                               *)

Same(v) ==
    /\ session'[v] = session[v] /\ staging'[v] = staging[v]
    /\ accepted'[v] = accepted[v] /\ step'[v] = step[v] /\ chunk'[v] = chunk[v]

Others(u) == \A v \in Uploads \ {u} : Same(v)

(* No fault, or one after which power is not lost any more.                *)
FaultStep == (~Clean' \/ counts' = counts) /\ (Untouched' <=> Untouched)

FilesKept == Untouched' => Untouched /\ \A c \in Contents : file[c] = c => file'[c] = c

LEMMA UploadKept ==
    ASSUME TypeOK, NEW v \in Uploads, UploadSound(v), Same(v), FilesKept,
           v \in fresh' => v \in fresh, v \in expired => v \in expired',
           step[v] = "renamed" => publisher' = publisher,
           step[v] = "discarding" => phase' = phase
    PROVE  UploadSound(v)'
  <1> DEFINE s == session[v]
  <1>1. accepted[v] \in Contents
    BY Zenon DEF TypeOK
  <1>2. Known(v)' = Known(v) /\ IsFull(v)' = IsFull(v) /\ Truncated(v)' = Truncated(v)
    BY Zenon DEF Same, Known, IsFull, Truncated
  <1>3. Known(v)' => RowSound(v)'
    <2> SUFFICES ASSUME Known(v)' PROVE RowSound(v)'
      BY Zenon
    <2>1. RowSound(v)
      BY <1>2, Zenon DEF UploadSound
    <2>2. s.state = "finalizing" /\ Untouched' =>
             staging'[v] = accepted'[v] \/ file'[s.final] = s.final
      BY <1>1, <2>1, Zenon DEF RowSound, FilesKept, Same
    <2> QED BY <1>2, <2>1, <2>2, Zenon DEF RowSound, Same
  <1>4. StepSound(v)'
    <2>1. StepSound(v)
      BY Zenon DEF UploadSound
    <2>2. step[v] \in {"renamed", "published"} /\ Untouched' => file'[s.final] = s.final
      <3> SUFFICES ASSUME step[v] \in {"renamed", "published"}, Untouched'
                   PROVE  file'[s.final] = s.final
        BY Zenon
      <3>1. Known(v) /\ s.state = "finalizing"
        BY <2>1, Zenon DEF StepSound
      <3>2. s.final \in Contents
        BY <1>1, <3>1, Zenon DEF UploadSound, RowSound
      <3> QED BY <2>1, <3>2, Zenon DEF StepSound, FilesKept
    <2> QED BY <1>2, <2>1, <2>2, Zenon DEF StepSound, Same
  <1> QED BY <1>2, <1>3, <1>4, Zenon DEF UploadSound, Same

LEMMA OthersKept ==
    ASSUME TypeOK, \A v \in Uploads : UploadSound(v), NEW u \in Uploads, Others(u), FilesKept,
           fresh' \subseteq fresh, expired \ {u} \subseteq expired',
           \A v \in Uploads \ {u} : step[v] = "renamed" => publisher' = publisher,
           phase' = phase, UploadSound(u)'
    PROVE  (\A v \in Uploads : UploadSound(v))'
  <1>1. ASSUME NEW v \in Uploads \ {u} PROVE UploadSound(v)'
    BY UploadKept, Zenon DEF Others
  <1> QED BY <1>1, Zenon

LEMMA CacheKept ==
    ASSUME \A c \in Contents : CacheSound(c), UNCHANGED <<file, verified, reading, version>>
    PROVE  (\A c \in Contents : CacheSound(c))'
BY Zenon DEF CacheSound

LEMMA SufferTakes ==
    ASSUME NEW kind \in {"errors", "crashes", "losses", "tampers"}, counts \in Counts,
           Suffer(kind)
    PROVE  /\ counts' \in Counts
           /\ kind \in {"errors", "crashes"} => ~Clean'
           /\ kind \in {"losses", "tampers"} => (Clean' <=> Clean)
           /\ kind = "tampers" => ~Untouched'
           /\ kind # "tampers" => (Untouched' <=> Untouched)
  <1>1. counts' = [counts EXCEPT ![kind] = @ + 1]
    BY Zenon DEF Suffer
  <1>2. counts' = [counts EXCEPT ![kind] = counts[kind] + 1]
    BY <1>1, Zenon
  <1>3. /\ counts.errors \in Nat /\ counts.crashes \in Nat
        /\ counts.losses \in Nat /\ counts.tampers \in Nat
    BY Zenon DEF Counts
  <1> QED BY <1>2, <1>3 DEF Counts, Clean, Untouched

(* A step of the upload u that neither starts nor ends the publication of  *)
(* a file.                                                                 *)
LEMMA RenamesKept ==
    ASSUME RenameSound, NEW u \in Uploads, Others(u),
           counts' = counts \/ ~Clean',
           unsynced' = unsynced,
           \A w \in Uploads : Clean /\ Untouched /\ step[w] = "renamed" =>
              session[w].final \notin blobs',
           step[u] # "renamed", step'[u] # "renamed",
           \A w \in Uploads : step[w] = "renamed" =>
              \/ ~(Known(u)' /\ session'[u].state = "finalizing")
              \/ staging'[u] = accepted'[u] /\ step'[u] # "published"
    PROVE  RenameSound'
  <1> SUFFICES ASSUME Clean' PROVE RenameSound'
    BY Zenon DEF RenameSound
  <1>1. Clean /\ (Untouched' <=> Untouched)
    BY Zenon DEF Clean, Untouched
  <1>2. ASSUME NEW v \in Uploads, NEW c \in Contents, <<v, c>> \in unsynced'
        PROVE  step'[v] = "renamed" /\ session'[v].final = c
    BY <1>1, <1>2 DEF RenameSound, Others, Same
  <1>3. ASSUME Untouched', NEW w \in Uploads, step'[w] = "renamed"
        PROVE  /\ session'[w].final \notin blobs'
               /\ \A v \in Uploads \ {w} :
                     /\ Known(v)' /\ session'[v].state = "finalizing"
                     /\ session'[v].final = session'[w].final
                     => staging'[v] = accepted'[v] /\ step'[v] # "published"
    <2>1. w # u /\ Same(w) /\ step[w] = "renamed"
      BY <1>3, Zenon DEF Others, Same
    <2>2. session'[w].final \notin blobs'
      BY <1>1, <1>3, <2>1, Zenon DEF Same
    <2>3. ASSUME NEW v \in Uploads \ {w}, v # u, Known(v)',
                 session'[v].state = "finalizing", session'[v].final = session'[w].final
          PROVE  staging'[v] = accepted'[v] /\ step'[v] # "published"
      <3>1. Same(v) /\ Known(v)
        BY <2>3, Zenon DEF Others, Same, Known
      <3> QED BY <1>1, <1>3, <2>1, <2>3, <3>1 DEF RenameSound, Same
    <2>4. Known(u)' /\ session'[u].state = "finalizing" =>
             staging'[u] = accepted'[u] /\ step'[u] # "published"
      BY <2>1, Zenon
    <2> QED BY <2>2, <2>3, <2>4, Zenon
  <1> QED BY <1>2, <1>3, Zenon DEF RenameSound

LEMMA RequestSound ==
    ASSUME BlobInv, NEW u \in Uploads, Others(u), TypeOK', UploadSound(u)', PhaseSound',
           FaultStep,
           UNCHANGED <<blobs, file, unsynced, publisher, verified, reading, phase, version>>,
           fresh' \subseteq fresh, expired \ {u} \subseteq expired',
           step[u] # "renamed", step'[u] # "renamed",
           \A w \in Uploads : step[w] = "renamed" =>
              \/ ~(Known(u)' /\ session'[u].state = "finalizing")
              \/ staging'[u] = accepted'[u] /\ step'[u] # "published"
    PROVE  BlobInv'
  <1>1. (Untouched' <=> Untouched) /\ (counts' = counts \/ ~Clean')
    BY Zenon DEF FaultStep
  <1>2. FilesKept
    BY <1>1, Zenon DEF FilesKept
  <1>3. (\A v \in Uploads : UploadSound(v))'
    BY <1>2, OthersKept, Zenon DEF BlobInv
  <1>4. RenameSound'
    <2>1. \A w \in Uploads : Clean /\ Untouched /\ step[w] = "renamed" =>
             session[w].final \notin blobs'
      BY Zenon DEF BlobInv, RenameSound
    <2> QED BY <1>1, <2>1, RenamesKept, Zenon DEF BlobInv
  <1>5. BlobsAreWhole'
    BY <1>1, Zenon DEF BlobInv, BlobsAreWhole
  <1>6. (\A c \in Contents : CacheSound(c))'
    BY CacheKept, Zenon DEF BlobInv
  <1> QED BY <1>3, <1>4, <1>5, <1>6, Zenon DEF BlobInv

LEMMA MoveTakes ==
    ASSUME TypeOK, NEW u \in Uploads, NEW from, NEW to \in Steps, Move(u, from, to)
    PROVE  /\ step[u] = from /\ step'[u] = to /\ step' \in [Uploads -> Steps]
           /\ \A v \in Uploads \ {u} : step'[v] = step[v]
BY Zenon DEF Move, TypeOK

LEMMA RequestPhase ==
    ASSUME BlobInv, NEW u \in Uploads, step[u] \notin {"idle", "discarding"}
    PROVE  phase \in {"up", "finalize"}
BY Zenon DEF BlobInv, TypeOK, Phases, PhaseSound, Quiet

LEMMA WorkingPhase ==
    ASSUME phase \in {"up", "finalize"}, phase' = phase
    PROVE  PhaseSound'
BY Zenon DEF PhaseSound

-------------------------------------------------------------------------------
(* Creating an upload.                                                     *)

LEMMA CreateFileSound ==
    ASSUME BlobInv, NEW u \in Uploads, CreateFile(u)
    PROVE  BlobInv'
  <1>1. /\ phase = "up" /\ u \in fresh /\ Move(u, "idle", "created")
        /\ fresh' = fresh \ {u} /\ staging' = [staging EXCEPT ![u] = <<>>]
        /\ UNCHANGED <<session, blobs, file, unsynced, chunk, publisher, verified, reading,
                       expired, phase, version, accepted, counts>>
    BY Zenon DEF CreateFile
  <1>2. TypeOK /\ UploadSound(u)
    BY Zenon DEF BlobInv
  <1>3. /\ step[u] = "idle" /\ step'[u] = "created" /\ step' \in [Uploads -> Steps]
        /\ \A v \in Uploads \ {u} : step'[v] = step[v]
    BY <1>1, <1>2, MoveTakes, Zenon DEF Steps
  <1>4. staging'[u] = <<>> /\ \A v \in Uploads \ {u} : staging'[v] = staging[v]
    BY <1>1, <1>2, Zenon DEF TypeOK
  <1>5. Others(u)
    BY <1>1, <1>3, <1>4, Zenon DEF Others, Same
  <1>6. TypeOK'
    BY <1>1, <1>2, <1>3, ContentTypes, Zenon DEF TypeOK
  <1>7. UploadSound(u)'
    BY <1>1, <1>2, <1>3, <1>4, Zenon DEF UploadSound, StepSound, Known
  <1>8. PhaseSound'
    BY <1>1, WorkingPhase, Zenon
  <1>9. ~Known(u)'
    BY <1>1, <1>2, Zenon DEF UploadSound, Known
  <1>10. fresh' \subseteq fresh /\ expired \ {u} \subseteq expired' /\ FaultStep
    BY <1>1, Zenon DEF FaultStep, Untouched
  <1> QED
    BY <1>1, <1>3, <1>5, <1>6, <1>7, <1>8, <1>9, <1>10, RequestSound, Zenon

LEMMA CreateSessionSound ==
    ASSUME BlobInv, NEW u \in Uploads, NEW n \in Lengths, NEW e \in Declarations \cup {None},
           CreateSession(u, n, e)
    PROVE  BlobInv'
  <1> DEFINE to == IF n = 0 THEN "full" ELSE "idle"
             row == [length |-> n, offset |-> 0, state |-> "active", expected |-> e,
                     final |-> None]
  <1>1. /\ n = 0 /\ e # None => e = <<>>
        /\ Move(u, "created", to) /\ session' = [session EXCEPT ![u] = row]
        /\ UNCHANGED <<blobs, staging, file, unsynced, chunk, publisher, verified, reading,
                       expired, phase, version, fresh, accepted, counts>>
    BY Zenon DEF CreateSession
  <1>2. TypeOK /\ UploadSound(u)
    BY Zenon DEF BlobInv
  <1>3. /\ step[u] = "created" /\ step'[u] = to /\ step' \in [Uploads -> Steps]
        /\ \A v \in Uploads \ {u} : step'[v] = step[v]
    BY <1>1, <1>2, MoveTakes, Zenon DEF Steps
  <1>4. row \in Session
    BY ContentTypes, Zenon DEF Session, Lengths
  <1>5. session'[u] = row /\ \A v \in Uploads \ {u} : session'[v] = session[v]
    BY <1>1, <1>2, Zenon DEF TypeOK
  <1>6. Others(u)
    BY <1>1, <1>3, <1>5, Zenon DEF Others, Same
  <1>7. TypeOK'
    BY <1>1, <1>2, <1>3, <1>4, Zenon DEF TypeOK
  <1>8. /\ session'[u].length = n /\ session'[u].offset = 0 /\ session'[u].state = "active"
        /\ session'[u].expected = e
    BY <1>5
  <1>9. staging'[u] = <<>> /\ accepted'[u] = <<>> /\ u \notin fresh' /\ <<>> # None
    BY <1>1, <1>2, <1>3, ContentTypes, NoneIsApart, Zenon DEF UploadSound, StepSound
  <1>10. Truncated(u)' = <<>>
    <2>1. SubSeq(<<>>, 1, 0) = <<>>
      BY Empties, Zenon
    <2> QED BY <1>8, <1>9, <2>1, Zenon DEF Truncated
  <1>11. RowSound(u)'
    BY <1>1, <1>8, <1>9, <1>10, ContentTypes DEF RowSound, IsFull
  <1>12. StepSound(u)'
    <2>1. Known(u)'
      BY <1>4, <1>5, NoneIsApart, Zenon DEF Known
    <2>2. step'[u] = "full" => IsFull(u)'
      BY <1>3, <1>8, Zenon DEF IsFull
    <2> QED BY <1>3, <1>8, <2>1, <2>2, Zenon DEF StepSound
  <1>13. UploadSound(u)'
    BY <1>3, <1>9, <1>11, <1>12, Zenon DEF UploadSound
  <1>14. PhaseSound'
    BY <1>1, <1>3, RequestPhase, WorkingPhase, Zenon
  <1>15. /\ step[u] # "renamed" /\ step'[u] # "renamed"
         /\ session'[u].state # "finalizing" /\ FaultStep
    BY <1>1, <1>3, <1>8, Zenon DEF FaultStep, Untouched
  <1> HIDE DEF row, to
  <1> QED
    BY <1>1, <1>6, <1>7, <1>13, <1>14, <1>15, RequestSound, Zenon

LEMMA CreateFailsSound ==
    ASSUME BlobInv, NEW u \in Uploads, CreateFails(u)
    PROVE  BlobInv'
  <1>1. /\ Move(u, "created", "idle") /\ Suffer("errors")
        /\ staging' = [staging EXCEPT ![u] = None]
        /\ UNCHANGED <<session, blobs, file, unsynced, chunk, publisher, verified, reading,
                       expired, phase, version, fresh, accepted>>
    BY Zenon DEF CreateFails
  <1>2. TypeOK /\ UploadSound(u)
    BY Zenon DEF BlobInv
  <1>3. /\ step[u] = "created" /\ step'[u] = "idle" /\ step' \in [Uploads -> Steps]
        /\ \A v \in Uploads \ {u} : step'[v] = step[v]
    BY <1>1, <1>2, MoveTakes, Zenon DEF Steps
  <1>4. \A v \in Uploads \ {u} : staging'[v] = staging[v]
    BY <1>1, <1>2, Zenon DEF TypeOK
  <1>5. Others(u)
    BY <1>1, <1>3, <1>4, Zenon DEF Others, Same
  <1>6. counts' \in Counts /\ FaultStep
    BY <1>1, <1>2, SufferTakes, Zenon DEF TypeOK, FaultStep
  <1>7. TypeOK'
    BY <1>1, <1>2, <1>3, <1>6, Zenon DEF TypeOK
  <1>8. ~Known(u)' /\ accepted'[u] = <<>>
    BY <1>1, <1>2, <1>3, Zenon DEF UploadSound, Known
  <1>9. UploadSound(u)'
    BY <1>3, <1>8, Zenon DEF UploadSound, StepSound
  <1>10. PhaseSound'
    BY <1>1, <1>3, RequestPhase, WorkingPhase, Zenon
  <1> QED
    BY <1>1, <1>3, <1>5, <1>6, <1>7, <1>8, <1>9, <1>10, RequestSound, Zenon

-------------------------------------------------------------------------------
(* Appending to an upload.                                                 *)

LEMMA KnownRow ==
    ASSUME BlobInv, NEW u \in Uploads, Known(u)
    PROVE  /\ session[u] \in Session /\ RowSound(u) /\ u \notin fresh /\ step[u] # "created"
           /\ session[u].offset \in Nat /\ session[u].length \in Nat
           /\ session[u].offset = Len(accepted[u])
           /\ session[u].state \in {"active", "finalizing", "complete"}
           /\ accepted[u] \in Contents /\ accepted[u] \in Seq(Bytes)
  <1>1. session[u] \in Session /\ accepted[u] \in Contents
    BY Zenon DEF BlobInv, TypeOK, Known
  <1>2. UploadSound(u)
    BY Zenon DEF BlobInv
  <1>3. RowSound(u) /\ u \notin fresh /\ step[u] # "created"
    BY <1>2, Zenon DEF UploadSound
  <1>4. session[u].offset = Len(accepted[u])
    BY <1>3, Zenon DEF RowSound
  <1> QED BY <1>1, <1>3, <1>4, ContentTypes, Zenon DEF Session

LEMMA AppendTakes ==
    ASSUME BlobInv, NEW u \in Uploads, NEW bytes \in Chunks, Appendable(u, bytes)
    PROVE  LET t == Truncated(u) \o bytes IN
           /\ Known(u) /\ session[u].state = "active" /\ ~IsFull(u)
           /\ t = accepted[u] \o bytes /\ t \in Contents /\ t # None
           /\ Len(t) >= session[u].offset
           /\ SubSeq(t, 1, session[u].offset) = accepted[u]
  <1> DEFINE t == accepted[u] \o bytes
  <1>1. /\ Known(u) /\ session[u].state = "active" /\ bytes # <<>>
        /\ session[u].offset + Len(bytes) <= session[u].length
        /\ staging[u] # None /\ Truncated(u) \o bytes \in Contents
    BY Zenon DEF Appendable
  <1>2. /\ RowSound(u) /\ session[u].offset \in Nat /\ session[u].length \in Nat
        /\ session[u].offset = Len(accepted[u]) /\ accepted[u] \in Seq(Bytes)
    BY <1>1, KnownRow, Zenon
  <1>3. Truncated(u) = accepted[u]
    BY <1>1, <1>2, Zenon DEF RowSound
  <1>4. bytes \in Seq(Bytes) /\ Len(bytes) \in Nat \ {0}
    BY <1>1, ChunkTypes, Empties
  <1>5. ~IsFull(u)
    BY <1>1, <1>2, <1>4 DEF IsFull
  <1>6. /\ Len(t) = Len(accepted[u]) + Len(bytes)
        /\ SubSeq(t, 1, Len(accepted[u])) = accepted[u]
    BY <1>2, <1>4, Extensions, Zenon
  <1>7. t \in Contents /\ t # None
    BY <1>1, <1>3, NoneIsApart, Zenon
  <1> QED BY <1>1, <1>2, <1>3, <1>4, <1>5, <1>6, <1>7

LEMMA WriteChunkSound ==
    ASSUME BlobInv, NEW u \in Uploads, NEW bytes \in Chunks, WriteChunk(u, bytes)
    PROVE  BlobInv'
  <1> DEFINE t == Truncated(u) \o bytes
  <1>1. /\ Appendable(u, bytes) /\ Move(u, "idle", "written")
        /\ staging' = [staging EXCEPT ![u] = t] /\ chunk' = [chunk EXCEPT ![u] = bytes]
        /\ UNCHANGED <<session, blobs, file, unsynced, publisher, verified, reading,
                       expired, phase, version, fresh, accepted, counts>>
    BY Zenon DEF WriteChunk
  <1>2. TypeOK /\ UploadSound(u)
    BY Zenon DEF BlobInv
  <1>3. /\ step[u] = "idle" /\ step'[u] = "written" /\ step' \in [Uploads -> Steps]
        /\ \A v \in Uploads \ {u} : step'[v] = step[v]
    BY <1>1, <1>2, MoveTakes, Zenon DEF Steps
  <1>4. /\ Known(u) /\ session[u].state = "active" /\ ~IsFull(u)
        /\ t = accepted[u] \o bytes /\ t \in Contents /\ t # None
        /\ Len(t) >= session[u].offset /\ SubSeq(t, 1, session[u].offset) = accepted[u]
    BY <1>1, AppendTakes, Zenon
  <1> HIDE DEF t
  <1>5. /\ staging'[u] = t /\ chunk'[u] = bytes
        /\ \A v \in Uploads \ {u} : staging'[v] = staging[v] /\ chunk'[v] = chunk[v]
    BY <1>1, <1>2, Zenon DEF TypeOK
  <1>6. Others(u)
    BY <1>1, <1>3, <1>5, Zenon DEF Others, Same
  <1>7. TypeOK'
    BY <1>1, <1>2, <1>3, <1>4, Zenon DEF TypeOK
  <1>8. Known(u)' /\ ~IsFull(u)' /\ Truncated(u)' = accepted[u]
    BY <1>1, <1>4, <1>5, Zenon DEF Known, IsFull, Truncated
  <1>9. RowSound(u) /\ u \notin fresh
    BY <1>4, KnownRow, Zenon
  <1>10. RowSound(u)'
    BY <1>1, <1>4, <1>5, <1>8, <1>9, Zenon DEF RowSound
  <1>11. StepSound(u)'
    BY <1>1, <1>3, <1>4, <1>5, <1>8, Zenon DEF StepSound
  <1>12. UploadSound(u)'
    BY <1>1, <1>3, <1>9, <1>10, <1>11, Zenon DEF UploadSound
  <1>13. PhaseSound' /\ FaultStep
    BY <1>1, WorkingPhase, Zenon DEF Appendable, FaultStep, Untouched
  <1> QED
    BY <1>1, <1>3, <1>4, <1>6, <1>7, <1>12, <1>13, RequestSound, Zenon

LEMMA WriteFailsSound ==
    ASSUME BlobInv, NEW u \in Uploads, NEW bytes \in Chunks, WriteFails(u, bytes)
    PROVE  BlobInv'
  <1> DEFINE t == Truncated(u) \o bytes
  <1>1. /\ Appendable(u, bytes) /\ staging' = [staging EXCEPT ![u] = t] /\ Suffer("errors")
        /\ UNCHANGED <<session, blobs, file, unsynced, step, chunk, publisher, verified,
                       reading, expired, phase, version, fresh, accepted>>
    BY Zenon DEF WriteFails, volatile
  <1>2. TypeOK /\ UploadSound(u) /\ step[u] = "idle"
    BY <1>1, Zenon DEF BlobInv, Appendable
  <1>3. /\ Known(u) /\ session[u].state = "active" /\ ~IsFull(u)
        /\ t \in Contents /\ t # None
        /\ Len(t) >= session[u].offset /\ SubSeq(t, 1, session[u].offset) = accepted[u]
    BY <1>1, AppendTakes, Zenon
  <1> HIDE DEF t
  <1>4. staging'[u] = t /\ \A v \in Uploads \ {u} : staging'[v] = staging[v]
    BY <1>1, <1>2, Zenon DEF TypeOK
  <1>5. Others(u)
    BY <1>1, <1>4, Zenon DEF Others, Same
  <1>6. counts' \in Counts /\ FaultStep
    BY <1>1, <1>2, SufferTakes, Zenon DEF TypeOK, FaultStep
  <1>7. TypeOK'
    BY <1>1, <1>2, <1>3, <1>6, Zenon DEF TypeOK
  <1>8. Known(u)' /\ ~IsFull(u)' /\ Truncated(u)' = accepted[u]
    BY <1>1, <1>3, <1>4, Zenon DEF Known, IsFull, Truncated
  <1>9. RowSound(u) /\ u \notin fresh
    BY <1>3, KnownRow, Zenon
  <1>10. RowSound(u)'
    BY <1>1, <1>3, <1>4, <1>8, <1>9, Zenon DEF RowSound
  <1>11. StepSound(u)'
    BY <1>1, <1>2, Zenon DEF StepSound
  <1>12. UploadSound(u)'
    BY <1>1, <1>2, <1>9, <1>10, <1>11, Zenon DEF UploadSound
  <1>13. PhaseSound'
    BY <1>1, WorkingPhase, Zenon DEF Appendable
  <1> QED
    BY <1>1, <1>2, <1>3, <1>5, <1>6, <1>7, <1>12, <1>13, RequestSound, Zenon

(* The staging file of a request between write and commit.                 *)
LEMMA WrittenTakes ==
    ASSUME BlobInv, NEW u \in Uploads, step[u] = "written"
    PROVE  /\ Known(u) /\ session[u].state = "active" /\ ~IsFull(u)
           /\ staging[u] \in Contents /\ staging[u] # None
           /\ staging[u] = accepted[u] \o chunk[u] /\ Truncated(u) = accepted[u]
           /\ NewOffset(u) = Len(staging[u]) /\ NewOffset(u) \in Lengths
           /\ SubSeq(staging[u], 1, NewOffset(u)) = staging[u]
  <1>1. StepSound(u)
    BY Zenon DEF BlobInv, UploadSound
  <1>2. /\ Known(u) /\ session[u].state = "active" /\ ~IsFull(u)
        /\ staging[u] \in Contents /\ staging[u] = accepted[u] \o chunk[u]
    BY <1>1, Zenon DEF StepSound
  <1>3. staging[u] # None
    BY <1>2, NoneIsApart, Zenon
  <1>4. /\ RowSound(u) /\ session[u].offset = Len(accepted[u]) /\ accepted[u] \in Seq(Bytes)
    BY <1>2, KnownRow, Zenon
  <1>5. Truncated(u) = accepted[u]
    BY <1>2, <1>3, <1>4, Zenon DEF RowSound
  <1>6. chunk[u] \in Seq(Bytes)
    BY ChunkTypes, Zenon DEF BlobInv, TypeOK
  <1>7. NewOffset(u) = Len(staging[u])
    BY <1>2, <1>4, <1>6, Extensions, Zenon DEF NewOffset
  <1>8. SubSeq(staging[u], 1, Len(staging[u])) = staging[u]
    BY <1>2, ContentTypes, Prefixes, Zenon
  <1> QED BY <1>2, <1>3, <1>5, <1>7, <1>8, ContentTypes, Zenon

LEMMA RejectDigestSound ==
    ASSUME BlobInv, NEW u \in Uploads, RejectDigest(u)
    PROVE  BlobInv'
  <1>1. /\ Move(u, "written", "idle") /\ staging' = [staging EXCEPT ![u] = Truncated(u)]
        /\ chunk' = [chunk EXCEPT ![u] = <<>>]
        /\ UNCHANGED <<session, blobs, file, unsynced, publisher, verified, reading, expired,
                       phase, version, fresh, accepted, counts>>
    BY Zenon DEF RejectDigest
  <1>2. TypeOK
    BY Zenon DEF BlobInv
  <1>3. /\ step[u] = "written" /\ step'[u] = "idle" /\ step' \in [Uploads -> Steps]
        /\ \A v \in Uploads \ {u} : step'[v] = step[v]
    BY <1>1, <1>2, MoveTakes, Zenon DEF Steps
  <1>4. Known(u) /\ session[u].state = "active" /\ ~IsFull(u) /\ Truncated(u) = accepted[u]
    BY <1>3, WrittenTakes, Zenon
  <1>5. /\ RowSound(u) /\ u \notin fresh /\ accepted[u] \in Contents /\ accepted[u] # None
        /\ session[u].offset = Len(accepted[u])
    BY <1>4, KnownRow, NoneIsApart, Zenon
  <1>6. /\ staging'[u] = accepted[u]
        /\ \A v \in Uploads \ {u} : staging'[v] = staging[v] /\ chunk'[v] = chunk[v]
    BY <1>1, <1>2, <1>4, Zenon DEF TypeOK
  <1>7. Others(u)
    BY <1>1, <1>3, <1>6, Zenon DEF Others, Same
  <1>8. TypeOK'
    BY <1>1, <1>2, <1>3, <1>4, <1>5, Zenon DEF TypeOK
  <1>9. Known(u)' /\ ~IsFull(u)'
    BY <1>1, <1>4, Zenon DEF Known, IsFull
  <1>10. Truncated(u)' = accepted[u] /\ Len(accepted[u]) >= session[u].offset
    <2>1. accepted[u] \in Seq(Bytes) /\ Len(accepted[u]) \in Nat
      BY <1>5, ContentTypes, Zenon
    <2>2. SubSeq(accepted[u], 1, Len(accepted[u])) = accepted[u]
      BY <2>1, Prefixes, Zenon
    <2>3. Truncated(u)' = SubSeq(accepted[u], 1, Len(accepted[u]))
      BY <1>1, <1>5, <1>6, Zenon DEF Truncated
    <2> QED BY <1>5, <2>1, <2>2, <2>3
  <1>11. RowSound(u)'
    BY <1>1, <1>4, <1>5, <1>6, <1>9, <1>10, Zenon DEF RowSound
  <1>12. UploadSound(u)'
    BY <1>1, <1>3, <1>5, <1>11, Zenon DEF UploadSound, StepSound
  <1>13. PhaseSound' /\ FaultStep
    BY <1>1, <1>3, RequestPhase, WorkingPhase, Zenon DEF FaultStep, Untouched
  <1> QED
    BY <1>1, <1>3, <1>4, <1>7, <1>8, <1>12, <1>13, RequestSound, Zenon

LEMMA AdvanceSound ==
    ASSUME BlobInv, NEW u \in Uploads, Advance(u)
    PROVE  BlobInv'
  <1> DEFINE to == IF NewOffset(u) = session[u].length THEN "full" ELSE "idle"
             row == [session[u] EXCEPT !.offset = NewOffset(u)]
  <1>1. /\ step[u] = "written" /\ ~DigestMismatch(u) /\ Move(u, "written", to)
        /\ session' = [session EXCEPT ![u] = row]
        /\ expired' = expired \ {u}
        /\ accepted' = [accepted EXCEPT ![u] = accepted[u] \o chunk[u]]
        /\ chunk' = [chunk EXCEPT ![u] = <<>>]
        /\ UNCHANGED <<blobs, staging, file, unsynced, publisher, verified, reading, phase,
                       version, fresh, counts>>
    BY Zenon DEF Advance
  <1>2. TypeOK
    BY Zenon DEF BlobInv
  <1>3. /\ step'[u] = to /\ step' \in [Uploads -> Steps]
        /\ \A v \in Uploads \ {u} : step'[v] = step[v]
    BY <1>1, <1>2, MoveTakes, Zenon DEF Steps
  <1>4. /\ Known(u) /\ session[u].state = "active"
        /\ staging[u] \in Contents /\ staging[u] # None /\ staging[u] = accepted[u] \o chunk[u]
        /\ NewOffset(u) = Len(staging[u]) /\ NewOffset(u) \in Lengths
        /\ SubSeq(staging[u], 1, NewOffset(u)) = staging[u]
    BY <1>1, WrittenTakes, Zenon
  <1>5. session[u] \in Session /\ u \notin fresh
    BY <1>4, KnownRow, Zenon
  <1>6. /\ row \in Session /\ row.offset = Len(staging[u]) /\ row.state = "active"
        /\ row.length = session[u].length /\ row.expected = session[u].expected
    BY <1>4, <1>5, Zenon DEF Session
  <1> HIDE DEF row
  <1>7. /\ session'[u] = row /\ accepted'[u] = staging[u]
        /\ \A v \in Uploads \ {u} : /\ session'[v] = session[v] /\ accepted'[v] = accepted[v]
                                    /\ chunk'[v] = chunk[v]
    BY <1>1, <1>2, <1>4, Zenon DEF TypeOK
  <1>8. Others(u)
    BY <1>1, <1>3, <1>7, Zenon DEF Others, Same
  <1>9. TypeOK'
    <2>1. accepted' \in [Uploads -> Contents]
      BY <1>1, <1>2, <1>4, Zenon DEF TypeOK
    <2>2. session' \in [Uploads -> Session \cup {None}]
      BY <1>1, <1>2, <1>6, Zenon DEF TypeOK
    <2>3. expired' \subseteq Uploads /\ chunk' \in [Uploads -> Chunks \cup {<<>>}]
      BY <1>1, <1>2, Zenon DEF TypeOK
    <2> QED BY <1>1, <1>2, <1>3, <2>1, <2>2, <2>3, Zenon DEF TypeOK
  <1>10. Known(u)' /\ Truncated(u)' = accepted'[u]
    <2>1. Known(u)'
      BY <1>6, <1>7, NoneIsApart, Zenon DEF Known
    <2>2. staging'[u] = staging[u] /\ session'[u].offset = NewOffset(u)
      BY <1>1, <1>4, <1>6, <1>7, Zenon
    <2> QED BY <1>4, <1>7, <2>1, <2>2, Zenon DEF Truncated
  <1>11. IsFull(u)' <=> NewOffset(u) = session[u].length
    BY <1>4, <1>6, <1>7, Zenon DEF IsFull
  <1>12. IsFull(u)' => session'[u].expected \in {None, accepted'[u]}
    BY <1>1, <1>6, <1>7, <1>11, Zenon DEF DigestMismatch
  <1>13. Len(staging[u]) \in Nat
    BY <1>4, ContentTypes, Zenon
  <1>14. RowSound(u)'
    <2>1. session'[u].state = "active" /\ session'[u].offset = Len(accepted'[u])
      BY <1>6, <1>7, Zenon
    <2>2. staging'[u] = accepted'[u] /\ staging'[u] # None /\ Len(staging'[u]) \in Nat
      BY <1>1, <1>4, <1>7, <1>13, Zenon
    <2> QED BY <1>10, <1>12, <2>1, <2>2 DEF RowSound
  <1>15. StepSound(u)'
    BY <1>3, <1>6, <1>7, <1>10, <1>11, Zenon DEF StepSound
  <1>16. UploadSound(u)'
    BY <1>1, <1>3, <1>5, <1>14, <1>15, Zenon DEF UploadSound
  <1>17. PhaseSound' /\ FaultStep
    BY <1>1, RequestPhase, WorkingPhase, Zenon DEF FaultStep, Untouched
  <1>18. /\ step'[u] # "renamed" /\ session'[u].state # "finalizing"
         /\ expired \ {u} \subseteq expired'
    BY <1>1, <1>3, <1>6, <1>7, Zenon
  <1> HIDE DEF to
  <1> QED
    BY <1>1, <1>8, <1>9, <1>16, <1>17, <1>18, RequestSound, Zenon

LEMMA BeginFinalizeSound ==
    ASSUME BlobInv, NEW u \in Uploads, BeginFinalize(u)
    PROVE  BlobInv'
  <1> DEFINE row == [session[u] EXCEPT !.state = "finalizing", !.final = staging[u]]
  <1>1. /\ Move(u, "full", "begun") /\ session' = [session EXCEPT ![u] = row]
        /\ UNCHANGED <<blobs, staging, file, unsynced, chunk, publisher, verified, reading,
                       expired, phase, version, fresh, accepted, counts>>
    BY Zenon DEF BeginFinalize
  <1>2. TypeOK
    BY Zenon DEF BlobInv
  <1>3. /\ step[u] = "full" /\ step'[u] = "begun" /\ step' \in [Uploads -> Steps]
        /\ \A v \in Uploads \ {u} : step'[v] = step[v]
    BY <1>1, <1>2, MoveTakes, Zenon DEF Steps
  <1>4. Known(u) /\ session[u].state = "active" /\ IsFull(u)
    BY <1>3, Zenon DEF BlobInv, UploadSound, StepSound
  <1>5. /\ session[u] \in Session /\ u \notin fresh /\ accepted[u] \in Contents
        /\ session[u].offset = Len(accepted[u]) /\ staging[u] = accepted[u]
        /\ session[u].expected \in {None, accepted[u]}
    BY <1>4, KnownRow, Zenon DEF RowSound
  <1>6. /\ row \in Session /\ row.state = "finalizing" /\ row.final = accepted[u]
        /\ row.offset = session[u].offset /\ row.length = session[u].length
        /\ row.expected = session[u].expected
    BY <1>5, Zenon DEF Session
  <1> HIDE DEF row
  <1>7. session'[u] = row /\ \A v \in Uploads \ {u} : session'[v] = session[v]
    BY <1>1, <1>2, Zenon DEF TypeOK
  <1>8. Others(u)
    BY <1>1, <1>3, <1>7, Zenon DEF Others, Same
  <1>9. TypeOK'
    BY <1>1, <1>2, <1>3, <1>6, Zenon DEF TypeOK
  <1>10. Known(u)' /\ IsFull(u)'
    BY <1>4, <1>6, <1>7, NoneIsApart, Zenon DEF Known, IsFull
  <1>11. RowSound(u)'
    BY <1>1, <1>5, <1>6, <1>7, <1>10, Zenon DEF RowSound
  <1>12. StepSound(u)'
    BY <1>3, <1>6, <1>7, <1>10, Zenon DEF StepSound
  <1>13. UploadSound(u)'
    BY <1>1, <1>3, <1>5, <1>11, <1>12, Zenon DEF UploadSound
  <1>14. PhaseSound' /\ FaultStep
    BY <1>1, <1>3, RequestPhase, WorkingPhase, Zenon DEF FaultStep, Untouched
  <1> QED
    BY <1>1, <1>3, <1>5, <1>8, <1>9, <1>13, <1>14, RequestSound, Zenon

-------------------------------------------------------------------------------
(* Recovery.                                                               *)

LEMMA RemoveOrphanSound ==
    ASSUME BlobInv, NEW u \in Uploads, RemoveOrphan(u)
    PROVE  BlobInv'
  <1>1. /\ phase = "orphans" /\ IsOrphan(u) /\ staging' = [staging EXCEPT ![u] = None]
        /\ UNCHANGED <<session, blobs, file, unsynced, step, chunk, publisher, verified,
                       reading, expired, phase, version, fresh, accepted, counts>>
    BY Zenon DEF RemoveOrphan, volatile
  <1>2. TypeOK /\ UploadSound(u) /\ ~Known(u)
    BY <1>1, Zenon DEF BlobInv, IsOrphan
  <1>3. Quiet /\ step[u] = "idle"
    BY <1>1, Zenon DEF BlobInv, PhaseSound, Quiet
  <1>4. \A v \in Uploads \ {u} : staging'[v] = staging[v]
    BY <1>1, <1>2, Zenon DEF TypeOK
  <1>5. Others(u)
    BY <1>1, <1>4, Zenon DEF Others, Same
  <1>6. TypeOK'
    BY <1>1, <1>2, Zenon DEF TypeOK
  <1>7. ~Known(u)'
    BY <1>1, <1>2, Zenon DEF Known
  <1>8. UploadSound(u)'
    BY <1>1, <1>2, <1>3, <1>7, Zenon DEF UploadSound, StepSound
  <1>9. PhaseSound' /\ FaultStep
    BY <1>1, <1>3, Zenon DEF PhaseSound, Quiet, FaultStep, Untouched
  <1> QED
    BY <1>1, <1>3, <1>5, <1>6, <1>7, <1>8, <1>9, RequestSound, Zenon

LEMMA ResumeSound ==
    ASSUME BlobInv, NEW u \in Uploads, Resume(u)
    PROVE  BlobInv'
  <1>1. /\ phase = "finalize" /\ Quiet /\ NeedsFinalization(u)
        /\ UNCHANGED <<session, blobs, staging, file, unsynced, chunk, publisher, verified,
                       reading, expired, phase, version, fresh, accepted, counts>>
    BY Zenon DEF Resume, durable
  <1>2. TypeOK /\ UploadSound(u) /\ Known(u) /\ step[u] = "idle"
    BY <1>1, Zenon DEF BlobInv, NeedsFinalization, Quiet
  <1>3. PICK to \in {"full", "begun"} :
             /\ step' = [step EXCEPT ![u] = to]
             /\ to = "full" => session[u].state = "active" /\ IsFull(u)
             /\ to = "begun" => session[u].state = "finalizing"
    BY Zenon DEF Resume, NeedsFinalization
  <1>4. /\ step'[u] = to /\ step' \in [Uploads -> Steps]
        /\ \A v \in Uploads \ {u} : step'[v] = step[v]
    BY <1>2, <1>3, Zenon DEF TypeOK, Steps
  <1>5. Others(u)
    BY <1>1, <1>4, Zenon DEF Others, Same
  <1>6. TypeOK'
    BY <1>1, <1>2, <1>4, Zenon DEF TypeOK
  <1>7. /\ Known(u)' /\ (IsFull(u)' <=> IsFull(u)) /\ Truncated(u)' = Truncated(u)
        /\ (Untouched' <=> Untouched)
    BY <1>1, <1>2, Zenon DEF Known, IsFull, Truncated, Untouched
  <1>8. RowSound(u) /\ u \notin fresh
    BY <1>2, KnownRow, Zenon
  <1>9. RowSound(u)'
    BY <1>1, <1>7, <1>8, Zenon DEF RowSound
  <1>10. StepSound(u)'
    BY <1>1, <1>3, <1>4, <1>7, Zenon DEF StepSound
  <1>11. UploadSound(u)'
    BY <1>1, <1>3, <1>4, <1>8, <1>9, <1>10, Zenon DEF UploadSound
  <1>12. PhaseSound' /\ FaultStep
    BY <1>1, WorkingPhase, Zenon DEF FaultStep, Untouched
  <1>13. /\ step[u] # "renamed" /\ step'[u] # "renamed"
         /\ \A w \in Uploads : step[w] # "renamed"
    BY <1>1, <1>3, <1>4, Zenon DEF Quiet
  <1> QED
    BY <1>1, <1>5, <1>6, <1>11, <1>12, <1>13, RequestSound, Zenon

LEMMA DiscardFileSound ==
    ASSUME BlobInv, NEW u \in Uploads, DiscardFile(u)
    PROVE  BlobInv'
  <1>1. /\ phase = "expire" /\ Quiet /\ IsExpired(u) /\ Move(u, "idle", "discarding")
        /\ staging' = [staging EXCEPT ![u] = None]
        /\ UNCHANGED <<session, blobs, file, unsynced, chunk, publisher, verified, reading,
                       expired, phase, version, fresh, accepted, counts>>
    BY Zenon DEF DiscardFile
  <1>2. TypeOK /\ UploadSound(u) /\ Known(u) /\ session[u].state # "finalizing" /\ u \in expired
    BY <1>1, Zenon DEF BlobInv, IsExpired
  <1>3. /\ step[u] = "idle" /\ step'[u] = "discarding" /\ step' \in [Uploads -> Steps]
        /\ \A v \in Uploads \ {u} : step'[v] = step[v]
    BY <1>1, <1>2, MoveTakes, Zenon DEF Steps
  <1>4. staging'[u] = None /\ \A v \in Uploads \ {u} : staging'[v] = staging[v]
    BY <1>1, <1>2, Zenon DEF TypeOK
  <1>5. Others(u)
    BY <1>1, <1>3, <1>4, Zenon DEF Others, Same
  <1>6. TypeOK'
    BY <1>1, <1>2, <1>3, Zenon DEF TypeOK
  <1>7. \A v \in Uploads : ~NeedsFinalization(v)
    BY <1>1, Zenon DEF BlobInv, PhaseSound
  <1>8. session[u].state = "active" => ~IsFull(u)
    BY <1>2, <1>7, Zenon DEF NeedsFinalization
  <1>9. Known(u)' /\ (IsFull(u)' <=> IsFull(u))
    BY <1>1, <1>2, Zenon DEF Known, IsFull
  <1>10. RowSound(u) /\ u \notin fresh
    BY <1>2, KnownRow, Zenon
  <1>11. RowSound(u)'
    BY <1>1, <1>2, <1>4, <1>8, <1>9, <1>10, Zenon DEF RowSound
  <1>12. UploadSound(u)'
    BY <1>1, <1>3, <1>9, <1>10, <1>11, Zenon DEF UploadSound, StepSound
  <1>13. FaultStep
    BY <1>1, Zenon DEF FaultStep, Untouched
  <1>14. \A v \in Uploads : ~NeedsFinalization(v)'
    BY <1>1, <1>7, Zenon DEF NeedsFinalization, Known, IsFull
  <1>15. \A v \in Uploads : step'[v] \in {"idle", "discarding"} /\ step[v] = "idle"
    BY <1>1, <1>3, Zenon DEF Quiet
  <1>16. PhaseSound'
    BY <1>1, <1>14, <1>15, Zenon DEF PhaseSound
  <1> QED
    BY <1>1, <1>2, <1>3, <1>5, <1>6, <1>12, <1>13, <1>15, <1>16, RequestSound, Zenon

LEMMA DiscardSessionSound ==
    ASSUME BlobInv, NEW u \in Uploads, DiscardSession(u)
    PROVE  BlobInv'
  <1>1. /\ Move(u, "discarding", "idle") /\ session' = [session EXCEPT ![u] = None]
        /\ UNCHANGED <<blobs, staging, file, unsynced, chunk, publisher, verified, reading,
                       expired, phase, version, fresh, accepted, counts>>
    BY Zenon DEF DiscardSession
  <1>2. TypeOK /\ UploadSound(u)
    BY Zenon DEF BlobInv
  <1>3. /\ step[u] = "discarding" /\ step'[u] = "idle" /\ step' \in [Uploads -> Steps]
        /\ \A v \in Uploads \ {u} : step'[v] = step[v]
    BY <1>1, <1>2, MoveTakes, Zenon DEF Steps
  <1>4. session'[u] = None /\ \A v \in Uploads \ {u} : session'[v] = session[v]
    BY <1>1, <1>2, Zenon DEF TypeOK
  <1>5. Others(u)
    BY <1>1, <1>3, <1>4, Zenon DEF Others, Same
  <1>6. TypeOK'
    BY <1>1, <1>2, <1>3, Zenon DEF TypeOK
  <1>7. Known(u) /\ phase = "expire"
    BY <1>2, <1>3, Zenon DEF UploadSound, StepSound
  <1>8. ~Known(u)' /\ u \notin fresh
    BY <1>4, <1>7, KnownRow, Zenon DEF Known
  <1>9. UploadSound(u)'
    BY <1>1, <1>3, <1>8, Zenon DEF UploadSound, StepSound
  <1>10. FaultStep
    BY <1>1, Zenon DEF FaultStep, Untouched
  <1>11. \A v \in Uploads : ~NeedsFinalization(v) /\ step[v] \in {"idle", "discarding"}
    BY <1>7, Zenon DEF BlobInv, PhaseSound
  <1>12. ASSUME NEW v \in Uploads
         PROVE  ~NeedsFinalization(v)' /\ step'[v] \in {"idle", "discarding"}
    <2>1. CASE v = u
      BY <1>3, <1>8, <2>1, Zenon DEF NeedsFinalization
    <2>2. CASE v # u
      BY <1>3, <1>4, <1>11, <2>2, Zenon DEF NeedsFinalization, Known, IsFull
    <2> QED BY <2>1, <2>2, Zenon
  <1>13. PhaseSound'
    BY <1>1, <1>7, <1>12, Zenon DEF PhaseSound
  <1> QED
    BY <1>1, <1>3, <1>5, <1>6, <1>8, <1>9, <1>10, <1>13, RequestSound, Zenon
-------------------------------------------------------------------------------
(* Publishing a file.                                                      *)

LEMMA PublishingRow ==
    ASSUME BlobInv, NEW u \in Uploads, step[u] \in {"begun", "renamed", "published"}
    PROVE  /\ Known(u) /\ session[u].state = "finalizing" /\ RowSound(u) /\ u \notin fresh
           /\ session[u] \in Session /\ session[u].final = accepted[u]
           /\ accepted[u] \in Contents
           /\ step[u] = "renamed" => publisher = u
           /\ step[u] # "begun" /\ Untouched => file[session[u].final] = session[u].final
  <1>1. StepSound(u)
    BY Zenon DEF BlobInv, UploadSound
  <1>2. Known(u) /\ session[u].state = "finalizing"
    BY <1>1, Zenon DEF StepSound
  <1>3. /\ session[u] \in Session /\ RowSound(u) /\ u \notin fresh /\ accepted[u] \in Contents
    BY <1>2, KnownRow, Zenon
  <1>4. session[u].final = accepted[u]
    BY <1>2, <1>3, Zenon DEF RowSound
  <1> QED BY <1>1, <1>2, <1>3, <1>4, Zenon DEF StepSound

LEMMA OnePublisher ==
    ASSUME BlobInv, NEW w \in Uploads, step[w] = "renamed"
    PROVE  publisher = w /\ publisher # None
BY PublishingRow, NoneIsApart, Zenon

LEMMA PublishFoundSound ==
    ASSUME BlobInv, NEW u \in Uploads, Publish(u), file[session[u].final] = session[u].final
    PROVE  BlobInv'
  <1> DEFINE c == session[u].final
  <1>1. /\ step[u] = "begun" /\ publisher = None /\ staging' = [staging EXCEPT ![u] = None]
        /\ UNCHANGED <<session, blobs, chunk, verified, reading, expired, phase, version,
                       fresh, accepted, counts>>
    BY Zenon DEF Publish
  <1>2. TypeOK
    BY Zenon DEF BlobInv
  <1>3. /\ Known(u) /\ session[u].state = "finalizing" /\ RowSound(u) /\ u \notin fresh
        /\ c = accepted[u] /\ accepted[u] \in Contents
    BY <1>1, PublishingRow, Zenon
  <1>4. Move(u, "begun", "published") /\ UNCHANGED <<file, unsynced, publisher>>
    BY <1>3, NoneIsApart, Zenon DEF Publish
  <1>5. /\ step'[u] = "published" /\ step' \in [Uploads -> Steps]
        /\ \A v \in Uploads \ {u} : step'[v] = step[v]
    BY <1>2, <1>4, MoveTakes, Zenon DEF Steps
  <1>6. staging'[u] = None /\ \A v \in Uploads \ {u} : staging'[v] = staging[v]
    BY <1>1, <1>2, Zenon DEF TypeOK
  <1>7. Others(u)
    BY <1>1, <1>5, <1>6, Zenon DEF Others, Same
  <1>8. TypeOK'
    BY <1>1, <1>2, <1>4, <1>5, Zenon DEF TypeOK
  <1>9. Known(u)' /\ (IsFull(u)' <=> IsFull(u))
    BY <1>1, <1>3, Zenon DEF Known, IsFull
  <1>10. RowSound(u)'
    BY <1>1, <1>3, <1>4, <1>9, Zenon DEF RowSound
  <1>11. StepSound(u)'
    BY <1>1, <1>3, <1>4, <1>5, <1>9, Zenon DEF StepSound
  <1>12. UploadSound(u)'
    BY <1>1, <1>3, <1>5, <1>10, <1>11, Zenon DEF UploadSound
  <1>13. PhaseSound' /\ FaultStep
    BY <1>1, RequestPhase, WorkingPhase, Zenon DEF FaultStep, Untouched
  <1>14. \A w \in Uploads : step[w] # "renamed"
    BY <1>1, OnePublisher, Zenon
  <1> QED
    BY <1>1, <1>4, <1>5, <1>7, <1>8, <1>12, <1>13, <1>14, RequestSound, Zenon

LEMMA PublishRenamesSound ==
    ASSUME BlobInv, NEW u \in Uploads, Publish(u), file[session[u].final] # session[u].final
    PROVE  BlobInv'
  <1> DEFINE c == session[u].final
  <1>1. /\ step[u] = "begun" /\ publisher = None /\ staging' = [staging EXCEPT ![u] = None]
        /\ file[c] = None /\ staging[u] # None /\ Move(u, "begun", "renamed")
        /\ file' = [file EXCEPT ![c] = staging[u]] /\ unsynced' = unsynced \cup {<<u, c>>}
        /\ publisher' = u
        /\ UNCHANGED <<session, blobs, chunk, verified, reading, expired, phase, version,
                       fresh, accepted, counts>>
    BY Zenon DEF Publish
  <1>2. TypeOK
    BY Zenon DEF BlobInv
  <1>3. /\ Known(u) /\ session[u].state = "finalizing" /\ RowSound(u) /\ u \notin fresh
        /\ c = accepted[u] /\ c \in Contents /\ accepted[u] \in Contents /\ c # None
    BY <1>1, PublishingRow, NoneIsApart, Zenon
  <1>4. /\ step'[u] = "renamed" /\ step' \in [Uploads -> Steps]
        /\ \A v \in Uploads \ {u} : step'[v] = step[v]
    BY <1>1, <1>2, MoveTakes, Zenon DEF Steps
  <1>5. staging'[u] = None /\ \A v \in Uploads \ {u} : staging'[v] = staging[v]
    BY <1>1, <1>2, Zenon DEF TypeOK
  <1>6. file'[c] = staging[u] /\ \A d \in Contents \ {c} : file'[d] = file[d]
    BY <1>1, <1>2, <1>3, Zenon DEF TypeOK
  <1>7. Untouched' <=> Untouched
    BY <1>1, Zenon DEF Untouched
  <1>8. Untouched => staging[u] = c
    BY <1>1, <1>3, Zenon DEF RowSound
  <1>9. Others(u)
    BY <1>1, <1>4, <1>5, Zenon DEF Others, Same
  <1>10. TypeOK'
    <2>1. file' \in [Contents -> Contents \cup {None}]
      BY <1>1, <1>2, Zenon DEF TypeOK
    <2>2. unsynced' \subseteq Uploads \X Contents
      BY <1>1, <1>2, <1>3 DEF TypeOK
    <2>3. staging' \in [Uploads -> Contents \cup {None}]
      BY <1>1, <1>2, Zenon DEF TypeOK
    <2> QED BY <1>1, <1>2, <1>4, <2>1, <2>2, <2>3, Zenon DEF TypeOK
  <1>11. Known(u)' /\ (IsFull(u)' <=> IsFull(u))
    BY <1>1, <1>3, Zenon DEF Known, IsFull
  <1>12. Untouched' => file'[c] = c
    BY <1>6, <1>7, <1>8, Zenon
  <1>13. RowSound(u)'
    BY <1>1, <1>3, <1>11, <1>12, Zenon DEF RowSound
  <1>14. StepSound(u)'
    BY <1>1, <1>3, <1>4, <1>11, <1>12, Zenon DEF StepSound
  <1>15. UploadSound(u)'
    BY <1>1, <1>3, <1>4, <1>13, <1>14, Zenon DEF UploadSound
  <1>16. PhaseSound'
    BY <1>1, RequestPhase, WorkingPhase, Zenon
  <1>17. \A w \in Uploads : step[w] # "renamed"
    BY <1>1, OnePublisher, Zenon
  <1>18. FilesKept
    BY <1>1, <1>3, <1>6, <1>7, Zenon DEF FilesKept
  <1>19. (\A v \in Uploads : UploadSound(v))'
    BY <1>1, <1>9, <1>15, <1>17, <1>18, OthersKept, Zenon DEF BlobInv
  <1>20. BlobsAreWhole'
    BY <1>1, <1>2, <1>18, Zenon DEF BlobInv, BlobsAreWhole, FilesKept, TypeOK
  <1>21. RenameSound'
    <2> SUFFICES ASSUME Clean' PROVE RenameSound'
      BY Zenon DEF RenameSound
    <2>1. Clean
      BY <1>1, Zenon DEF Clean
    <2>2. ASSUME NEW v \in Uploads, NEW d \in Contents, <<v, d>> \in unsynced'
          PROVE  step'[v] = "renamed" /\ session'[v].final = d
      <3>1. <<v, d>> \notin unsynced
        BY <1>17, <2>1, Zenon DEF BlobInv, RenameSound
      <3>2. v = u /\ d = c
        BY <1>1, <2>2, <3>1, Zenon
      <3> QED BY <1>1, <1>4, <3>2, Zenon
    <2>3. ASSUME Untouched', NEW w \in Uploads, step'[w] = "renamed"
          PROVE  /\ session'[w].final \notin blobs'
                 /\ \A v \in Uploads \ {w} :
                       /\ Known(v)' /\ session'[v].state = "finalizing"
                       /\ session'[v].final = session'[w].final
                       => staging'[v] = accepted'[v] /\ step'[v] # "published"
      <3>1. w = u
        BY <1>4, <1>17, <2>3, Zenon
      <3>2. c \notin blobs
        BY <1>1, <1>3, <1>7, <2>3, Zenon DEF BlobInv, BlobsAreWhole
      <3>3. ASSUME NEW v \in Uploads \ {u}, Known(v), session[v].state = "finalizing",
                   session[v].final = c
            PROVE  staging[v] = accepted[v] /\ step[v] # "published"
        <4>1. RowSound(v)
          BY <3>3, KnownRow, Zenon
        <4>2. file[session[v].final] # session[v].final
          BY <3>3, Zenon
        <4>3. staging[v] = accepted[v]
          BY <1>7, <2>3, <3>3, <4>1, <4>2, Zenon DEF RowSound
        <4>4. step[v] # "published"
          BY <1>7, <2>3, <4>2, PublishingRow, Zenon
        <4> QED BY <4>3, <4>4, Zenon
      <3> QED BY <1>1, <1>4, <1>5, <3>1, <3>2, <3>3, Zenon DEF Known
    <2> QED BY <2>2, <2>3, Zenon DEF RenameSound
  <1>22. (\A d \in Contents : CacheSound(d))'
    BY <1>1, <1>3, <1>6, Zenon DEF BlobInv, CacheSound
  <1> QED BY <1>10, <1>16, <1>19, <1>20, <1>21, <1>22, Zenon DEF BlobInv

LEMMA SyncDirectoriesSound ==
    ASSUME BlobInv, NEW u \in Uploads, SyncDirectories(u)
    PROVE  BlobInv'
  <1> DEFINE c == session[u].final
  <1>1. /\ Move(u, "renamed", "published") /\ unsynced' = unsynced \ {<<u, c>>}
        /\ publisher' = None
        /\ UNCHANGED <<session, blobs, staging, file, chunk, verified, reading, expired,
                       phase, version, fresh, accepted, counts>>
    BY Zenon DEF SyncDirectories
  <1>2. TypeOK
    BY Zenon DEF BlobInv
  <1>3. /\ step[u] = "renamed" /\ step'[u] = "published" /\ step' \in [Uploads -> Steps]
        /\ \A v \in Uploads \ {u} : step'[v] = step[v]
    BY <1>1, <1>2, MoveTakes, Zenon DEF Steps
  <1>4. /\ Known(u) /\ session[u].state = "finalizing" /\ RowSound(u) /\ u \notin fresh
        /\ Untouched => file[c] = c
    BY <1>3, PublishingRow, Zenon
  <1>5. Others(u)
    BY <1>1, <1>3, Zenon DEF Others, Same
  <1>6. TypeOK'
    BY <1>1, <1>2, <1>3, Zenon DEF TypeOK
  <1>7. /\ Known(u)' /\ (IsFull(u)' <=> IsFull(u)) /\ Truncated(u)' = Truncated(u)
        /\ (Untouched' <=> Untouched)
    BY <1>1, <1>4, Zenon DEF Known, IsFull, Truncated, Untouched
  <1>8. RowSound(u)'
    BY <1>1, <1>4, <1>7, Zenon DEF RowSound
  <1>9. StepSound(u)'
    BY <1>1, <1>3, <1>4, <1>7, Zenon DEF StepSound
  <1>10. UploadSound(u)'
    BY <1>1, <1>3, <1>4, <1>8, <1>9, Zenon DEF UploadSound
  <1>11. PhaseSound'
    BY <1>1, <1>3, RequestPhase, WorkingPhase, Zenon
  <1>12. \A w \in Uploads \ {u} : step[w] # "renamed"
    BY <1>3, OnePublisher, Zenon
  <1>13. FilesKept
    BY <1>1, <1>7, Zenon DEF FilesKept
  <1>14. (\A v \in Uploads : UploadSound(v))'
    BY <1>1, <1>5, <1>10, <1>12, <1>13, OthersKept, Zenon DEF BlobInv
  <1>15. BlobsAreWhole'
    BY <1>1, <1>7, Zenon DEF BlobInv, BlobsAreWhole
  <1>16. \A w \in Uploads : step'[w] # "renamed"
    BY <1>3, <1>12, Zenon
  <1>17. RenameSound'
    <2>1. ASSUME Clean', NEW v \in Uploads, NEW d \in Contents, <<v, d>> \in unsynced'
          PROVE  FALSE
      <3>1. Clean
        BY <1>1, <2>1, Zenon DEF Clean
      <3>2. step[v] = "renamed" /\ session[v].final = d
        BY <1>1, <2>1, <3>1, Zenon DEF BlobInv, RenameSound
      <3> QED BY <1>1, <1>12, <2>1, <3>2, Zenon
    <2> QED BY <1>16, <2>1, Zenon DEF RenameSound
  <1>18. (\A d \in Contents : CacheSound(d))'
    BY <1>1, CacheKept, Zenon DEF BlobInv
  <1> QED BY <1>6, <1>11, <1>14, <1>15, <1>17, <1>18, Zenon DEF BlobInv

LEMMA CompleteSound ==
    ASSUME BlobInv, NEW u \in Uploads, Complete(u)
    PROVE  BlobInv'
  <1> DEFINE c == session[u].final
             row == [session[u] EXCEPT !.state = "complete"]
  <1>1. /\ Move(u, "published", "idle") /\ session' = [session EXCEPT ![u] = row]
        /\ blobs' = blobs \cup {c}
        /\ UNCHANGED <<staging, file, unsynced, chunk, publisher, verified, reading, expired,
                       phase, version, fresh, accepted, counts>>
    BY Zenon DEF Complete
  <1>2. TypeOK
    BY Zenon DEF BlobInv
  <1>3. /\ step[u] = "published" /\ step'[u] = "idle" /\ step' \in [Uploads -> Steps]
        /\ \A v \in Uploads \ {u} : step'[v] = step[v]
    BY <1>1, <1>2, MoveTakes, Zenon DEF Steps
  <1>4. /\ Known(u) /\ session[u].state = "finalizing" /\ RowSound(u) /\ u \notin fresh
        /\ session[u] \in Session /\ c \in Contents /\ (Untouched => file[c] = c)
    BY <1>3, PublishingRow, Zenon
  <1>5. /\ row \in Session /\ row.state = "complete" /\ row.final = session[u].final
        /\ row.offset = session[u].offset /\ row.length = session[u].length
        /\ row.expected = session[u].expected
    BY <1>4, Zenon DEF Session
  <1> HIDE DEF row
  <1>6. session'[u] = row /\ \A v \in Uploads \ {u} : session'[v] = session[v]
    BY <1>1, <1>2, Zenon DEF TypeOK
  <1>7. Others(u)
    BY <1>1, <1>3, <1>6, Zenon DEF Others, Same
  <1>8. TypeOK'
    BY <1>1, <1>2, <1>3, <1>4, <1>5, Zenon DEF TypeOK
  <1>9. (IsFull(u)' <=> IsFull(u)) /\ (Untouched' <=> Untouched)
    BY <1>1, <1>5, <1>6, Zenon DEF IsFull, Untouched
  <1>10. RowSound(u)'
    BY <1>1, <1>4, <1>5, <1>6, <1>9, Zenon DEF RowSound
  <1>11. UploadSound(u)'
    BY <1>1, <1>3, <1>4, <1>10, Zenon DEF UploadSound, StepSound
  <1>12. PhaseSound'
    BY <1>1, <1>3, RequestPhase, WorkingPhase, Zenon
  <1>13. FilesKept
    BY <1>1, <1>9, Zenon DEF FilesKept
  <1>14. (\A v \in Uploads : UploadSound(v))'
    BY <1>1, <1>7, <1>11, <1>13, OthersKept, Zenon DEF BlobInv
  <1>15. BlobsAreWhole'
    BY <1>1, <1>4, <1>9, Zenon DEF BlobInv, BlobsAreWhole
  <1>16. ASSUME NEW w \in Uploads, Clean, Untouched, step[w] = "renamed"
         PROVE  session[w].final \notin blobs'
    <2>1. w # u /\ session[w].final \notin blobs
      BY <1>3, <1>16, Zenon DEF BlobInv, RenameSound
    <2>2. c # session[w].final
      BY <1>3, <1>4, <1>16, <2>1, Zenon DEF BlobInv, RenameSound
    <2> QED BY <1>1, <2>1, <2>2, Zenon
  <1>17. RenameSound'
    <2>1. session'[u].state # "finalizing"
      BY <1>5, <1>6, Zenon
    <2> QED BY <1>1, <1>3, <1>7, <1>16, <2>1, RenamesKept, Zenon DEF BlobInv
  <1>18. (\A d \in Contents : CacheSound(d))'
    BY <1>1, CacheKept, Zenon DEF BlobInv
  <1> QED BY <1>8, <1>12, <1>14, <1>15, <1>17, <1>18, Zenon DEF BlobInv

LEMMA FailSound ==
    ASSUME BlobInv, NEW u \in Uploads, Fail(u)
    PROVE  BlobInv'
  <1>1. /\ phase = "up" /\ step[u] # "idle" /\ step' = [step EXCEPT ![u] = "idle"]
        /\ chunk' = [chunk EXCEPT ![u] = <<>>]
        /\ publisher' = IF publisher = u THEN None ELSE publisher
        /\ Suffer("errors")
        /\ UNCHANGED <<session, blobs, staging, file, unsynced, verified, reading, expired,
                       phase, version, fresh, accepted>>
    BY Zenon DEF Fail, durable
  <1>2. TypeOK /\ UploadSound(u)
    BY Zenon DEF BlobInv
  <1>3. /\ step'[u] = "idle" /\ step' \in [Uploads -> Steps]
        /\ \A v \in Uploads \ {u} : step'[v] = step[v] /\ chunk'[v] = chunk[v]
    BY <1>1, <1>2, Zenon DEF TypeOK, Steps
  <1>4. counts' \in Counts /\ ~Clean' /\ (Untouched' <=> Untouched)
    BY <1>1, <1>2, SufferTakes, Zenon DEF TypeOK
  <1>5. Others(u)
    BY <1>1, <1>3, Zenon DEF Others, Same
  <1>6. TypeOK'
    BY <1>1, <1>2, <1>3, <1>4, Zenon DEF TypeOK
  <1>7. Known(u)' => RowSound(u)'
    <2> SUFFICES ASSUME Known(u)' PROVE RowSound(u)'
      BY Zenon
    <2>1. RowSound(u)
      BY <1>1, <1>2, Zenon DEF UploadSound, Known
    <2>2. (IsFull(u)' <=> IsFull(u)) /\ Truncated(u)' = Truncated(u)
      BY <1>1, Zenon DEF IsFull, Truncated
    <2> QED BY <1>1, <1>4, <2>1, <2>2, Zenon DEF RowSound
  <1>8. UploadSound(u)'
    BY <1>1, <1>2, <1>3, <1>7, Zenon DEF UploadSound, StepSound, Known
  <1>9. PhaseSound'
    BY <1>1, WorkingPhase, Zenon
  <1>10. FilesKept
    BY <1>1, <1>4, Zenon DEF FilesKept
  <1>11. \A v \in Uploads \ {u} : step[v] = "renamed" => publisher' = publisher
    BY <1>1, OnePublisher, Zenon
  <1>12. (\A v \in Uploads : UploadSound(v))'
    BY <1>1, <1>5, <1>8, <1>10, <1>11, OthersKept, Zenon DEF BlobInv
  <1>13. BlobsAreWhole'
    BY <1>1, <1>4, Zenon DEF BlobInv, BlobsAreWhole
  <1>14. RenameSound'
    BY <1>4, Zenon DEF RenameSound
  <1>15. (\A d \in Contents : CacheSound(d))'
    BY <1>1, CacheKept, Zenon DEF BlobInv
  <1> QED BY <1>6, <1>9, <1>12, <1>13, <1>14, <1>15, Zenon DEF BlobInv

-------------------------------------------------------------------------------
(* The end of the process.                                                 *)

LEMMA StopSound ==
    ASSUME BlobInv, Stop, counts' \in Counts, TypeOK',
           \A v \in Uploads : Known(v) => RowSound(v)',
           ~Clean' \/ unsynced' = {}, BlobsAreWhole'
    PROVE  BlobInv'
  <1>1. /\ phase' = "down" /\ step' = [u \in Uploads |-> "idle"]
        /\ verified' = [c \in Contents |-> 0] /\ reading' = [c \in Contents |-> None]
        /\ UNCHANGED <<session, blobs, expired, version, fresh, accepted>>
    BY Zenon DEF Stop
  <1>2. \A u \in Uploads : step'[u] = "idle"
    BY <1>1, Zenon
  <1>3. ASSUME NEW u \in Uploads PROVE UploadSound(u)'
    <2>1. UploadSound(u) /\ (Known(u)' <=> Known(u))
      BY <1>1, Zenon DEF BlobInv, Known
    <2>2. StepSound(u)'
      BY <1>2, Zenon DEF StepSound
    <2> QED BY <1>1, <1>2, <2>1, <2>2, Zenon DEF UploadSound
  <1>4. PhaseSound'
    BY <1>1, <1>2, Zenon DEF PhaseSound, Quiet
  <1>5. RenameSound'
    BY <1>2, Zenon DEF RenameSound
  <1>6. ASSUME NEW c \in Contents PROVE CacheSound(c)'
    <2>1. version'[c] \in Nat \ {0} /\ verified'[c] = 0 /\ reading'[c] = None
      BY <1>1, Zenon DEF TypeOK
    <2> QED BY <2>1 DEF CacheSound
  <1> QED BY <1>3, <1>4, <1>5, <1>6, Zenon DEF BlobInv

LEMMA StopTypes ==
    ASSUME BlobInv, Stop, counts' \in Counts, staging' \in [Uploads -> Contents \cup {None}],
           file' \in [Contents -> Contents \cup {None}], unsynced' \subseteq Uploads \X Contents
    PROVE  TypeOK'
  <1>1. /\ phase' \in Phases /\ step' \in [Uploads -> Steps]
        /\ chunk' \in [Uploads -> Chunks \cup {<<>>}] /\ publisher' = None
        /\ verified' \in [Contents -> Nat] /\ reading' \in [Contents -> Reading \cup {None}]
        /\ UNCHANGED <<session, blobs, expired, version, fresh, accepted>>
    BY Zenon DEF Stop, Phases, Steps
  <1> QED BY <1>1, Zenon DEF BlobInv, TypeOK

LEMMA CrashSound ==
    ASSUME BlobInv, Crash
    PROVE  BlobInv'
  <1>1. Suffer("crashes") /\ Stop /\ UNCHANGED <<staging, file, unsynced>>
    BY Zenon DEF Crash
  <1>2. UNCHANGED <<session, blobs, expired, version, fresh, accepted>>
    BY <1>1, Zenon DEF Stop
  <1>3. counts' \in Counts /\ ~Clean' /\ (Untouched' <=> Untouched)
    BY <1>1, SufferTakes, Zenon DEF BlobInv, TypeOK
  <1>4. TypeOK'
    BY <1>1, <1>3, StopTypes, Zenon DEF BlobInv, TypeOK
  <1>5. ASSUME NEW v \in Uploads, Known(v) PROVE RowSound(v)'
    <2>1. RowSound(v)
      BY <1>5, KnownRow, Zenon
    <2>2. (IsFull(v)' <=> IsFull(v)) /\ Truncated(v)' = Truncated(v)
      BY <1>1, <1>2, Zenon DEF IsFull, Truncated
    <2> QED BY <1>1, <1>2, <1>3, <2>1, <2>2, Zenon DEF RowSound
  <1>6. BlobsAreWhole'
    BY <1>1, <1>2, <1>3, Zenon DEF BlobInv, BlobsAreWhole
  <1> QED BY <1>1, <1>3, <1>4, <1>5, <1>6, StopSound, Zenon

(* Power is only lost while nothing has failed before.                     *)
LEMMA LossIsClean ==
    ASSUME FaultsApart, counts \in Counts, Suffer("losses")
    PROVE  Clean
  <1>1. counts' = [counts EXCEPT !["losses"] = counts["losses"] + 1]
    BY Zenon DEF Suffer
  <1>2. PICK b \in Budgets : \A k \in DOMAIN counts : counts'[k] <= b[k]
    BY Zenon DEF Suffer
  <1>3. DOMAIN counts = {"errors", "crashes", "losses", "tampers"}
    BY Zenon DEF Counts
  <1>4. /\ counts'.errors <= b.errors /\ counts'.crashes <= b.crashes
        /\ counts'.losses <= b.losses
    BY <1>2, <1>3, Zenon
  <1>5. /\ counts.errors \in Nat /\ counts.crashes \in Nat /\ counts.losses \in Nat
        /\ counts'.errors = counts.errors /\ counts'.crashes = counts.crashes
        /\ counts'.losses = counts.losses + 1
    BY <1>1, Zenon DEF Counts
  <1>6. b.errors \in Nat /\ b.crashes \in Nat /\ b.losses \in Nat
    <2>1. b \in Counts
      BY BlobAssumption, Zenon
    <2> QED BY <2>1, Zenon DEF Counts
  <1>7. b.losses > 0
    BY <1>4, <1>5, <1>6
  <1>8. b.errors = 0 /\ b.crashes = 0
    BY <1>7, Zenon DEF FaultsApart
  <1> QED BY <1>4, <1>5, <1>8 DEF Clean

LEMMA PowerLossSound ==
    ASSUME FaultsApart, BlobInv, NEW undone \in SUBSET unsynced, PowerLoss(undone)
    PROVE  BlobInv'
  <1> DEFINE Undone(v) == \E c \in Contents : <<v, c>> \in undone
             Lost(c) == \E v \in Uploads : <<v, c>> \in undone
  <1>1. /\ Suffer("losses") /\ Stop /\ unsynced' = {}
        /\ staging' = [u \in Uploads |-> IF Undone(u)
                                         THEN file[CHOOSE c \in Contents : <<u, c>> \in undone]
                                         ELSE staging[u]]
        /\ file' = [c \in Contents |-> IF Lost(c) THEN None ELSE file[c]]
    BY Zenon DEF PowerLoss
  <1>2. UNCHANGED <<session, blobs, expired, version, fresh, accepted>>
    BY <1>1, Zenon DEF Stop
  <1>3. TypeOK
    BY Zenon DEF BlobInv
  <1>4. Clean
    BY <1>1, <1>3, LossIsClean, Zenon DEF TypeOK
  <1>5. counts' \in Counts /\ (Untouched' <=> Untouched)
    BY <1>1, <1>3, SufferTakes, Zenon DEF TypeOK
  <1>6. \A v \in Uploads, c \in Contents :
           <<v, c>> \in undone => step[v] = "renamed" /\ session[v].final = c
    BY <1>4, Zenon DEF BlobInv, RenameSound
  <1>7. ASSUME NEW v \in Uploads, Undone(v)
        PROVE  staging'[v] = file[session[v].final] /\ step[v] = "renamed"
    <2>1. (CHOOSE c \in Contents : <<v, c>> \in undone) \in Contents
          /\ <<v, CHOOSE c \in Contents : <<v, c>> \in undone>> \in undone
      BY <1>7, Zenon
    <2> QED BY <1>1, <1>6, <1>7, <2>1, Zenon
  <1>8. \A v \in Uploads : ~Undone(v) => staging'[v] = staging[v]
    BY <1>1, Zenon
  <1>9. /\ \A c \in Contents : ~Lost(c) => file'[c] = file[c]
        /\ \A c \in Contents : Lost(c) => \E w \in Uploads : /\ step[w] = "renamed"
                                                            /\ session[w].final = c
                                                            /\ Undone(w)
    BY <1>1, <1>6, Zenon
  <1> HIDE DEF Undone, Lost
  <1>10. TypeOK'
    <2>1. ASSUME NEW v \in Uploads PROVE staging'[v] \in Contents \cup {None}
      <3>1. CASE Undone(v)
        <4>1. session[v].final \in Contents
          BY <1>7, <3>1, PublishingRow, Zenon
        <4> QED BY <1>3, <1>7, <3>1, <4>1, Zenon DEF TypeOK
      <3>2. CASE ~Undone(v)
        BY <1>3, <1>8, <3>2, Zenon DEF TypeOK
      <3> QED BY <3>1, <3>2, Zenon
    <2>2. staging' \in [Uploads -> Contents \cup {None}]
      BY <1>1, <2>1, Zenon
    <2>3. file' \in [Contents -> Contents \cup {None}]
      BY <1>1, <1>3, Zenon DEF TypeOK
    <2> QED BY <1>1, <1>5, <2>2, <2>3, StopTypes, Zenon
  <1>11. ASSUME NEW v \in Uploads, Known(v) PROVE RowSound(v)'
    <2>1. RowSound(v) /\ accepted[v] \in Contents
      BY <1>11, KnownRow, Zenon
    <2>2. IsFull(v)' <=> IsFull(v)
      BY <1>2, Zenon DEF IsFull
    <2>3. CASE Undone(v)
      <3>1. /\ session[v].state = "finalizing" /\ session[v].final = accepted[v]
            /\ Untouched => file[session[v].final] = session[v].final
        BY <1>7, <2>3, PublishingRow, Zenon
      <3>2. Untouched' => staging'[v] = accepted'[v]
        BY <1>2, <1>5, <1>7, <2>3, <3>1, Zenon
      <3> QED BY <1>2, <2>1, <2>2, <3>1, <3>2, Zenon DEF RowSound
    <2>4. CASE ~Undone(v)
      <3>1. staging'[v] = staging[v] /\ Truncated(v)' = Truncated(v)
        BY <1>2, <1>8, <2>4, Zenon DEF Truncated
      <3>2. ASSUME Untouched', session[v].state = "finalizing", staging[v] # accepted[v]
            PROVE  file'[session[v].final] = session[v].final
        <4>1. /\ session[v].final \in Contents
              /\ file[session[v].final] = session[v].final
          BY <1>5, <2>1, <3>2, Zenon DEF RowSound
        <4>2. ~Lost(session[v].final)
          <5> SUFFICES ASSUME NEW w \in Uploads, step[w] = "renamed", Undone(w),
                              session[w].final = session[v].final
                       PROVE  FALSE
            BY <1>9, <4>1, Zenon
          <5>1. v # w
            BY <2>4, Zenon
          <5> QED BY <1>4, <1>5, <1>11, <3>2, <5>1, Zenon DEF BlobInv, RenameSound
        <4> QED BY <1>9, <4>1, <4>2, Zenon
      <3> QED BY <1>2, <2>1, <2>2, <3>1, <3>2, Zenon DEF RowSound
    <2> QED BY <2>3, <2>4, Zenon
  <1>12. BlobsAreWhole'
    <2> SUFFICES ASSUME Untouched', NEW c \in blobs PROVE file'[c] = c
      BY <1>2, Zenon DEF BlobsAreWhole
    <2>1. c \in Contents /\ file[c] = c
      BY <1>3, <1>5, Zenon DEF TypeOK, BlobInv, BlobsAreWhole
    <2>2. ~Lost(c)
      BY <1>4, <1>5, <1>9, <2>1 DEF BlobInv, RenameSound
    <2> QED BY <1>9, <2>1, <2>2, Zenon
  <1> QED BY <1>1, <1>5, <1>10, <1>11, <1>12, StopSound, Zenon

-------------------------------------------------------------------------------
(* Time, the phases of recover(), and the verification cache.              *)

LEMMA QuietStepSound ==
    ASSUME BlobInv, TypeOK', PhaseSound', UNCHANGED <<durable, volatile>>,
           UNCHANGED <<version, fresh, accepted, counts>>, expired \subseteq expired',
           \A v \in Uploads : step[v] = "discarding" => phase' = phase
    PROVE  BlobInv'
  <1>1. UNCHANGED <<session, blobs, staging, file, unsynced, step, chunk, publisher, verified,
                    reading, version, fresh, accepted, counts>>
    BY Zenon DEF durable, volatile
  <1>2. (Untouched' <=> Untouched) /\ (Clean' <=> Clean)
    BY <1>1, Zenon DEF Untouched, Clean
  <1>3. FilesKept
    BY <1>1, <1>2, Zenon DEF FilesKept
  <1>4. ASSUME NEW v \in Uploads PROVE UploadSound(v)'
    <2>1. Same(v)
      BY <1>1, Zenon DEF Same
    <2> QED BY <1>1, <1>3, <2>1, UploadKept, Zenon DEF BlobInv
  <1>5. BlobsAreWhole'
    BY <1>1, <1>2, Zenon DEF BlobInv, BlobsAreWhole
  <1>6. RenameSound'
    BY <1>1, <1>2 DEF BlobInv, RenameSound, Known
  <1>7. (\A c \in Contents : CacheSound(c))'
    BY <1>1, CacheKept, Zenon DEF BlobInv
  <1> QED BY <1>4, <1>5, <1>6, <1>7, Zenon DEF BlobInv

LEMMA ExpireSound ==
    ASSUME BlobInv, NEW u \in Uploads, Expire(u)
    PROVE  BlobInv'
  <1>1. /\ phase \in {"up", "down"} /\ expired' = expired \cup {u}
        /\ UNCHANGED <<durable, volatile, phase, version, fresh, accepted, counts>>
    BY Zenon DEF Expire
  <1>2. TypeOK'
    BY <1>1, Zenon DEF BlobInv, TypeOK, durable, volatile
  <1>3. PhaseSound'
    BY <1>1, Zenon DEF BlobInv, PhaseSound, Quiet, volatile
  <1> QED BY <1>1, <1>2, <1>3, QuietStepSound, Zenon

LEMMA PhaseStepSound ==
    ASSUME BlobInv, Restart \/ OrphansRemoved \/ Finalized \/ Opened
    PROVE  BlobInv'
  <1>1. /\ UNCHANGED <<durable, volatile, expired, version, fresh, accepted, counts>>
        /\ phase' \in Phases
    BY Zenon DEF Restart, OrphansRemoved, Finalized, Opened, EnterPhase, Phases
  <1>2. TypeOK'
    BY <1>1, Zenon DEF BlobInv, TypeOK, durable, volatile
  <1>3. Quiet
    BY Zenon DEF Restart, OrphansRemoved, Finalized, Opened, EnterPhase, BlobInv, PhaseSound
  <1>4. Quiet'
    BY <1>1, <1>3, Zenon DEF Quiet, volatile
  <1>5. phase' = "expire" => \A u \in Uploads : ~NeedsFinalization(u)'
    BY <1>1, Zenon DEF Restart, OrphansRemoved, Finalized, Opened, EnterPhase, durable,
                NeedsFinalization, Known, IsFull
  <1>6. PhaseSound'
    BY <1>4, <1>5, Zenon DEF PhaseSound, Quiet
  <1> QED BY <1>1, <1>2, <1>3, <1>6, QuietStepSound, Zenon DEF Quiet

(* A step of a blob() call touches nothing but the cache.                  *)
LEMMA ReadStepSound ==
    ASSUME BlobInv, UNCHANGED <<durable, step, chunk, publisher, expired, phase, version,
                                fresh, accepted, counts>>,
           verified' \in [Contents -> Nat], reading' \in [Contents -> Reading \cup {None}],
           (\A c \in Contents : CacheSound(c))'
    PROVE  BlobInv'
  <1>1. UNCHANGED <<session, blobs, staging, file, unsynced, step, chunk, publisher, expired,
                    phase, version, fresh, accepted, counts>>
    BY Zenon DEF durable
  <1>2. (Untouched' <=> Untouched) /\ (Clean' <=> Clean)
    BY <1>1, Zenon DEF Untouched, Clean
  <1>3. FilesKept
    BY <1>1, <1>2, Zenon DEF FilesKept
  <1>4. ASSUME NEW v \in Uploads PROVE UploadSound(v)'
    <2>1. Same(v)
      BY <1>1, Zenon DEF Same
    <2> QED BY <1>1, <1>3, <2>1, UploadKept, Zenon DEF BlobInv
  <1>5. BlobsAreWhole'
    BY <1>1, <1>2, Zenon DEF BlobInv, BlobsAreWhole
  <1>6. RenameSound'
    BY <1>1, <1>2 DEF BlobInv, RenameSound, Known
  <1>7. TypeOK'
    BY <1>1, Zenon DEF BlobInv, TypeOK
  <1>8. PhaseSound'
    BY <1>1, Zenon DEF BlobInv, PhaseSound, Quiet, NeedsFinalization, Known, IsFull
  <1> QED BY <1>4, <1>5, <1>6, <1>7, <1>8, Zenon DEF BlobInv

LEMMA HashBlobSound ==
    ASSUME BlobInv, NEW c \in Contents, HashBlob(c)
    PROVE  BlobInv'
  <1> DEFINE r == [version |-> version[c], intact |-> file[c] = c]
  <1>1. /\ reading' = [reading EXCEPT ![c] = r]
        /\ UNCHANGED <<durable, step, chunk, publisher, verified, expired, phase, version,
                       fresh, accepted, counts>>
    BY Zenon DEF HashBlob
  <1>2. TypeOK /\ file' = file
    BY <1>1, Zenon DEF BlobInv, durable
  <1>3. version[c] \in Nat
    BY <1>2, Zenon DEF TypeOK
  <1>4. r \in Reading
    BY <1>3, Zenon DEF Reading
  <1>5. r.version = version[c] /\ r.intact = (file[c] = c)
    BY Zenon
  <1> HIDE DEF r
  <1>6. /\ reading' \in [Contents -> Reading \cup {None}] /\ reading'[c] = r
        /\ \A d \in Contents \ {c} : reading'[d] = reading[d]
    BY <1>1, <1>2, <1>4, Zenon DEF TypeOK
  <1>7. r.intact => file[c] = c
    BY <1>5, Zenon
  <1>8. ASSUME NEW d \in Contents PROVE CacheSound(d)'
    <2>1. CASE d = c
      <3>1. CacheSound(c)
        BY Zenon DEF BlobInv
      <3>2. /\ verified'[c] = verified[c] /\ version'[c] = version[c] /\ file'[c] = file[c]
            /\ reading'[c] = r /\ r.version = version[c]
        BY <1>1, <1>2, <1>5, <1>6, Zenon
      <3> QED BY <1>3, <1>7, <2>1, <3>1, <3>2 DEF CacheSound
    <2>2. CASE d # c
      BY <1>1, <1>2, <1>6, <2>2, Zenon DEF BlobInv, CacheSound
    <2> QED BY <2>1, <2>2, Zenon
  <1>9. verified' \in [Contents -> Nat]
    BY <1>1, <1>2, Zenon DEF TypeOK
  <1> QED BY <1>1, <1>6, <1>8, <1>9, ReadStepSound, Zenon

LEMMA CacheVerificationSound ==
    ASSUME BlobInv, NEW c \in Contents, CacheVerification(c)
    PROVE  BlobInv'
  <1> DEFINE n == IF ~reading[c].intact THEN 0
                  ELSE IF reading[c].version = version[c] THEN version[c] ELSE verified[c]
  <1>1. /\ reading[c] # None /\ reading' = [reading EXCEPT ![c] = None]
        /\ verified' = [verified EXCEPT ![c] = n]
        /\ UNCHANGED <<durable, step, chunk, publisher, expired, phase, version, fresh,
                       accepted, counts>>
    BY Zenon DEF CacheVerification
  <1>2. TypeOK /\ file' = file /\ CacheSound(c)
    BY <1>1, Zenon DEF BlobInv, durable
  <1>3. version[c] \in Nat \ {0} /\ verified[c] \in Nat
    BY <1>2, Zenon DEF TypeOK
  <1>4. /\ reading' \in [Contents -> Reading \cup {None}] /\ reading'[c] = None
        /\ \A d \in Contents \ {c} : reading'[d] = reading[d]
    BY <1>1, <1>2, Zenon DEF TypeOK
  <1>5. n \in Nat /\ n <= version[c] /\ (n = version[c] => file[c] = c)
    <2>1. CASE ~reading[c].intact
      BY <1>3, <2>1
    <2>2. CASE reading[c].intact /\ reading[c].version = version[c]
      BY <1>1, <1>2, <1>3, <2>2, Zenon DEF CacheSound
    <2>3. CASE reading[c].intact /\ reading[c].version # version[c]
      BY <1>2, <1>3, <2>3, Zenon DEF CacheSound
    <2> QED BY <2>1, <2>2, <2>3, Zenon
  <1> HIDE DEF n
  <1>6. /\ verified' \in [Contents -> Nat] /\ verified'[c] = n
        /\ \A d \in Contents \ {c} : verified'[d] = verified[d]
    BY <1>1, <1>2, <1>5, Zenon DEF TypeOK
  <1>7. ASSUME NEW d \in Contents PROVE CacheSound(d)'
    <2>1. CASE d = c
      BY <1>1, <1>2, <1>4, <1>5, <1>6, <2>1, Zenon DEF CacheSound
    <2>2. CASE d # c
      BY <1>1, <1>2, <1>4, <1>6, <2>2, Zenon DEF BlobInv, CacheSound
    <2> QED BY <2>1, <2>2, Zenon
  <1> QED BY <1>1, <1>4, <1>6, <1>7, ReadStepSound, Zenon

LEMMA TamperSound ==
    ASSUME BlobInv, NEW c \in Contents, NEW bytes \in Contents, Tamper(c, bytes)
    PROVE  BlobInv'
  <1>1. /\ file' = [file EXCEPT ![c] = bytes] /\ Suffer("tampers")
        /\ version' = [version EXCEPT ![c] = version[c] + 1]
        /\ UNCHANGED <<session, blobs, staging, unsynced, step, chunk, publisher, verified,
                       reading, expired, phase, fresh, accepted>>
    BY Zenon DEF Tamper, volatile
  <1>2. TypeOK
    BY Zenon DEF BlobInv
  <1>3. counts' \in Counts /\ ~Untouched' /\ (Clean' <=> Clean)
    BY <1>1, <1>2, SufferTakes, Zenon DEF TypeOK
  <1>4. FilesKept
    BY <1>3, Zenon DEF FilesKept
  <1>5. ASSUME NEW v \in Uploads PROVE UploadSound(v)'
    <2>1. Same(v)
      BY <1>1, Zenon DEF Same
    <2> QED BY <1>1, <1>2, <1>4, <2>1, UploadKept, Zenon DEF BlobInv
  <1>6. TypeOK'
    <2>1. version' \in [Contents -> Nat \ {0}]
      BY <1>1, <1>2 DEF TypeOK
    <2> QED BY <1>1, <1>2, <1>3, <2>1, Zenon DEF TypeOK
  <1>7. PhaseSound'
    BY <1>1, Zenon DEF BlobInv, PhaseSound, Quiet, NeedsFinalization, Known, IsFull
  <1>8. RenameSound'
    BY <1>1, <1>3, Zenon DEF BlobInv, RenameSound
  <1>9. BlobsAreWhole'
    BY <1>3, Zenon DEF BlobsAreWhole
  <1>10. ASSUME NEW d \in Contents PROVE CacheSound(d)'
    <2>1. CacheSound(d) /\ version[d] \in Nat \ {0} /\ verified[d] \in Nat
      BY <1>2, Zenon DEF BlobInv, TypeOK
    <2>2. CASE d = c
      <3>1. version'[c] = version[c] + 1
        BY <1>1, <1>2, Zenon DEF TypeOK
      <3>2. reading[c] # None => reading[c].version \in Nat
        BY <1>2, Zenon DEF TypeOK, Reading
      <3>3. verified'[c] # version'[c] /\ verified'[c] <= version'[c]
        BY <1>1, <2>1, <2>2, <3>1 DEF CacheSound
      <3>4. reading[c] # None => /\ reading[c].version <= version'[c]
                                 /\ reading[c].version # version'[c]
        BY <2>1, <2>2, <3>1, <3>2 DEF CacheSound
      <3> QED BY <1>1, <2>2, <3>3, <3>4, Zenon DEF CacheSound
    <2>3. CASE d # c
      BY <1>1, <1>2, <2>1, <2>3, Zenon DEF CacheSound, TypeOK
    <2> QED BY <2>2, <2>3, Zenon
  <1> QED BY <1>5, <1>6, <1>7, <1>8, <1>9, <1>10, Zenon DEF BlobInv

-------------------------------------------------------------------------------
(* The theorems.                                                           *)

LEMMA InitSound == Init => BlobInv
  <1> SUFFICES ASSUME Init PROVE BlobInv
    BY Zenon
  <1>1. TypeOK
    <2>1. counts \in Counts
      BY Zenon DEF Init, Counts
    <2>2. accepted \in [Uploads -> Contents] /\ step \in [Uploads -> Steps]
      BY ContentTypes, Zenon DEF Init, Steps
    <2> QED BY <2>1, <2>2 DEF Init, TypeOK, Phases
  <1>2. ASSUME NEW u \in Uploads PROVE UploadSound(u) /\ step[u] = "idle"
    BY Zenon DEF Init, UploadSound, StepSound, Known
  <1>3. PhaseSound
    BY Zenon DEF Init, PhaseSound
  <1>4. RenameSound
    BY <1>2, Zenon DEF Init, RenameSound
  <1>5. BlobsAreWhole /\ \A c \in Contents : CacheSound(c)
    BY DEF Init, BlobsAreWhole, CacheSound
  <1> QED BY <1>1, <1>2, <1>3, <1>4, <1>5, Zenon DEF BlobInv

LEMMA NextSound == FaultsApart /\ BlobInv /\ [Next]_vars => BlobInv'
  <1> SUFFICES ASSUME FaultsApart, BlobInv, [Next]_vars PROVE BlobInv'
    BY Zenon
  <1>1. ASSUME NEW u \in Uploads, RequestStep(u) PROVE BlobInv'
    BY <1>1, CreateFileSound, CreateFailsSound, FailSound, CreateSessionSound, WriteChunkSound,
       WriteFailsSound, RejectDigestSound, AdvanceSound, Zenon DEF RequestStep
  <1>2. ASSUME NEW u \in Uploads, FinalizeStep(u) PROVE BlobInv'
    <2>1. CASE Publish(u)
      BY <2>1, PublishFoundSound, PublishRenamesSound, Zenon
    <2> QED BY <1>2, <2>1, BeginFinalizeSound, SyncDirectoriesSound, CompleteSound, Zenon
            DEF FinalizeStep
  <1>3. ASSUME RecoveryStep PROVE BlobInv'
    BY <1>3, PhaseStepSound, RemoveOrphanSound, ResumeSound, DiscardFileSound,
       DiscardSessionSound, Zenon DEF RecoveryStep
  <1>4. ASSUME NEW undone \in SUBSET unsynced, PowerLoss(undone) PROVE BlobInv'
    BY <1>4, PowerLossSound, Zenon
  <1>5. CASE UNCHANGED vars
    <2>1. UNCHANGED <<durable, volatile>>
          /\ UNCHANGED <<expired, phase, version, fresh, accepted, counts>>
      BY <1>5, Zenon DEF vars
    <2>2. TypeOK'
      BY <2>1, Zenon DEF BlobInv, TypeOK, durable, volatile
    <2>3. PhaseSound'
      BY <2>1, Zenon DEF BlobInv, PhaseSound, Quiet, NeedsFinalization, Known, IsFull, durable,
                  volatile
    <2> QED BY <2>1, <2>2, <2>3, QuietStepSound, Zenon
  <1> QED
    BY <1>1, <1>2, <1>3, <1>4, <1>5, ExpireSound, HashBlobSound, CacheVerificationSound,
       TamperSound, CrashSound, Zenon DEF Next

(* What every step of a request and of recover() relies on holds in every  *)
(* reachable state.                                                        *)
THEOREM BlobInvariant ==
    ASSUME FaultsApart
    PROVE  Spec => []BlobInv
  <1>1. Init => BlobInv
    BY InitSound, Zenon
  <1>2. BlobInv /\ [Next]_vars => BlobInv'
    BY NextSound, Zenon
  <1> QED BY <1>1, <1>2, PTL DEF Spec

(* The file of every content id with a descriptor holds exactly its bytes, *)
(* however many uploads of the same bytes, failing calls, ends of the      *)
(* process and recoveries interleave, or however often power is lost       *)
(* (install_final_file, publish_final_file, recover).                      *)
THEOREM BlobsStayWhole ==
    ASSUME FaultsApart
    PROVE  Spec => []BlobsAreWhole
  <1>1. BlobInv => BlobsAreWhole
    BY Zenon DEF BlobInv
  <1> QED BY <1>1, BlobInvariant, PTL

(* Committed offsets count acknowledged bytes, the staging file starts     *)
(* with them, a finalized upload is all of them with the declared digest,  *)
(* and a session recover() has to finish finds them in staging or at the   *)
(* final path (append_chunk, begin_upload_finalize, recover).              *)
THEOREM UploadsKeepTheirBytes ==
    ASSUME FaultsApart
    PROVE  Spec => []UploadIsWhatWasSent
  <1>1. ASSUME BlobInv, NEW u \in Uploads, Known(u)
        PROVE  /\ session[u].offset = Len(accepted[u])
               /\ session[u].state = "active" =>
                     IF staging[u] = None THEN u \in expired
                     ELSE /\ Len(staging[u]) >= session[u].offset
                          /\ Truncated(u) = accepted[u]
               /\ session[u].state # "active" =>
                     /\ session[u].final = accepted[u] /\ IsFull(u)
                     /\ session[u].expected \in {None, session[u].final}
               /\ NeedsFinalization(u) /\ Untouched =>
                     \/ staging[u] = accepted[u]
                     \/ session[u].state = "finalizing" /\ file[session[u].final] = accepted[u]
    <2>1. RowSound(u)
      BY <1>1, KnownRow, Zenon
    <2>2. NeedsFinalization(u) /\ Untouched =>
             \/ staging[u] = accepted[u]
             \/ session[u].state = "finalizing" /\ file[session[u].final] = accepted[u]
      BY <2>1, Zenon DEF RowSound, NeedsFinalization
    <2> QED BY <2>1, <2>2, Zenon DEF RowSound
  <1>2. BlobInv => UploadIsWhatWasSent
    BY <1>1, Zenon DEF UploadIsWhatWasSent
  <1> QED BY <1>2, BlobInvariant, PTL

(* A cached verification is about the bytes the file holds, whatever       *)
(* changes it between hashing and caching (blob).                          *)
THEOREM CacheIsSound ==
    ASSUME FaultsApart
    PROVE  Spec => []CacheVouchesForBytes
  <1>1. BlobInv => CacheVouchesForBytes
    BY Zenon DEF BlobInv, CacheSound, CacheVouchesForBytes
  <1> QED BY <1>1, BlobInvariant, PTL
===============================================================================
