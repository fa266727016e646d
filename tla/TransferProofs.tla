---------------------------- MODULE TransferProofs ----------------------------
(***************************************************************************)
(* The safety properties of ResourceTransfers for every set of contents,   *)
(* peers and upload ids, every length and every number of faults.          *)
(*                                                                         *)
(* The worker acts on what it learned in an earlier step.  The inductive   *)
(* invariant says what still holds of it: the upload URL it works with is  *)
(* one of its row; a full offset of an upload was published by the peer;   *)
(* a full offset of a download is the blob, unless a crash or damage came  *)
(* in between; and a partial file is full only while it is being verified. *)
(***************************************************************************)
EXTENDS ResourceTransfers, TLAPS

Labels == {"idle", "scan", "mark", "next", "probe", "open", "note", "send", "fetch",
           "append", "write", "verify", "record", "complete", "continue", "retry",
           "reject", "wait"}
RowLabels == Labels \ {"idle", "scan", "mark", "next"}
States == {"none", "waiting", "pending", "leased", "complete", "rejected"}

Entry == [state : States, lease : BOOLEAN, url : Uploads \cup {None}, bytes : Nat]
Entity == [known : BOOLEAN, available : BOOLEAN, expected : BOOLEAN]
Session == [peer : Peers \cup {None}, of : Contents \cup {None}, offset : Nat]
Job == [at : Labels, row : Rows \cup Contents \cup {None},
        rest : SUBSET (Rows \X (Uploads \cup {None})), scan : SUBSET Contents,
        url : Uploads \cup {None}, offset : Nat, chunk : Nat]

(* The shape of the state. *)
Types ==
    /\ length \in [Contents -> Nat] /\ resource \in [Contents -> Entity]
    /\ transfer \in [Rows -> Entry] /\ peers \subseteq Peers
    /\ part \in [Contents -> Seq(Nat) \cup {None}]
    /\ blob \in [Contents -> Seq(Nat) \cup {None}]
    /\ held \in [Peers -> SUBSET Contents] /\ upload \in [Uploads -> Session]
    /\ flying \subseteq Uploads \X Nat /\ job \in Job
    /\ cut \subseteq Contents /\ spoilt \subseteq Contents /\ faults \in Nat

(* Upload u was made for row r; it may have expired since.                 *)
Belongs(r, u) ==
    u # None => upload[u].peer = r[1] /\ upload[u].of \in {None, r[2]}

(* A node takes no more chunks than there are, and publishes with the last. *)
UploadsSound ==
    /\ \A u \in Uploads :
          upload[u].of # None =>
              /\ upload[u].peer # None
              /\ upload[u].offset <= length[upload[u].of]
              /\ upload[u].offset = length[upload[u].of]
                    => upload[u].of \in held[upload[u].peer]
    /\ \A f \in flying :
          /\ upload[f[1]].peer # None
          /\ upload[f[1]].of # None => f[2] < length[upload[f[1]].of]

RowsSound ==
    \A r \in Rows :
        /\ Belongs(r, transfer[r].url)
        /\ transfer[r].bytes <= length[r[2]]
        /\ transfer[r].lease => transfer[r].state = "leased"

(* The bytes of c are here, or something happened to them.                 *)
Here(c) == blob[c] = Whole(c) \/ c \in cut \cup spoilt \/ length[c] = 0

BlobsSound ==
    /\ \A c \in Contents \ spoilt : blob[c] \in {None, Whole(c)}
    /\ \A c \in Contents : resource[c].available => Here(c)

(* A partial file is full only between its last chunk and its verification. *)
PartsSound ==
    \A c \in Contents :
        part[c] # None =>
            /\ Len(part[c]) <= length[c]
            /\ Len(part[c]) = length[c] => c \in cut \cup spoilt \cup Verifying

(* What the worker knows about the row it works on.                        *)
UploadKnown ==
    /\ job.at \in {"note", "record"} =>
          job.offset <= length[C] /\ (job.offset = length[C] => C \in held[P])
    /\ job.at = "send" => job.offset < length[C]
    /\ job.at \in {"note", "send"} => job.url # None
    /\ job.at = "complete" => C \in held[P]
    /\ job.at \notin {"fetch", "append", "write", "verify"}

PartLength(c) == IF part[c] = None THEN 0 ELSE Len(part[c])

DownloadKnown ==
    /\ job.at = "record" =>
          job.offset <= length[C] /\ (job.offset = length[C] => Here(C))
    /\ job.at = "complete" => Here(C)
    /\ job.at \in {"append", "write"} => job.offset < length[C]
    /\ job.at = "write" => job.offset = PartLength(C)
    /\ job.at = "verify" => job.offset = length[C]
    /\ job.at \notin {"open", "note", "send"}

Marked(c) == blob[c] = Whole(c) \/ c \in spoilt

JobSound ==
    /\ \A i \in job.rest : Belongs(i[1], i[2])
    /\ job.at = "mark" => job.row \in Contents /\ Marked(job.row)
    /\ job.at \in RowLabels =>
          /\ job.row \in Rows /\ Belongs(job.row, job.url)
          /\ Uploading => UploadKnown
          /\ ~Uploading => DownloadKnown

TransferInv ==
    /\ Types /\ UploadsSound /\ RowsSound /\ BlobsSound /\ PartsSound
    /\ JobSound /\ CompletedIsHeld

USE TransferAssumption

-------------------------------------------------------------------------------
(* Rows, records of the tables and the worker's record.                    *)

LEMMA RowParts ==
    \A r \in Rows : r[1] \in Peers /\ r[2] \in Contents /\ r[3] \in {"upload", "download"}
BY Zenon DEF Rows

LEMMA NoneApart ==
    /\ None \notin Contents /\ None \notin Peers /\ None \notin Uploads
    /\ None \notin Nat /\ None \notin Seq(Nat)
BY Zenon

LEMMA RowTypes ==
    /\ NoRow \in Entry /\ NoRow.url = None /\ NoRow.bytes = 0 /\ ~NoRow.lease
    /\ NoRow.state = "none"
    /\ \A s \in States :
          LET e == [NoRow EXCEPT !.state = s]
          IN  e \in Entry /\ e.state = s /\ e.url = None /\ e.bytes = 0 /\ ~e.lease
BY Zenon DEF NoRow, Entry, States

LEMMA IdleType ==
    Idle \in Job /\ Idle.at = "idle" /\ Idle.rest = {}
BY Zenon DEF Idle, Job, Labels

LEMMA GotoJob ==
    ASSUME job \in Job, NEW l \in Labels, Goto(l)
    PROVE  /\ job' \in Job /\ job'.at = l /\ job'.row = job.row /\ job'.rest = job.rest
           /\ job'.url = job.url /\ job'.offset = job.offset /\ job'.chunk = job.chunk
BY Zenon DEF Goto, Job

LEMMA NewSession ==
    /\ NoUpload \in Session /\ NoUpload.peer = None /\ NoUpload.of = None
BY Zenon DEF NoUpload, Session

LEMMA WholeType ==
    ASSUME Types, NEW c \in Contents
    PROVE  Whole(c) \in Seq(Nat) /\ Len(Whole(c)) = length[c] /\ Whole(c) # None
<1>1. length[c] \in Nat BY Zenon DEF Types
<1>2. Whole(c) \in Seq(Nat) /\ Len(Whole(c)) = length[c] BY <1>1 DEF Whole
<1> QED BY <1>2, Zenon

-------------------------------------------------------------------------------
(* What is true of the store and of the worker stays true while others     *)
(* move: published content stays, an upload keeps its peer and is of its   *)
(* content until it expires, and a blob changes only when it is spoilt.    *)

Keeps ==
    /\ length' = length
    /\ \A p \in Peers : held[p] \subseteq held'[p]
    /\ \A c \in Contents : (Here(c) => Here(c)') /\ (Marked(c) => Marked(c)')
    /\ \A r \in Rows, u \in Uploads \cup {None} : Belongs(r, u) => Belongs(r, u)'

LEMMA WorkerRow ==
    ASSUME TransferInv, job.at \in RowLabels
    PROVE  /\ job.row \in Rows /\ C \in Contents /\ P \in Peers /\ length[C] \in Nat
           /\ job.url \in Uploads \cup {None} /\ Belongs(job.row, job.url)
           /\ job.offset \in Nat
BY RowParts, Zenon DEF TransferInv, JobSound, C, P, Types, Job

LEMMA RestRows ==
    ASSUME TransferInv, NEW i \in job.rest
    PROVE  i[1] \in Rows /\ i[2] \in Uploads \cup {None} /\ Belongs(i[1], i[2])
BY Zenon DEF TransferInv, JobSound, Types, Job

LEMMA JobKept ==
    ASSUME TransferInv, Keeps, job' = job, part' = part
    PROVE  JobSound'
<1>1. \A i \in job.rest : Belongs(i[1], i[2])'
  BY RestRows, Zenon DEF Keeps
<1>2. job.at = "mark" => job.row \in Contents /\ Marked(job.row)'
  BY Zenon DEF TransferInv, JobSound, Keeps
<1>3. ASSUME job.at \in RowLabels
      PROVE  /\ job.row \in Rows /\ Belongs(job.row, job.url)'
             /\ Uploading => UploadKnown'
             /\ ~Uploading => DownloadKnown'
  <2>1. job.row \in Rows /\ C \in Contents /\ P \in Peers /\ Belongs(job.row, job.url)'
    BY <1>3, WorkerRow, Zenon DEF Keeps
  <2>2. ASSUME Uploading PROVE UploadKnown'
    <3>1. UploadKnown BY <1>3, <2>2, Zenon DEF TransferInv, JobSound
    <3>2. C' = C /\ P' = P /\ length'[C] = length[C] /\ (C \in held[P] => C \in held'[P])
      BY <2>1, Zenon DEF Keeps, C, P
    <3> QED BY <3>1, <3>2, Zenon DEF UploadKnown
  <2>3. ASSUME ~Uploading PROVE DownloadKnown'
    <3>1. DownloadKnown BY <1>3, <2>3, Zenon DEF TransferInv, JobSound
    <3>2. C' = C /\ length'[C] = length[C] BY <2>1, Zenon DEF Keeps, C
    <3>3. PartLength(C)' = PartLength(C) BY <3>2, Zenon DEF PartLength
    <3>4. Here(C) => Here(C)'
      <4> DEFINE c == C
      <4>1. Here(c) => (blob'[c] = Whole(c)' \/ c \in (cut \cup spoilt)' \/ length'[c] = 0)
        BY <2>1, <3>2, Zenon DEF Keeps, Here
      <4> QED BY <3>2, <4>1, Zenon DEF Here, Whole
    <3> QED BY <3>1, <3>2, <3>3, <3>4, Zenon DEF DownloadKnown
  <2> QED BY <2>1, <2>2, <2>3, Zenon
<1> QED BY <1>1, <1>2, <1>3, Zenon DEF JobSound, Uploading, Marked, Belongs

LEMMA SameKeeps ==
    ASSUME UNCHANGED <<length, held, upload, blob, cut, spoilt>>
    PROVE  Keeps
BY Zenon DEF Keeps, Here, Marked, Belongs, Whole

LEMMA UploadsKept ==
    ASSUME TransferInv, UNCHANGED <<length, upload, flying>>,
           \A p \in Peers : held[p] \subseteq held'[p]
    PROVE  UploadsSound'
<1>1. \A u \in Uploads : upload[u].of # None => upload[u].peer \in Peers
  BY Zenon DEF TransferInv, UploadsSound, Types, Session
<1> QED BY <1>1, Zenon DEF TransferInv, UploadsSound

LEMMA BlobsKept ==
    ASSUME TransferInv, UNCHANGED <<length, blob, cut, spoilt>>,
           \A c \in Contents : resource'[c].available => Here(c)
    PROVE  BlobsSound'
BY Zenon DEF TransferInv, BlobsSound, Here, Whole

LEMMA PartsKept ==
    ASSUME TransferInv, UNCHANGED <<length, part, cut, spoilt>>, Verifying \subseteq Verifying'
    PROVE  PartsSound'
BY Zenon DEF TransferInv, PartsSound

(* A step that changes the tables only.                                    *)
LEMMA TableStep ==
    ASSUME TransferInv, UNCHANGED <<length, files, remote, job, cut, spoilt>>,
           resource' \in [Contents -> Entity], transfer' \in [Rows -> Entry],
           peers' \subseteq Peers, faults' \in Nat,
           \A c \in Contents : resource'[c].available => Here(c),
           RowsSound', CompletedIsHeld'
    PROVE  TransferInv'
<1>1. Types' BY Zenon DEF TransferInv, Types, files, remote
<1>2. JobSound' BY SameKeeps, JobKept, Zenon DEF files, remote
<1>3. UploadsSound' /\ BlobsSound' BY UploadsKept, BlobsKept, Zenon DEF files, remote
<1>4. PartsSound' BY PartsKept, Zenon DEF files, Verifying, At, C
<1> QED BY <1>1, <1>2, <1>3, <1>4, Zenon DEF TransferInv

(* A row as it was, or as it is queued.                                    *)
Renewed(r) ==
    \/ transfer'[r] = transfer[r]
    \/ \E s \in {"waiting", "pending", "complete"} :
          /\ transfer'[r] = [NoRow EXCEPT !.state = s]
          /\ r[3] = "upload" => s # "complete"

LEMMA RenewedSound ==
    ASSUME TransferInv, UNCHANGED <<length, held, upload>>,
           transfer' = [r \in Rows |-> transfer'[r]], \A r \in Rows : Renewed(r)
    PROVE  transfer' \in [Rows -> Entry] /\ RowsSound' /\ CompletedIsHeld'
<1>1. ASSUME NEW r \in Rows
      PROVE  /\ transfer'[r] \in Entry /\ Belongs(r, transfer'[r].url)
             /\ transfer'[r].bytes <= length[r[2]]
             /\ transfer'[r].lease => transfer'[r].state = "leased"
             /\ r[3] = "upload" /\ transfer'[r].state = "complete" => r[2] \in held[r[1]]
  <2>1. CASE transfer'[r] = transfer[r]
    BY <2>1, Zenon DEF TransferInv, Types, RowsSound, CompletedIsHeld
  <2>2. ASSUME NEW s \in {"waiting", "pending", "complete"},
               transfer'[r] = [NoRow EXCEPT !.state = s], r[3] = "upload" => s # "complete"
        PROVE  /\ transfer'[r] \in Entry /\ Belongs(r, transfer'[r].url)
               /\ transfer'[r].bytes <= length[r[2]]
               /\ transfer'[r].lease => transfer'[r].state = "leased"
               /\ r[3] = "upload" /\ transfer'[r].state = "complete" => r[2] \in held[r[1]]
    <3>1. s \in States BY Zenon DEF States
    <3>2. /\ transfer'[r] \in Entry /\ transfer'[r].state = s /\ transfer'[r].url = None
          /\ transfer'[r].bytes = 0 /\ ~transfer'[r].lease
      BY <2>2, <3>1, RowTypes, Zenon
    <3>3. 0 <= length[r[2]] BY RowParts DEF TransferInv, Types
    <3> QED BY <2>2, <3>2, <3>3, Zenon DEF Belongs
  <2> QED BY <2>1, <2>2, Zenon DEF Renewed
<1>2. transfer' \in [Rows -> Entry] BY <1>1, Zenon
<1>3. RowsSound' BY <1>1, Zenon DEF RowsSound, Belongs
<1>4. CompletedIsHeld' BY <1>1, Zenon DEF CompletedIsHeld
<1> QED BY <1>2, <1>3, <1>4, Zenon

LEMMA UploadStates ==
    \A r \in Rows : UploadState(r) \in {"waiting", "pending"}
BY Zenon DEF UploadState

LEMMA EntityMarks ==
    ASSUME NEW e \in Entity
    PROVE  /\ [e EXCEPT !.known = TRUE] \in Entity
           /\ [e EXCEPT !.known = TRUE].available = e.available
           /\ [e EXCEPT !.known = TRUE, !.expected = TRUE] \in Entity
           /\ [e EXCEPT !.known = TRUE, !.expected = TRUE].available = e.available
BY Zenon DEF Entity

(* A change of one row of client_resources.                                *)
LEMMA EntityChange ==
    ASSUME Types, NEW c \in Contents, NEW e \in Entity,
           resource' = [resource EXCEPT ![c] = e]
    PROVE  /\ resource' \in [Contents -> Entity] /\ resource'[c] = e
           /\ \A d \in Contents : d # c => resource'[d] = resource[d]
BY Zenon DEF Types

LEMMA CommitLocalSound ==
    ASSUME TransferInv, NEW c \in Contents, CommitLocal(c)
    PROVE  TransferInv'
<1>1. \A r \in Rows : Renewed(r)
  BY UploadStates, Zenon DEF CommitLocal, Insert, Renewed, NoRow
<1>2. transfer' = [r \in Rows |-> transfer'[r]] BY Zenon DEF CommitLocal, Insert
<1>3. /\ resource' \in [Contents -> Entity]
      /\ \A d \in Contents : resource'[d].available = resource[d].available
  <2> DEFINE e == [resource[c] EXCEPT !.known = TRUE, !.expected = TRUE]
  <2>1. e \in Entity /\ e.available = resource[c].available
    <3>1. resource[c] \in Entity BY Zenon DEF TransferInv, Types
    <3> QED BY <3>1, EntityMarks, Zenon
  <2>2. resource' = [resource EXCEPT ![c] = e] BY Zenon DEF CommitLocal, TransferInv, Types, Entity
  <2> HIDE DEF e
  <2> QED BY <2>1, <2>2, EntityChange, Zenon DEF TransferInv
<1>4. \A d \in Contents : resource'[d].available => Here(d)
  BY <1>3, Zenon DEF TransferInv, BlobsSound
<1>5. UNCHANGED <<length, files, remote, job, cut, spoilt, peers, faults>>
  BY Zenon DEF CommitLocal
<1> QED BY <1>1, <1>2, <1>3, <1>4, <1>5, RenewedSound, TableStep, Zenon
        DEF remote, TransferInv, Types

LEMMA CommitFromPeerSound ==
    ASSUME TransferInv, NEW p \in Peers, NEW c \in Contents, CommitFromPeer(p, c)
    PROVE  TransferInv'
<1>1. \A r \in Rows : Renewed(r)
  BY UploadStates, RowParts, Zenon DEF CommitFromPeer, Insert, Renewed, NoRow, Up
<1>2. transfer' = [r \in Rows |-> transfer'[r]] BY Zenon DEF CommitFromPeer, Insert
<1>3. /\ resource' \in [Contents -> Entity]
      /\ \A d \in Contents : resource'[d].available = resource[d].available
  <2> DEFINE e == [resource[c] EXCEPT !.known = TRUE]
  <2>1. e \in Entity /\ e.available = resource[c].available
    <3>1. resource[c] \in Entity BY Zenon DEF TransferInv, Types
    <3> QED BY <3>1, EntityMarks, Zenon
  <2>2. resource' = [resource EXCEPT ![c] = e]
    BY Zenon DEF CommitFromPeer, TransferInv, Types, Entity
  <2> HIDE DEF e
  <2> QED BY <2>1, <2>2, EntityChange, Zenon DEF TransferInv
<1>4. \A d \in Contents : resource'[d].available => Here(d)
  BY <1>3, Zenon DEF TransferInv, BlobsSound
<1>5. UNCHANGED <<length, files, remote, job, cut, spoilt, peers, faults>>
  BY Zenon DEF CommitFromPeer
<1> QED BY <1>1, <1>2, <1>3, <1>4, <1>5, RenewedSound, TableStep, Zenon
        DEF remote, TransferInv, Types

LEMMA AddPeerSound ==
    ASSUME TransferInv, NEW p \in Peers, AddPeer(p)
    PROVE  TransferInv'
<1>1. \A r \in Rows : Renewed(r)
  BY UploadStates, Zenon DEF AddPeer, Insert, Renewed, NoRow
<1>2. transfer' = [r \in Rows |-> transfer'[r]] BY Zenon DEF AddPeer, Insert
<1>3. peers' \subseteq Peers BY Zenon DEF AddPeer, TransferInv, Types
<1>4. UNCHANGED <<length, files, remote, job, cut, spoilt, resource, faults>>
  BY Zenon DEF AddPeer
<1> QED BY <1>1, <1>2, <1>3, <1>4, RenewedSound, TableStep, Zenon
        DEF remote, TransferInv, Types, BlobsSound

LEMMA FaultType ==
    ASSUME Types, Fault
    PROVE  faults' \in Nat
BY DEF Types, Fault

LEMMA RequeueSound ==
    ASSUME TransferInv, NEW p \in Peers, Requeue(p)
    PROVE  TransferInv'
<1>1. \A r \in Rows : Renewed(r)
  BY UploadStates, Zenon DEF Requeue, Renewed, NoRow
<1>2. transfer' = [r \in Rows |-> transfer'[r]] BY Zenon DEF Requeue
<1>3. faults' \in Nat BY FaultType, Zenon DEF Requeue, TransferInv
<1>4. UNCHANGED <<length, files, remote, job, cut, spoilt, resource, peers>>
  BY Zenon DEF Requeue
<1> QED BY <1>1, <1>2, <1>3, <1>4, RenewedSound, TableStep, Zenon
        DEF remote, TransferInv, Types, BlobsSound


-------------------------------------------------------------------------------
(* Steps of the worker: what a step must show.                             *)

(* A store transaction of the worker, or a step that only moves it on.     *)
LEMMA StoreStep ==
    ASSUME TransferInv, UNCHANGED <<length, files, remote, peers, cut, spoilt>>,
           ~At("verify"), faults' \in Nat,
           resource' \in [Contents -> Entity], transfer' \in [Rows -> Entry],
           \A c \in Contents : resource'[c].available => Here(c),
           RowsSound', CompletedIsHeld', job' \in Job, JobSound'
    PROVE  TransferInv'
<1>1. Types' BY Zenon DEF TransferInv, Types, files, remote
<1>2. UploadsSound' /\ BlobsSound' BY UploadsKept, BlobsKept, Zenon DEF files, remote
<1>3. Verifying = {} BY Zenon DEF Verifying
<1>4. PartsSound' BY <1>3, PartsKept, Zenon DEF files
<1> QED BY <1>1, <1>2, <1>4, Zenon DEF TransferInv

LEMMA JobMove ==
    ASSUME TransferInv, UNCHANGED <<length, files, remote, tables, cut, spoilt>>,
           ~At("verify"), faults' \in Nat, job' \in Job, JobSound'
    PROVE  TransferInv'
<1>1. RowsSound' /\ CompletedIsHeld'
  BY Zenon DEF TransferInv, RowsSound, CompletedIsHeld, Belongs, tables, remote
<1> QED BY <1>1, StoreStep, Zenon DEF TransferInv, Types, BlobsSound, tables

LEMMA FilesKeep ==
    ASSUME UNCHANGED <<length, files, remote, cut, spoilt>>
    PROVE  Keeps
BY SameKeeps, Zenon DEF files, remote

(* The worker has no row.                                                  *)
LEMMA NoRowJob ==
    ASSUME TransferInv, Keeps, job' \in Job, job'.at \in {"idle", "scan", "next"},
           job'.rest \subseteq job.rest
    PROVE  JobSound'
<1>1. \A i \in job'.rest : Belongs(i[1], i[2])'
  BY RestRows, Zenon DEF Keeps
<1>2. job'.at # "mark" /\ job'.at \notin RowLabels BY Zenon DEF RowLabels
<1> QED BY <1>1, <1>2, Zenon DEF JobSound, Belongs

(* The worker goes on with its row.                                        *)
LEMMA RowJob ==
    ASSUME TransferInv, Keeps, job.at \in RowLabels, job' \in Job, job'.at \in RowLabels,
           job'.row = job.row, job'.rest = job.rest, Belongs(job.row, job.url)',
           Uploading => UploadKnown', ~Uploading => DownloadKnown'
    PROVE  JobSound'
<1>1. \A i \in job'.rest : Belongs(i[1], i[2])'
  BY RestRows, Zenon DEF Keeps
<1>2. job'.at # "mark" /\ job'.row \in Rows BY WorkerRow, Zenon DEF RowLabels
<1> QED BY <1>1, <1>2, Zenon DEF JobSound, Belongs, Uploading

(* Nothing more need be known of a row that ends.                          *)
LEMMA EndJob ==
    ASSUME TransferInv, Keeps, job.at \in RowLabels, job' \in Job,
           job'.at \in {"continue", "retry", "reject", "wait"},
           job'.row = job.row, job'.rest = job.rest, job'.url = job.url
    PROVE  JobSound'
<1>1. Belongs(job.row, job.url)'
  <2>1. job.row \in Rows /\ job.url \in Uploads \cup {None} /\ Belongs(job.row, job.url)
    BY WorkerRow, Zenon
  <2> QED BY <2>1, Zenon DEF Keeps, Belongs
<1>2. UploadKnown' /\ DownloadKnown' BY Zenon DEF UploadKnown, DownloadKnown
<1>3. job'.at \in RowLabels BY Zenon DEF RowLabels, Labels
<1> QED BY <1>1, <1>2, <1>3, RowJob, Zenon

LEMMA FailureLabel ==
    \A k : OnFailure(k) \in {"retry", "reject", "wait"}
BY Zenon DEF OnFailure

LEMMA FailJob ==
    ASSUME TransferInv, Keeps, job.at \in RowLabels, NEW k, Goto(OnFailure(k))
    PROVE  job' \in Job /\ JobSound' /\ ~At("verify")'
<1>1. OnFailure(k) \in {"retry", "reject", "wait"} BY FailureLabel, Zenon
<1>2. OnFailure(k) \in Labels BY <1>1, Zenon DEF Labels
<1>3. /\ job' \in Job /\ job'.at = OnFailure(k) /\ job'.row = job.row
      /\ job'.rest = job.rest /\ job'.url = job.url
  BY <1>2, GotoJob, Zenon DEF TransferInv, Types
<1>4. ~At("verify")' BY <1>1, <1>3, Zenon DEF At
<1> QED BY <1>1, <1>3, <1>4, EndJob, Zenon

(* A row of the table as it may be.                                        *)
RowOK(r, e) ==
    /\ e \in Entry /\ Belongs(r, e.url) /\ e.bytes <= length[r[2]]
    /\ e.lease => e.state = "leased"
    /\ r[3] = "upload" /\ e.state = "complete" => r[2] \in held[r[1]]

LEMMA OldRowOK ==
    ASSUME TransferInv
    PROVE  \A r \in Rows : RowOK(r, transfer[r])
BY Zenon DEF TransferInv, Types, RowsSound, CompletedIsHeld, RowOK

LEMMA RowsChange ==
    ASSUME UNCHANGED <<length, held, upload>>,
           transfer' = [r \in Rows |-> transfer'[r]], \A r \in Rows : RowOK(r, transfer'[r])
    PROVE  transfer' \in [Rows -> Entry] /\ RowsSound' /\ CompletedIsHeld'
<1>1. transfer' \in [Rows -> Entry] BY Zenon DEF RowOK
<1>2. RowsSound' BY Zenon DEF RowsSound, RowOK, Belongs
<1>3. CompletedIsHeld' BY Zenon DEF CompletedIsHeld, RowOK
<1> QED BY <1>1, <1>2, <1>3, Zenon

LEMMA RowChange ==
    ASSUME TransferInv, UNCHANGED <<length, held, upload>>, NEW r \in Rows, NEW e,
           RowOK(r, e), transfer' = [transfer EXCEPT ![r] = e]
    PROVE  transfer' \in [Rows -> Entry] /\ RowsSound' /\ CompletedIsHeld'
<1>1. /\ transfer' = [q \in Rows |-> transfer'[q]] /\ transfer'[r] = e
      /\ \A q \in Rows : q # r => transfer'[q] = transfer[q]
  BY Zenon DEF TransferInv, Types
<1>2. \A q \in Rows : RowOK(q, transfer'[q]) BY <1>1, OldRowOK, Zenon
<1> QED BY <1>1, <1>2, RowsChange, Zenon

(* The lease and the state of a row change.                                *)
LEMMA RowMoves ==
    ASSUME NEW r \in Rows, NEW e, RowOK(r, e)
    PROVE  /\ RowOK(r, [e EXCEPT !.lease = FALSE])
           /\ RowOK(r, [e EXCEPT !.state = "leased", !.lease = TRUE])
           /\ \A s \in {"pending", "rejected", "waiting"} :
                 RowOK(r, [e EXCEPT !.lease = FALSE, !.state = s])
<1>1. e \in Entry BY Zenon DEF RowOK
<1>2. \A b \in BOOLEAN, s \in States :
         LET f == [e EXCEPT !.lease = b, !.state = s]
         IN f \in Entry /\ f.url = e.url /\ f.bytes = e.bytes /\ f.state = s /\ f.lease = b
  BY <1>1, Zenon DEF Entry
<1>3. LET f == [e EXCEPT !.lease = FALSE]
      IN f \in Entry /\ f.url = e.url /\ f.bytes = e.bytes /\ f.state = e.state /\ ~f.lease
  BY <1>1, Zenon DEF Entry
<1>4. [e EXCEPT !.state = "leased", !.lease = TRUE] = [e EXCEPT !.lease = TRUE, !.state = "leased"]
  BY <1>1, Zenon DEF Entry
<1>5. "leased" \in States /\ \A s \in {"pending", "rejected", "waiting"} :
         s \in States /\ s # "complete"
  BY Zenon DEF States
<1>6. RowOK(r, [e EXCEPT !.lease = FALSE]) BY <1>3, Zenon DEF RowOK
<1>7. RowOK(r, [e EXCEPT !.lease = TRUE, !.state = "leased"]) BY <1>2, <1>5, Zenon DEF RowOK
<1>8. ASSUME NEW s \in {"pending", "rejected", "waiting"}
      PROVE  RowOK(r, [e EXCEPT !.lease = FALSE, !.state = s])
  BY <1>2, <1>5, Zenon DEF RowOK
<1> QED BY <1>4, <1>6, <1>7, <1>8, Zenon

LEMMA ForgetSound ==
    ASSUME TransferInv, UNCHANGED <<length, held, upload>>, transfer' = Forget
    PROVE  transfer' \in [Rows -> Entry] /\ RowsSound' /\ CompletedIsHeld'
<1>1. /\ transfer' = [r \in Rows |-> transfer'[r]]
      /\ \A r \in Rows : transfer'[r] = [transfer[r] EXCEPT !.lease = FALSE]
  BY Zenon DEF Forget
<1>2. ASSUME NEW r \in Rows PROVE RowOK(r, transfer'[r])
  <2>1. RowOK(r, transfer[r]) BY OldRowOK, Zenon
  <2>2. RowOK(r, [transfer[r] EXCEPT !.lease = FALSE]) BY <2>1, RowMoves, Zenon
  <2> QED BY <1>1, <2>2, Zenon
<1> QED BY <1>1, <1>2, RowsChange, Zenon


-------------------------------------------------------------------------------
(* run_cycle: the scan and the leases.                                     *)

LEMMA SettleRows ==
    ASSUME TransferInv, NEW c \in Contents, NEW table, \A r \in Rows : RowOK(r, table[r])
    PROVE  /\ Settle(c, table) = [r \in Rows |-> Settle(c, table)[r]]
           /\ \A r \in Rows : RowOK(r, Settle(c, table)[r])
<1>1. Settle(c, table) = [r \in Rows |-> Settle(c, table)[r]] BY Zenon DEF Settle
<1>2. ASSUME NEW r \in Rows PROVE RowOK(r, Settle(c, table)[r])
  <2> DEFINE d == [NoRow EXCEPT !.state = "complete", !.bytes = length[c]]
             p == [table[r] EXCEPT !.state = "pending"]
  <2>1. RowOK(r, table[r]) BY Zenon
  <2>2. ASSUME r \in Down(c) PROVE RowOK(r, d)
    <3>1. r[2] = c /\ r[3] = "download" BY <2>2, Zenon DEF Down
    <3>2. length[c] \in Nat BY Zenon DEF TransferInv, Types
    <3>3. d \in Entry /\ d.url = None /\ d.bytes = length[c] /\ ~d.lease
      BY <3>2, Zenon DEF NoRow, Entry, States
    <3>4. length[c] <= length[c] /\ r[3] # "upload" BY <3>1, <3>2
    <3> QED BY <3>1, <3>3, <3>4, Zenon DEF RowOK, Belongs
  <2>3. ASSUME table[r].state = "waiting" PROVE RowOK(r, p)
    <3>1. table[r] \in Entry /\ ~table[r].lease
      <4>1. table[r] \in Entry /\ (table[r].lease => table[r].state = "leased")
        BY <2>1, Zenon DEF RowOK
      <4> QED BY <2>3, <4>1, Zenon DEF Entry
    <3>2. /\ p \in Entry /\ p.url = table[r].url /\ p.bytes = table[r].bytes
          /\ ~p.lease /\ p.state = "pending"
      BY <3>1, Zenon DEF Entry, States
    <3> QED BY <2>1, <3>2, Zenon DEF RowOK
  <2>4. Settle(c, table)[r] = IF r \in Down(c) /\ table[r].state \notin {"none", "complete"}
                              THEN d ELSE IF r \in Up(c) /\ table[r].state = "waiting"
                              THEN p ELSE table[r]
    BY Zenon DEF Settle
  <2> HIDE DEF d, p
  <2> QED BY <2>1, <2>2, <2>3, <2>4, Zenon
<1> QED BY <1>1, <1>2, Zenon

LEMMA StartCycleSound ==
    ASSUME TransferInv, StartCycle
    PROVE  TransferInv'
<1>1. UNCHANGED <<length, resource, peers, files, remote, cut, spoilt, faults>>
      /\ At("idle") /\ transfer' = Forget
  BY Zenon DEF StartCycle
<1>2. job' \in Job /\ job'.at = "scan" /\ job'.rest = {}
  <2>1. resource_scan_candidates \subseteq Contents BY Zenon DEF resource_scan_candidates
  <2> QED BY <2>1, Zenon DEF StartCycle, Idle, Job, Labels
<1>3. JobSound' BY <1>1, <1>2, FilesKeep, NoRowJob, Zenon
<1>4. ~At("verify") BY <1>1, Zenon DEF At
<1> QED BY <1>1, <1>2, <1>3, <1>4, ForgetSound, StoreStep, Zenon
        DEF remote, TransferInv, Types, BlobsSound

LEMMA CheckSound ==
    ASSUME TransferInv, NEW c \in Contents, Check(c)
    PROVE  TransferInv'
<1>1. UNCHANGED <<length, tables, files, remote, cut, spoilt, faults>> /\ At("scan")
  BY Zenon DEF Check
<1>2. job' \in Job /\ job'.rest = job.rest /\ job'.at \in {"mark", "scan"}
      /\ (job'.at = "mark" => job'.row = c /\ Blob(c) = "verified")
  BY Zenon DEF Check, TransferInv, Types, Job, Labels
<1>3. ASSUME job'.at = "mark" PROVE JobSound'
  <2>1. blob[c] = Whole(c) BY <1>2, <1>3, Zenon DEF Blob
  <2>2. job'.row \in Contents /\ Marked(job.row)'
    BY <1>1, <1>2, <1>3, <2>1, Zenon DEF Marked, Whole, files
  <2>3. \A i \in job'.rest : Belongs(i[1], i[2])'
    BY <1>1, <1>2, RestRows, FilesKeep, Zenon DEF Keeps
  <2>4. job'.at \notin RowLabels BY <1>3, Zenon DEF RowLabels
  <2> QED BY <2>2, <2>3, <2>4, Zenon DEF JobSound, Belongs, Marked
<1>4. JobSound' BY <1>1, <1>2, <1>3, FilesKeep, NoRowJob, Zenon
<1>5. ~At("verify") BY <1>1, Zenon DEF At
<1> QED BY <1>1, <1>2, <1>4, <1>5, JobMove, Zenon DEF TransferInv, Types

LEMMA mark_resource_localSound ==
    ASSUME TransferInv, mark_resource_local
    PROVE  TransferInv'
<1> DEFINE c == job.row
<1>1. /\ UNCHANGED <<length, peers, files, remote, cut, spoilt, faults>>
      /\ At("mark") /\ transfer' = Settle(c, transfer)
      /\ resource' = [resource EXCEPT ![c].available = TRUE]
      /\ job' = [job EXCEPT !.at = "scan", !.row = None]
  BY Zenon DEF mark_resource_local
<1>2. c \in Contents /\ Here(c)
  BY <1>1, Zenon DEF TransferInv, JobSound, Marked, Here, At
<1>3. job' \in Job /\ job'.at = "scan" /\ job'.rest = job.rest
  BY <1>1, Zenon DEF TransferInv, Types, Job, Labels
<1>4. JobSound' BY <1>1, <1>3, FilesKeep, NoRowJob, Zenon
<1>5. ~At("verify") BY <1>1, Zenon DEF At
<1>6. transfer' \in [Rows -> Entry] /\ RowsSound' /\ CompletedIsHeld'
  BY <1>1, <1>2, SettleRows, OldRowOK, RowsChange, Zenon DEF remote
<1>7. /\ resource' \in [Contents -> Entity]
      /\ \A d \in Contents : resource'[d].available => Here(d)
  <2> DEFINE e == [resource[c] EXCEPT !.available = TRUE]
  <2>1. resource[c] \in Entity BY <1>2, Zenon DEF TransferInv, Types
  <2>2. e \in Entity BY <2>1, Zenon DEF Entity
  <2>3. resource' = [resource EXCEPT ![c] = e] BY <1>1, Zenon
  <2> HIDE DEF e
  <2>4. /\ resource' \in [Contents -> Entity]
        /\ \A d \in Contents : d # c => resource'[d] = resource[d]
    BY <1>2, <2>2, <2>3, EntityChange, Zenon DEF TransferInv
  <2> QED BY <1>2, <2>4, Zenon DEF TransferInv, BlobsSound
<1> QED BY <1>1, <1>3, <1>4, <1>5, <1>6, <1>7, StoreStep, Zenon DEF TransferInv, Types

LEMMA lease_due_resourcesSound ==
    ASSUME TransferInv, lease_due_resources
    PROVE  TransferInv'
<1>1. PICK rows \in SUBSET Due \ {{}} : Lease(rows) /\ UNCHANGED faults
  BY Zenon DEF lease_due_resources
<1>2. UNCHANGED <<length, resource, peers, files, remote, cut, spoilt, faults>> /\ At("scan")
  BY <1>1, Zenon DEF Lease, lease_due_resources
<1>3. rows \subseteq Rows BY Zenon DEF Due
<1>4. /\ job' \in Job /\ job'.at = "next"
      /\ job'.rest = {<<r, transfer[r].url>> : r \in rows}
  <2>1. \A r \in rows : transfer[r].url \in Uploads \cup {None}
    BY <1>3, Zenon DEF TransferInv, Types, Entry
  <2>2. {<<r, transfer[r].url>> : r \in rows} \subseteq Rows \X (Uploads \cup {None})
    BY <1>3, <2>1
  <2> QED BY <1>1, <2>2, Zenon DEF Lease, TransferInv, Types, Job, Labels
<1>5. JobSound'
  <2>1. ASSUME NEW i \in job'.rest PROVE Belongs(i[1], i[2])'
    <3>1. PICK r \in rows : i = <<r, transfer[r].url>> BY <1>4, Zenon
    <3>2. i[1] = r /\ i[2] = transfer[r].url BY <3>1, Zenon
    <3>3. Belongs(r, transfer[r].url) BY <1>3, Zenon DEF TransferInv, RowsSound
    <3> QED BY <1>2, <3>2, <3>3, Zenon DEF Belongs, remote
  <2>2. job'.at # "mark" /\ job'.at \notin RowLabels BY <1>4, Zenon DEF RowLabels
  <2> QED BY <2>1, <2>2, Zenon DEF JobSound, Belongs
<1>6. transfer' \in [Rows -> Entry] /\ RowsSound' /\ CompletedIsHeld'
  <2>1. transfer' = [r \in Rows |-> transfer'[r]] BY <1>1, Zenon DEF Lease
  <2>2. ASSUME NEW r \in Rows PROVE RowOK(r, transfer'[r])
    <3>1. RowOK(r, transfer[r]) BY OldRowOK, Zenon
    <3>2. RowOK(r, [transfer[r] EXCEPT !.state = "leased", !.lease = TRUE])
      BY <3>1, RowMoves, Zenon
    <3>3. \/ transfer'[r] = transfer[r]
          \/ transfer'[r] = [transfer[r] EXCEPT !.state = "leased", !.lease = TRUE]
      BY <1>1, Zenon DEF Lease
    <3> QED BY <3>1, <3>2, <3>3, Zenon
  <2> QED BY <1>2, <2>1, <2>2, RowsChange, Zenon DEF remote
<1>7. ~At("verify") BY <1>2, Zenon DEF At
<1> QED BY <1>2, <1>4, <1>5, <1>6, <1>7, StoreStep, Zenon DEF TransferInv, Types, BlobsSound

(* The worker goes idle.                                                   *)
LEMMA IdleSound ==
    ASSUME TransferInv, job' = Idle, ~At("verify"),
           UNCHANGED <<length, tables, files, remote, cut, spoilt, faults>>
    PROVE  TransferInv'
<1>1. job' \in Job /\ job'.at = "idle" /\ job'.rest \subseteq job.rest
  BY IdleType, Zenon
<1>2. JobSound' BY <1>1, FilesKeep, NoRowJob, Zenon
<1> QED BY <1>1, <1>2, JobMove, Zenon DEF TransferInv, Types

LEMMA Next_rowSound ==
    ASSUME TransferInv, Next_row
    PROVE  TransferInv'
<1>1. UNCHANGED <<length, tables, files, remote, cut, spoilt, faults>> /\ ~At("verify")
  BY Zenon DEF Next_row, At
<1>2. CASE job' = Idle BY <1>1, <1>2, IdleSound, Zenon
<1>3. ASSUME NEW i \in job.rest,
             job' = [job EXCEPT !.at = "probe", !.row = i[1], !.url = i[2], !.rest = @ \ {i}]
      PROVE  TransferInv'
  <2>1. i[1] \in Rows /\ i[2] \in Uploads \cup {None} /\ Belongs(i[1], i[2])
    BY RestRows, Zenon
  <2>2. /\ job' \in Job /\ job'.at = "probe" /\ job'.row = i[1] /\ job'.url = i[2]
        /\ job'.rest \subseteq job.rest
    BY <1>3, <2>1, Zenon DEF TransferInv, Types, Job, Labels
  <2>3. Keeps BY <1>1, FilesKeep, Zenon
  <2>4. \A j \in job'.rest : Belongs(j[1], j[2])' BY <2>2, <2>3, RestRows, Zenon DEF Keeps
  <2>5. Belongs(job.row, job.url)' BY <2>1, <2>2, <2>3, Zenon DEF Keeps, Belongs
  <2>6. job'.at # "mark" /\ UploadKnown' /\ DownloadKnown'
    BY <2>2, Zenon DEF UploadKnown, DownloadKnown
  <2>7. JobSound' BY <2>1, <2>2, <2>4, <2>5, <2>6, Zenon DEF JobSound, Belongs
  <2> QED BY <1>1, <2>2, <2>7, JobMove, Zenon DEF TransferInv, Types
<1> QED BY <1>2, <1>3, Zenon DEF Next_row


-------------------------------------------------------------------------------
(* The exchanges with a peer.                                              *)

LEMMA UploadLabels ==
    ASSUME TransferInv, job.at \in {"open", "note", "send"}
    PROVE  Uploading /\ UploadKnown /\ job.at \in RowLabels /\ ~At("verify")
<1>1. job.at \in RowLabels /\ ~At("verify") BY Zenon DEF RowLabels, Labels, At
<1>2. Uploading BY <1>1, Zenon DEF TransferInv, JobSound, DownloadKnown
<1> QED BY <1>1, <1>2, Zenon DEF TransferInv, JobSound

LEMMA DownloadLabels ==
    ASSUME TransferInv, job.at \in {"fetch", "append", "write", "verify"}
    PROVE  ~Uploading /\ DownloadKnown /\ job.at \in RowLabels
<1>1. job.at \in RowLabels BY Zenon DEF RowLabels, Labels
<1>2. ~Uploading BY <1>1, Zenon DEF TransferInv, JobSound, UploadKnown
<1> QED BY <1>1, <1>2, Zenon DEF TransferInv, JobSound

LEMMA FailMove ==
    ASSUME TransferInv, job.at \in RowLabels, ~At("verify"), NEW k, Goto(OnFailure(k)),
           UNCHANGED <<length, tables, files, remote, cut, spoilt>>, faults' \in Nat
    PROVE  TransferInv'
<1>1. job' \in Job /\ JobSound' BY FilesKeep, FailJob, Zenon
<1> QED BY <1>1, JobMove, Zenon

LEMMA LoseAnswerSound ==
    ASSUME TransferInv, LoseAnswer
    PROVE  TransferInv'
<1>1. job.at \in RowLabels /\ ~At("verify") BY Zenon DEF LoseAnswer, RowLabels, Labels, At
<1>2. faults' \in Nat BY FaultType, Zenon DEF LoseAnswer, TransferInv
<1> QED BY <1>1, <1>2, FailMove, Zenon DEF LoseAnswer

LEMMA ProbeSound ==
    ASSUME TransferInv, Probe
    PROVE  TransferInv'
<1>1. /\ UNCHANGED <<length, tables, files, remote, cut, spoilt, faults>>
      /\ job.at = "probe" /\ job.at \in RowLabels /\ ~At("verify")
  BY Zenon DEF Probe, At, RowLabels, Labels
<1>2. faults' \in Nat BY <1>1, Zenon DEF TransferInv, Types
<1>3. ASSUME NEW l \in {"open", "complete", "fetch"}, Goto(l),
             l = "open" => Uploading, l = "fetch" => ~Uploading,
             l = "complete" => Uploading /\ C \in held[P]
      PROVE  TransferInv'
  <2>1. l \in Labels /\ l \in RowLabels BY Zenon DEF Labels, RowLabels
  <2>2. /\ job' \in Job /\ job'.at = l /\ job'.row = job.row /\ job'.rest = job.rest
        /\ job'.url = job.url
    BY <1>3, <2>1, GotoJob, Zenon DEF TransferInv, Types
  <2>3. Belongs(job.row, job.url)'
    BY <1>1, <2>2, WorkerRow, Zenon DEF Belongs, remote
  <2>4. C' = C /\ P' = P BY <2>2, Zenon DEF C, P
  <2>5. Uploading => UploadKnown' BY <1>1, <1>3, <2>2, <2>4, Zenon DEF UploadKnown, remote
  <2>6. ~Uploading => DownloadKnown' BY <1>3, <2>2, Zenon DEF DownloadKnown
  <2>7. JobSound' BY <1>1, <2>1, <2>2, <2>3, <2>5, <2>6, FilesKeep, RowJob, Zenon
  <2> QED BY <1>1, <1>2, <2>2, <2>7, JobMove, Zenon
<1>4. CASE Goto(OnFailure("retryable")) BY <1>1, <1>2, <1>4, FailMove, Zenon
<1> QED BY <1>3, <1>4, Zenon DEF Probe, blob_availability

LEMMA content_upload_statusSound ==
    ASSUME TransferInv, content_upload_status
    PROVE  TransferInv'
<1> DEFINE u == job.url
           l == IF upload_status(u) = 200 THEN "note"
                ELSE OnFailure(http_failure(upload_status(u)))
<1>1. /\ UNCHANGED <<length, tables, files, remote, cut, spoilt, faults>>
      /\ job.at = "open" /\ u # None
      /\ job' = [job EXCEPT !.at = l, !.offset = upload[u].offset]
  BY Zenon DEF content_upload_status, At
<1>2. Uploading /\ job.at \in RowLabels /\ ~At("verify") BY <1>1, UploadLabels, Zenon
<1>3. u \in Uploads /\ job.row \in Rows /\ Belongs(job.row, u) /\ P \in Peers /\ C \in Contents
  BY <1>1, <1>2, WorkerRow, Zenon
<1>4. (l = "note" /\ upload[u].of # None) \/ l \in {"retry", "reject", "wait"}
  BY FailureLabel DEF upload_status
<1>5. /\ job' \in Job /\ job'.at = l /\ job'.row = job.row /\ job'.rest = job.rest
      /\ job'.url = u /\ job'.offset = upload[u].offset
  <2>1. l \in Labels BY <1>4, Zenon DEF Labels
  <2>2. upload[u].offset \in Nat BY <1>3, Zenon DEF TransferInv, Types, Session
  <2> HIDE DEF l, u
  <2> QED BY <1>1, <2>1, <2>2, Zenon DEF TransferInv, Types, Job, u
<1>6. Keeps BY <1>1, FilesKeep, Zenon
<1>7. CASE l = "note" /\ upload[u].of # None
  <2>1. upload[u].of = C /\ upload[u].peer = P BY <1>1, <1>3, <1>7, Zenon DEF Belongs, C, P
  <2>2. upload[u].offset <= length[C] /\ (upload[u].offset = length[C] => C \in held[P])
    BY <1>3, <1>7, <2>1, Zenon DEF TransferInv, UploadsSound
  <2>3. C' = C /\ P' = P BY <1>5, Zenon DEF C, P
  <2>4. UploadKnown' BY <1>1, <1>5, <1>7, <2>2, <2>3, Zenon DEF UploadKnown, remote
  <2>5. Belongs(job.row, job.url)' BY <1>1, <1>3, <1>5, Zenon DEF Belongs, remote
  <2>6. job'.at \in RowLabels BY <1>5, <1>7, Zenon DEF RowLabels, Labels
  <2> QED BY <1>2, <1>5, <1>6, <2>4, <2>5, <2>6, RowJob, JobMove, <1>1, Zenon
          DEF TransferInv, Types
<1>8. CASE l \in {"retry", "reject", "wait"}
  <2>1. job'.at \in {"continue", "retry", "reject", "wait"} BY <1>5, <1>8, Zenon
  <2>2. JobSound' BY <1>2, <1>5, <1>6, <2>1, EndJob, Zenon
  <2> QED BY <1>1, <1>2, <1>5, <2>2, JobMove, Zenon DEF TransferInv, Types
<1> QED BY <1>4, <1>7, <1>8, Zenon

(* A step in which a peer's node changes.                                  *)
LEMMA RemoteStep ==
    ASSUME TransferInv, Keeps, UNCHANGED <<tables, files, cut, spoilt>>,
           Verifying \subseteq Verifying', faults' \in Nat,
           held' \in [Peers -> SUBSET Contents], upload' \in [Uploads -> Session],
           flying' \subseteq Uploads \X Nat, UploadsSound', job' \in Job, JobSound'
    PROVE  TransferInv'
<1>0. length' = length BY Zenon DEF Keeps
<1>1. Types' BY <1>0, Zenon DEF TransferInv, Types, tables, files
<1>2. BlobsSound' BY <1>0, BlobsKept, Zenon DEF files, tables, TransferInv, BlobsSound
<1>3. PartsSound' BY <1>0, PartsKept, Zenon DEF files
<1>4. RowsSound'
  <2>1. \A r \in Rows : transfer[r].url \in Uploads \cup {None}
    BY Zenon DEF TransferInv, Types, Entry
  <2> QED BY <1>0, <2>1, Zenon DEF TransferInv, RowsSound, Keeps, tables, Belongs
<1>5. CompletedIsHeld'
  BY RowParts, Zenon DEF TransferInv, CompletedIsHeld, Keeps, tables
<1> QED BY <1>1, <1>2, <1>3, <1>4, <1>5, Zenon DEF TransferInv

LEMMA PublishSound ==
    ASSUME TransferInv, NEW p \in Peers, NEW c \in Contents, NEW n, Publish(p, c, n)
    PROVE  /\ held' \in [Peers -> SUBSET Contents]
           /\ \A q \in Peers : held[q] \subseteq held'[q]
           /\ n = length[c] => c \in held'[p]
BY Zenon DEF TransferInv, Types, Publish

LEMMA RemoteKeeps ==
    ASSUME UNCHANGED <<length, blob, cut, spoilt>>,
           \A p \in Peers : held[p] \subseteq held'[p],
           \A r \in Rows, u \in Uploads : Belongs(r, u) => Belongs(r, u)'
    PROVE  Keeps
<1>1. \A c \in Contents : (Here(c) => Here(c)') /\ (Marked(c) => Marked(c)')
  BY Zenon DEF Here, Marked, Whole
<1>2. \A r \in Rows : Belongs(r, None)' BY Zenon DEF Belongs
<1> QED BY <1>1, <1>2, Zenon DEF Keeps


LEMMA create_uploadSound ==
    ASSUME TransferInv, NEW u \in Uploads, NEW p \in Peers, NEW c \in Contents,
           create_upload(u, p, c), UNCHANGED <<length, blob, cut, spoilt, flying>>
    PROVE  /\ Keeps /\ held' \in [Peers -> SUBSET Contents] /\ upload' \in [Uploads -> Session]
           /\ UploadsSound' /\ (0 = length[c] => c \in held'[p])
           /\ upload'[u].peer = p /\ upload'[u].of = c
<1> DEFINE s == [peer |-> p, of |-> c, offset |-> 0]
<1>1. upload[u] = NoUpload /\ upload' = [upload EXCEPT ![u] = s] /\ Publish(p, c, 0)
  BY Zenon DEF create_upload
<1>2. s \in Session /\ s.peer = p /\ s.of = c /\ s.offset = 0 BY Zenon DEF Session
<1> HIDE DEF s
<1>3. /\ upload' \in [Uploads -> Session] /\ upload'[u] = s
      /\ \A v \in Uploads : v # u => upload'[v] = upload[v]
  BY <1>1, <1>2, Zenon DEF TransferInv, Types
<1>4. /\ held' \in [Peers -> SUBSET Contents] /\ (0 = length[c] => c \in held'[p])
      /\ \A q \in Peers : held[q] \subseteq held'[q]
  BY <1>1, PublishSound, Zenon
<1>5. ASSUME NEW r \in Rows, NEW v \in Uploads, Belongs(r, v) PROVE Belongs(r, v)'
  <2>1. CASE v = u
    <3>1. upload[u].peer = r[1] BY <1>5, <2>1, NoneApart, Zenon DEF Belongs
    <3> QED BY <1>1, <3>1, RowParts, NewSession, NoneApart, Zenon
  <2>2. CASE v # u BY <1>3, <1>5, <2>2, Zenon DEF Belongs
  <2> QED BY <2>1, <2>2, Zenon
<1>6. Keeps BY <1>4, <1>5, RemoteKeeps, Zenon
<1>7. ASSUME NEW v \in Uploads, upload'[v].of # None
      PROVE  /\ upload'[v].peer # None /\ upload'[v].offset <= length[upload'[v].of]
             /\ upload'[v].offset = length[upload'[v].of] => upload'[v].of \in held'[upload'[v].peer]
  <2>1. CASE v = u
    <3>1. 0 <= length[c] BY DEF TransferInv, Types
    <3> QED BY <1>2, <1>3, <1>4, <2>1, <3>1, NoneApart, Zenon
  <2>2. CASE v # u
    <3>1. upload'[v] = upload[v] BY <1>3, <2>2, Zenon
    <3>2. upload[v].peer \in Peers
      BY <1>7, <3>1, Zenon DEF TransferInv, UploadsSound, Types, Session
    <3> QED BY <1>4, <1>7, <3>1, <3>2, Zenon DEF TransferInv, UploadsSound
  <2> QED BY <2>1, <2>2, Zenon
<1>8. ASSUME NEW f \in flying
      PROVE  /\ upload'[f[1]].peer # None
             /\ upload'[f[1]].of # None => f[2] < length[upload'[f[1]].of]
  <2>1. f[1] \in Uploads /\ upload[f[1]].peer # None
    BY Zenon DEF TransferInv, Types, UploadsSound
  <2>2. f[1] # u BY <1>1, <2>1, NewSession, Zenon
  <2> QED BY <1>3, <2>1, <2>2, Zenon DEF TransferInv, UploadsSound
<1>9. UploadsSound' BY <1>7, <1>8, Zenon DEF UploadsSound
<1> QED BY <1>2, <1>3, <1>4, <1>6, <1>9, Zenon

LEMMA append_upload_chunkSound ==
    ASSUME TransferInv, NEW u \in Uploads, NEW n \in Nat,
           upload[u].of # None => n < length[upload[u].of],
           append_upload_chunk(u, n), UNCHANGED <<length, blob, cut, spoilt>>,
           flying' \subseteq flying
    PROVE  /\ Keeps /\ held' \in [Peers -> SUBSET Contents] /\ upload' \in [Uploads -> Session]
           /\ UploadsSound' /\ upload[u].of # None
           /\ n + 1 = length[upload[u].of] => upload[u].of \in held'[upload[u].peer]
<1> DEFINE s == [upload[u] EXCEPT !.offset = n + 1]
           p == upload[u].peer
           c == upload[u].of
<1>1. upload[u].of # None BY DEF append_upload_chunk, append_status
<1>2. /\ upload' = [upload EXCEPT ![u] = s] /\ Publish(p, c, n + 1)
  BY Zenon DEF append_upload_chunk
<1>3. p \in Peers /\ c \in Contents /\ upload[u] \in Session
  BY <1>1, Zenon DEF TransferInv, UploadsSound, Types, Session
<1>4. s \in Session /\ s.peer = p /\ s.of = c /\ s.offset = n + 1 BY <1>3 DEF Session
<1> HIDE DEF s
<1>5. /\ upload' \in [Uploads -> Session] /\ upload'[u] = s
      /\ \A v \in Uploads : v # u => upload'[v] = upload[v]
  BY <1>2, <1>4, Zenon DEF TransferInv, Types
<1>6. /\ held' \in [Peers -> SUBSET Contents] /\ (n + 1 = length[c] => c \in held'[p])
      /\ \A q \in Peers : held[q] \subseteq held'[q]
  BY <1>2, <1>3, PublishSound, Zenon
<1>7. \A v \in Uploads : upload'[v].peer = upload[v].peer /\ upload'[v].of = upload[v].of
  BY <1>4, <1>5, Zenon
<1>8. Keeps BY <1>6, <1>7, RemoteKeeps, Zenon DEF Belongs
<1>9. ASSUME NEW v \in Uploads, upload'[v].of # None
      PROVE  /\ upload'[v].peer # None /\ upload'[v].offset <= length[upload'[v].of]
             /\ upload'[v].offset = length[upload'[v].of] => upload'[v].of \in held'[upload'[v].peer]
  <2>1. CASE v = u
    <3>1. n + 1 <= length[c] BY <1>1, <1>3 DEF TransferInv, Types
    <3> QED BY <1>3, <1>4, <1>5, <1>6, <2>1, <3>1, NoneApart, Zenon
  <2>2. CASE v # u
    <3>1. upload'[v] = upload[v] BY <1>5, <2>2, Zenon
    <3>2. upload[v].peer \in Peers
      BY <1>9, <3>1, Zenon DEF TransferInv, UploadsSound, Types, Session
    <3> QED BY <1>6, <1>9, <3>1, <3>2, Zenon DEF TransferInv, UploadsSound
  <2> QED BY <2>1, <2>2, Zenon
<1>10. ASSUME NEW f \in flying'
       PROVE  /\ upload'[f[1]].peer # None
              /\ upload'[f[1]].of # None => f[2] < length[upload'[f[1]].of]
  <2>1. f \in flying /\ f[1] \in Uploads BY DEF TransferInv, Types
  <2> QED BY <1>7, <2>1, Zenon DEF TransferInv, UploadsSound
<1>11. UploadsSound' BY <1>9, <1>10, Zenon DEF UploadsSound
<1> QED BY <1>1, <1>5, <1>6, <1>8, <1>11, Zenon

LEMMA create_content_uploadSound ==
    ASSUME TransferInv, create_content_upload
    PROVE  TransferInv'
<1>1. PICK u \in Uploads :
        /\ job.at = "open" /\ job.url = None /\ create_upload(u, P, C)
        /\ \/ /\ job' = [job EXCEPT !.at = "note", !.url = u, !.offset = 0]
              /\ UNCHANGED faults
           \/ Fault /\ Goto(OnFailure("retryable"))
        /\ UNCHANGED <<length, tables, files, flying, cut, spoilt>>
  BY Zenon DEF create_content_upload, At
<1>2. Uploading /\ job.at \in RowLabels /\ ~At("verify") BY <1>1, UploadLabels, Zenon
<1>3. job.row \in Rows /\ P \in Peers /\ C \in Contents /\ length[C] \in Nat
  BY <1>2, WorkerRow, Zenon
<1> DEFINE p == P
           c == C
<1>4. /\ Keeps /\ held' \in [Peers -> SUBSET Contents] /\ upload' \in [Uploads -> Session]
      /\ UploadsSound' /\ (0 = length[c] => c \in held'[p])
      /\ upload'[u].peer = p /\ upload'[u].of = c
  BY <1>1, <1>3, create_uploadSound, Zenon DEF files
<1>5. Verifying \subseteq Verifying' BY <1>2, Zenon DEF Verifying
<1>6. flying' \subseteq Uploads \X Nat BY <1>1, Zenon DEF TransferInv, Types
<1>7. CASE job' = [job EXCEPT !.at = "note", !.url = u, !.offset = 0] /\ UNCHANGED faults
  <2>1. /\ job' \in Job /\ job'.at = "note" /\ job'.url = u /\ job'.offset = 0
        /\ job'.row = job.row /\ job'.rest = job.rest
    BY <1>7, Zenon DEF TransferInv, Types, Job, Labels
  <2>2. C' = c /\ P' = p BY <2>1, Zenon DEF C, P
  <2>3. Belongs(job.row, job.url)' BY <1>4, <2>1, Zenon DEF Belongs, C, P
  <2>4. length' = length BY <1>1, Zenon
  <2>5. UploadKnown' BY <1>3, <1>4, <2>1, <2>2, <2>4, NoneApart DEF UploadKnown
  <2>6. job'.at \in RowLabels BY <2>1, Zenon DEF RowLabels, Labels
  <2>7. JobSound' BY <1>2, <1>4, <2>1, <2>3, <2>5, <2>6, RowJob, Zenon
  <2> QED BY <1>1, <1>4, <1>5, <1>6, <1>7, <2>1, <2>7, RemoteStep, Zenon DEF TransferInv, Types
<1>8. CASE Fault /\ Goto(OnFailure("retryable"))
  <2>1. job' \in Job /\ JobSound' BY <1>2, <1>4, <1>8, FailJob, Zenon
  <2>2. faults' \in Nat BY <1>8, FaultType, Zenon DEF TransferInv
  <2> QED BY <1>1, <1>4, <1>5, <1>6, <2>1, <2>2, RemoteStep, Zenon
<1> QED BY <1>1, <1>7, <1>8, Zenon

LEMMA upload_content_chunkSound ==
    ASSUME TransferInv, upload_content_chunk
    PROVE  TransferInv'
<1> DEFINE u == job.url
           n == job.offset
           p == P
           c == C
<1>1. job.at = "send" /\ UNCHANGED <<length, tables, files, cut, spoilt>>
  BY Zenon DEF upload_content_chunk, At
<1>2. Uploading /\ UploadKnown /\ job.at \in RowLabels /\ ~At("verify")
  BY <1>1, UploadLabels, Zenon
<1>3. /\ job.row \in Rows /\ p \in Peers /\ c \in Contents /\ length[c] \in Nat
      /\ n \in Nat /\ u \in Uploads /\ Belongs(job.row, u) /\ n < length[c] /\ u # None
  BY <1>1, <1>2, WorkerRow, Zenon DEF UploadKnown
<1>4. upload[u].peer = p /\ (upload[u].of # None => upload[u].of = c)
  BY <1>3, Zenon DEF Belongs, P, C
<1>5. Verifying \subseteq Verifying' BY <1>2, Zenon DEF Verifying
<1>6. ASSUME NEW k, Goto(OnFailure(k)), UNCHANGED <<remote, faults>> PROVE TransferInv'
  BY <1>1, <1>2, <1>6, FailMove, Zenon DEF TransferInv, Types
<1>7. ASSUME append_upload_chunk(u, n), UNCHANGED flying,
             \/ /\ job' = [job EXCEPT !.at = "record", !.offset = n + 1]
                /\ UNCHANGED faults
             \/ Fault /\ Goto(OnFailure("retryable"))
      PROVE  TransferInv'
  <2>1. /\ Keeps /\ held' \in [Peers -> SUBSET Contents] /\ upload' \in [Uploads -> Session]
        /\ UploadsSound' /\ upload[u].of # None
        /\ n + 1 = length[upload[u].of] => upload[u].of \in held'[upload[u].peer]
    BY <1>1, <1>3, <1>4, <1>7, append_upload_chunkSound, Zenon DEF files
  <2>2. flying' \subseteq Uploads \X Nat BY <1>7, Zenon DEF TransferInv, Types
  <2>3. CASE job' = [job EXCEPT !.at = "record", !.offset = n + 1] /\ UNCHANGED faults
    <3>1. /\ job' \in Job /\ job'.at = "record" /\ job'.url = u /\ job'.offset = n + 1
          /\ job'.row = job.row /\ job'.rest = job.rest
      <4>1. n + 1 \in Nat /\ job \in Job BY <1>3 DEF TransferInv, Types
      <4> HIDE DEF n
      <4> QED BY <2>3, <4>1, Zenon DEF Job, Labels
    <3>2. C' = c /\ P' = p BY <3>1, Zenon DEF C, P
    <3>3. Belongs(job.row, job.url)' BY <1>3, <2>1, <3>1, Zenon DEF Keeps, Belongs
    <3>4. n + 1 <= length[c] /\ (n + 1 = length[c] => c \in held'[p])
      BY <1>3, <1>4, <2>1
    <3>5. UploadKnown' BY <1>1, <3>1, <3>2, <3>4, Zenon DEF UploadKnown
    <3>6. job'.at \in RowLabels BY <3>1, Zenon DEF RowLabels, Labels
    <3>7. JobSound' BY <1>2, <2>1, <3>1, <3>3, <3>5, <3>6, RowJob, Zenon
    <3> QED BY <1>1, <1>5, <2>1, <2>2, <2>3, <3>1, <3>7, RemoteStep, Zenon
            DEF TransferInv, Types
  <2>4. CASE Fault /\ Goto(OnFailure("retryable"))
    <3>1. job' \in Job /\ JobSound' BY <1>2, <2>1, <2>4, FailJob, Zenon
    <3>2. faults' \in Nat BY <2>4, FaultType, Zenon DEF TransferInv
    <3> QED BY <1>1, <1>5, <2>1, <2>2, <3>1, <3>2, RemoteStep, Zenon
  <2> QED BY <1>7, <2>3, <2>4, Zenon
<1>8. ASSUME Fault, Goto(OnFailure("retryable")), flying' = flying \cup {<<u, n>>},
             UNCHANGED <<held, upload>>
      PROVE  TransferInv'
  <2>1. Keeps BY <1>1, <1>8, SameKeeps, Zenon DEF files
  <2>2. job' \in Job /\ JobSound' BY <1>2, <1>8, <2>1, FailJob, Zenon
  <2>3. faults' \in Nat BY <1>8, FaultType, Zenon DEF TransferInv
  <2>4. flying' \subseteq Uploads \X Nat BY <1>3, <1>8 DEF TransferInv, Types
  <2>5. UploadsSound'
    <3>1. ASSUME NEW f \in flying'
          PROVE  /\ upload[f[1]].peer # None
                 /\ upload[f[1]].of # None => f[2] < length[upload[f[1]].of]
      <4>1. CASE f \in flying BY <4>1, Zenon DEF TransferInv, UploadsSound
      <4>2. CASE f = <<u, n>>
        <5>1. f[1] = u /\ f[2] = n BY <4>2, Zenon
        <5> HIDE DEF u, n, p, c
        <5> QED BY <1>3, <1>4, <5>1, NoneApart, Zenon
      <4> QED BY <1>8, <4>1, <4>2, Zenon
    <3> QED BY <1>1, <1>8, <3>1, Zenon DEF TransferInv, UploadsSound
  <2> QED BY <1>1, <1>5, <1>8, <2>1, <2>2, <2>3, <2>4, <2>5, RemoteStep, Zenon
          DEF TransferInv, Types
<1> QED BY <1>6, <1>7, <1>8, Zenon DEF upload_content_chunk

LEMMA ArriveSound ==
    ASSUME TransferInv, NEW f \in flying, Arrive(f)
    PROVE  TransferInv'
<1>1. /\ UNCHANGED <<length, tables, files, job, cut, spoilt, faults>>
      /\ flying' \subseteq flying
  BY Zenon DEF Arrive
<1>2. f[1] \in Uploads /\ f[2] \in Nat /\ flying' \subseteq Uploads \X Nat
  BY <1>1, Zenon DEF TransferInv, Types
<1>3. /\ Keeps /\ held' \in [Peers -> SUBSET Contents] /\ upload' \in [Uploads -> Session]
      /\ UploadsSound'
  <2>1. CASE append_upload_chunk(f[1], f[2])
    <3>1. upload[f[1]].of # None => f[2] < length[upload[f[1]].of]
      BY Zenon DEF TransferInv, UploadsSound
    <3> QED BY <1>1, <1>2, <2>1, <3>1, append_upload_chunkSound, Zenon DEF files
  <2>2. CASE UNCHANGED <<held, upload>>
    <3>1. Keeps BY <1>1, <2>2, SameKeeps, Zenon DEF files
    <3>2. UploadsSound' BY <1>1, <2>2, Zenon DEF TransferInv, UploadsSound
    <3> QED BY <2>2, <3>1, <3>2, Zenon DEF TransferInv, Types
  <2> QED BY <2>1, <2>2, Zenon DEF Arrive
<1>4. JobSound' BY <1>1, <1>3, JobKept, Zenon DEF files
<1>5. Verifying \subseteq Verifying' BY <1>1, Zenon DEF Verifying, At, C
<1> QED BY <1>1, <1>2, <1>3, <1>4, <1>5, RemoteStep, Zenon DEF TransferInv, Types

LEMMA ExpireSound ==
    ASSUME TransferInv, NEW u \in Uploads, Expire(u)
    PROVE  TransferInv'
<1> DEFINE s == [upload[u] EXCEPT !.of = None]
<1>1. /\ UNCHANGED <<length, tables, files, held, flying, job, cut, spoilt>>
      /\ Fault /\ upload' = [upload EXCEPT ![u] = s]
  BY Zenon DEF Expire
<1>2. s \in Session /\ s.peer = upload[u].peer /\ s.of = None
  BY Zenon DEF TransferInv, Types, Session
<1> HIDE DEF s
<1>3. /\ upload' \in [Uploads -> Session] /\ upload'[u] = s
      /\ \A v \in Uploads : v # u => upload'[v] = upload[v]
  BY <1>1, <1>2, Zenon DEF TransferInv, Types
<1>4. \A r \in Rows, v \in Uploads : Belongs(r, v) => Belongs(r, v)'
  <2> TAKE r \in Rows, v \in Uploads
  <2>1. CASE v = u BY <1>2, <1>3, <2>1, Zenon DEF Belongs
  <2>2. CASE v # u BY <1>3, <2>2, Zenon DEF Belongs
  <2> QED BY <2>1, <2>2, Zenon
<1>5. Keeps BY <1>1, <1>4, RemoteKeeps, Zenon DEF files
<1>6. \A f \in flying : f[1] \in Uploads BY Zenon DEF TransferInv, Types
<1>7. UploadsSound' BY <1>1, <1>2, <1>3, <1>6, Zenon DEF TransferInv, UploadsSound
<1>8. JobSound' BY <1>1, <1>5, JobKept, Zenon DEF files
<1>9. Verifying \subseteq Verifying' BY <1>1, Zenon DEF Verifying, At, C
<1>10. faults' \in Nat BY <1>1, FaultType, Zenon DEF TransferInv
<1> QED BY <1>1, <1>3, <1>5, <1>7, <1>8, <1>9, <1>10, RemoteStep, Zenon DEF TransferInv, Types


-------------------------------------------------------------------------------
(* download_content_chunk and the files.                                   *)

LEMMA BlobCases ==
    \A c \in Contents :
        /\ Blob(c) \in {"absent", "verified", "mismatch"}
        /\ Blob(c) = "verified" => blob[c] = Whole(c)
        /\ Blob(c) = "absent" <=> blob[c] = None
        /\ Blob(c) = "mismatch" <=> blob[c] # None /\ blob[c] # Whole(c)
BY Zenon DEF Blob

LEMMA PartialOffset ==
    ASSUME TransferInv, NEW c \in Contents
    PROVE  /\ PartLength(c) \in Nat /\ PartLength(c) <= length[c] /\ length[c] \in Nat
           /\ partial_offset(c) \in {None, length[c], PartLength(c)}
           /\ Blob(c) # "verified" => partial_offset(c) \in {None, PartLength(c)}
<1>1. length[c] \in Nat /\ (part[c] # None => part[c] \in Seq(Nat)) BY Zenon DEF TransferInv, Types
<1>2. part[c] # None => Len(part[c]) \in Nat /\ Len(part[c]) <= length[c]
  BY <1>1 DEF TransferInv, PartsSound
<1>3. PartLength(c) \in Nat /\ PartLength(c) <= length[c] BY <1>1, <1>2 DEF PartLength
<1>4. /\ partial_offset(c) \in {None, length[c], PartLength(c)}
      /\ Blob(c) # "verified" => partial_offset(c) \in {None, PartLength(c)}
  BY Zenon DEF partial_offset, PartLength
<1> QED BY <1>1, <1>3, <1>4, Zenon

(* The store has all of the content, by its own account.                   *)
LEMMA FullIsHere ==
    ASSUME TransferInv, NEW c \in Contents, ~At("verify"), partial_offset(c) = length[c]
    PROVE  Here(c)
<1>1. CASE Blob(c) = "verified" BY <1>1, BlobCases, Zenon DEF Here
<1>2. CASE Blob(c) # "verified"
  <2>1. length[c] # None BY PartialOffset, NoneApart, Zenon
  <2>2. length[c] = PartLength(c) BY <1>2, <2>1, PartialOffset, Zenon
  <2>3. CASE part[c] = None BY <2>2, <2>3, Zenon DEF PartLength, Here
  <2>4. CASE part[c] # None
    <3>1. Len(part[c]) = length[c] BY <2>2, <2>4, Zenon DEF PartLength
    <3>2. Verifying = {} BY Zenon DEF Verifying
    <3> QED BY <2>4, <3>1, <3>2, Zenon DEF TransferInv, PartsSound, Here
  <2> QED BY <2>3, <2>4, Zenon
<1> QED BY <1>1, <1>2, Zenon

(* The download goes on, nothing but the worker having moved.              *)
LEMMA DownloadMove ==
    ASSUME TransferInv, UNCHANGED <<length, files, remote, tables, cut, spoilt>>,
           ~At("verify"), job.at \in RowLabels, ~Uploading, faults' \in Nat, job' \in Job,
           job'.at \in {"append", "write", "record", "complete"},
           job'.row = job.row, job'.rest = job.rest, job'.url = job.url,
           job'.at = "record" =>
               job'.offset <= length[C] /\ (job'.offset = length[C] => Here(C)),
           job'.at = "complete" => Here(C),
           job'.at \in {"append", "write"} => job'.offset < length[C],
           job'.at = "write" => job'.offset = PartLength(C)
    PROVE  TransferInv'
<1>1. Keeps BY FilesKeep, Zenon
<1>2. Belongs(job.row, job.url)' BY WorkerRow, Zenon DEF Belongs, remote
<1> DEFINE c == C
<1>3. C' = c BY Zenon DEF C
<1>4. (Here(C))' <=> Here(c) BY <1>3, Zenon DEF Here, Whole, files
<1>5. (PartLength(C))' = PartLength(c) BY <1>3, Zenon DEF PartLength, files
<1>6. job'.at \in RowLabels /\ job'.at \notin {"verify", "open", "note", "send"}
  BY Zenon DEF RowLabels, Labels
<1>7. DownloadKnown' BY <1>3, <1>4, <1>5, <1>6, Zenon DEF DownloadKnown
<1>8. JobSound' BY <1>1, <1>2, <1>6, <1>7, RowJob, Zenon
<1> QED BY <1>8, JobMove, Zenon

LEMMA download_content_chunkSound ==
    ASSUME TransferInv, download_content_chunk
    PROVE  TransferInv'
<1> DEFINE c == C
           n == partial_offset(c)
<1>1. job.at = "fetch" /\ UNCHANGED <<length, tables, files, remote, cut, spoilt>>
  BY Zenon DEF download_content_chunk, At
<1>2. ~Uploading /\ job.at \in RowLabels /\ ~At("verify")
  BY <1>1, DownloadLabels, Zenon DEF At
<1>3. c \in Contents /\ length[c] \in Nat /\ job \in Job
  BY <1>2, WorkerRow, Zenon DEF TransferInv, Types
<1>4. faults \in Nat BY Zenon DEF TransferInv, Types
<1>5. CASE Goto(OnFailure("permanent")) /\ UNCHANGED faults
  BY <1>1, <1>2, <1>4, <1>5, FailMove, Zenon
<1>6. ASSUME n = length[c], job' = [job EXCEPT !.at = "record", !.offset = n], UNCHANGED faults
      PROVE  TransferInv'
  <2>1. Here(c) BY <1>2, <1>3, <1>6, FullIsHere, Zenon
  <2>2. n \in Nat BY <1>3, <1>6, Zenon
  <2> HIDE DEF n, c
  <2>3. /\ job' \in Job /\ job'.at = "record" /\ job'.offset = n /\ job'.row = job.row
        /\ job'.rest = job.rest /\ job'.url = job.url
    BY <1>3, <1>6, <2>2, Zenon DEF Job, Labels
  <2>4. n <= length[c] BY <1>3, <1>6
  <2>5. job'.at \in {"append", "write", "record", "complete"} /\ job'.at # "complete"
        /\ job'.at \notin {"append", "write"}
    BY <2>3, Zenon
  <2> QED BY <1>1, <1>2, <1>4, <1>6, <2>1, <2>3, <2>4, <2>5, DownloadMove, Zenon DEF c
<1>7. ASSUME n \notin {None, length[c]}, NEW chunk \in get_blob(n),
             job' = [job EXCEPT !.at = "append", !.offset = n, !.chunk = chunk],
             IF chunk = 0 THEN Fault ELSE UNCHANGED faults
      PROVE  TransferInv'
  <2>1. n \in Nat /\ n < length[c]
    <3>1. n = PartLength(c) BY <1>3, <1>7, PartialOffset, Zenon
    <3> HIDE DEF n, c
    <3> QED BY <1>3, <1>7, <3>1, PartialOffset
  <2>2. chunk \in Nat BY <2>1 DEF get_blob
  <2>3. faults' \in Nat BY <1>4, <1>7, FaultType, Zenon DEF TransferInv
  <2> HIDE DEF n, c
  <2>4. /\ job' \in Job /\ job'.at = "append" /\ job'.offset = n /\ job'.row = job.row
        /\ job'.rest = job.rest /\ job'.url = job.url
    BY <1>3, <1>7, <2>1, <2>2, Zenon DEF Job, Labels
  <2>5. job'.at \in {"append", "write", "record", "complete"} /\ job'.at # "complete"
        /\ job'.at # "write" /\ job'.at # "record"
    BY <2>4, Zenon
  <2> QED BY <1>1, <1>2, <2>1, <2>3, <2>4, <2>5, DownloadMove, Zenon DEF c
<1> QED BY <1>5, <1>6, <1>7, Zenon DEF download_content_chunk

LEMMA append_checkSound ==
    ASSUME TransferInv, append_check
    PROVE  TransferInv'
<1> DEFINE c == C
           l == IF Blob(c) = "verified" THEN "record"
                ELSE IF partial_offset(c) = job.offset THEN "write"
                ELSE OnFailure("permanent")
           o == IF Blob(c) = "verified" THEN length[c] ELSE job.offset
<1>1. /\ job.at = "append" /\ UNCHANGED <<length, tables, files, remote, cut, spoilt, faults>>
      /\ job' = [job EXCEPT !.at = l, !.offset = o]
  BY Zenon DEF append_check, At
<1>2. ~Uploading /\ DownloadKnown /\ job.at \in RowLabels /\ ~At("verify")
  BY <1>1, DownloadLabels, Zenon DEF At
<1>3. c \in Contents /\ length[c] \in Nat /\ job \in Job /\ job.offset \in Nat /\ faults \in Nat
  BY <1>2, WorkerRow, Zenon DEF TransferInv, Types
<1>4. job.offset < length[c] BY <1>1, <1>2, Zenon DEF DownloadKnown
<1>5. l \in {"record", "write", "retry", "reject", "wait"} BY FailureLabel, Zenon
<1>6. l \in Labels /\ o \in Nat BY <1>3, <1>5, Zenon DEF Labels
<1>7. /\ job' \in Job /\ job'.at = l /\ job'.offset = o /\ job'.row = job.row
      /\ job'.rest = job.rest /\ job'.url = job.url
  <2> HIDE DEF l, o, c
  <2> QED BY <1>1, <1>3, <1>6, Zenon DEF Job
<1>8. CASE l = "record"
  <2>1. Blob(c) = "verified" BY <1>8, FailureLabel, Zenon
  <2>2. Here(c) /\ o = length[c] BY <1>3, <2>1, BlobCases, Zenon DEF Here
  <2>3. o <= length[c] BY <1>3, <2>2
  <2> HIDE DEF l, o, c
  <2>4. job'.at \in {"append", "write", "record", "complete"} /\ job'.at # "complete"
        /\ job'.at \notin {"append", "write"}
    BY <1>7, <1>8, Zenon
  <2> QED BY <1>1, <1>2, <1>3, <1>7, <2>2, <2>3, <2>4, DownloadMove, Zenon DEF c
<1>9. CASE l = "write"
  <2>1. Blob(c) # "verified" /\ partial_offset(c) = job.offset BY <1>9, FailureLabel, Zenon
  <2>2. o = job.offset BY <2>1, Zenon
  <2>3. job.offset = PartLength(c) BY <1>3, <2>1, PartialOffset, NoneApart, Zenon
  <2> HIDE DEF l, o, c
  <2>4. job'.at \in {"append", "write", "record", "complete"} /\ job'.at # "complete"
        /\ job'.at # "record"
    BY <1>7, <1>9, Zenon
  <2> QED BY <1>1, <1>2, <1>3, <1>4, <1>7, <2>2, <2>3, <2>4, DownloadMove, Zenon DEF c
<1>10. CASE l \in {"retry", "reject", "wait"}
  <2>1. job'.at \in {"continue", "retry", "reject", "wait"} BY <1>7, <1>10, Zenon
  <2>2. JobSound' BY <1>1, <1>2, <1>7, <2>1, FilesKeep, EndJob, Zenon
  <2> QED BY <1>1, <1>2, <1>3, <1>7, <2>2, JobMove, Zenon
<1> HIDE DEF l
<1> QED BY <1>5, <1>8, <1>9, <1>10, Zenon


(* A step in which a file of the store changes.                            *)
LEMMA FileStep ==
    ASSUME TransferInv, UNCHANGED <<length, tables, remote, cut>>,
           part' \in [Contents -> Seq(Nat) \cup {None}],
           blob' \in [Contents -> Seq(Nat) \cup {None}], spoilt' \subseteq Contents,
           faults' \in Nat, job' \in Job, BlobsSound', PartsSound', JobSound'
    PROVE  TransferInv'
<1>1. Types' BY Zenon DEF TransferInv, Types, tables, remote
<1>2. RowsSound' /\ CompletedIsHeld'
  BY Zenon DEF TransferInv, RowsSound, CompletedIsHeld, Belongs, tables, remote
<1>3. UploadsSound' BY UploadsKept, Zenon DEF remote
<1> QED BY <1>1, <1>2, <1>3, Zenon DEF TransferInv

LEMMA append_writeSound ==
    ASSUME TransferInv, append_write
    PROVE  TransferInv'
<1> DEFINE c == C
           n == job.offset + 1
           old == IF part[c] = None THEN <<>> ELSE part[c]
           new == Append(old, job.chunk)
           l == IF n = length[c] THEN "verify" ELSE "record"
<1>1. /\ job.at = "write" /\ UNCHANGED <<length, tables, blob, remote, cut, spoilt, faults>>
      /\ part' = [part EXCEPT ![c] = new]
      /\ job' = [job EXCEPT !.at = l, !.offset = n, !.chunk = 0]
  BY Zenon DEF append_write, At
<1>2. ~Uploading /\ DownloadKnown /\ job.at \in RowLabels
  BY <1>1, DownloadLabels, Zenon
<1>3. /\ c \in Contents /\ length[c] \in Nat /\ job \in Job /\ job.offset \in Nat
      /\ job.row \in Rows /\ Belongs(job.row, job.url)
  BY <1>2, WorkerRow, Zenon DEF TransferInv, Types
<1>4. job.offset < length[c] /\ job.offset = PartLength(c) BY <1>1, <1>2, Zenon DEF DownloadKnown
<1>5. new \in Seq(Nat) /\ Len(new) = n
  <2>1. part[c] # None => part[c] \in Seq(Nat) BY <1>3, Zenon DEF TransferInv, Types
  <2>2. old \in Seq(Nat) /\ Len(old) = job.offset BY <1>4, <2>1 DEF PartLength
  <2>3. job.chunk \in Nat BY <1>3, Zenon DEF Job
  <2> HIDE DEF old
  <2> QED BY <2>2, <2>3
<1>6. n \in Nat /\ n <= length[c] BY <1>3, <1>4
<1> HIDE DEF n, new, c
<1>7. /\ part' \in [Contents -> Seq(Nat) \cup {None}] /\ part'[c] = new
      /\ \A d \in Contents : d # c => part'[d] = part[d]
  BY <1>1, <1>3, <1>5, Zenon DEF TransferInv, Types
<1>8. l \in {"verify", "record"} /\ l \in Labels /\ l \in RowLabels
  BY Zenon DEF Labels, RowLabels
<1>9. /\ job' \in Job /\ job'.at = l /\ job'.offset = n /\ job'.row = job.row
      /\ job'.rest = job.rest /\ job'.url = job.url
  <2> HIDE DEF l
  <2> QED BY <1>1, <1>3, <1>6, <1>8, Zenon DEF Job
<1>10. C' = c BY <1>9, Zenon DEF C, c
<1>11. Keeps BY <1>1, SameKeeps, Zenon DEF remote
<1>12. DownloadKnown'
  <2>1. (l = "record" => n # length[c]) /\ (l = "verify" => n = length[c]) BY Zenon
  <2> HIDE DEF l
  <2> QED BY <1>1, <1>6, <1>8, <1>9, <1>10, <2>1, Zenon DEF DownloadKnown
<1>13. JobSound'
  <2>1. Belongs(job.row, job.url)' BY <1>1, <1>3, <1>9, Zenon DEF Belongs, remote
  <2> HIDE DEF l
  <2> QED BY <1>2, <1>8, <1>9, <1>11, <1>12, <2>1, RowJob, Zenon
<1>14. PartsSound'
  <2>1. Verifying = {} BY <1>1, Zenon DEF Verifying, At
  <2>2. n = length[c] => c \in Verifying' BY <1>9, <1>10, Zenon DEF Verifying, At
  <2>3. ASSUME NEW d \in Contents, part'[d] # None
        PROVE  /\ Len(part'[d]) <= length[d]
               /\ Len(part'[d]) = length[d] => d \in cut \cup spoilt \cup Verifying'
    <3>1. CASE d = c BY <1>5, <1>6, <1>7, <2>2, <3>1, Zenon
    <3>2. CASE d # c BY <1>7, <2>1, <2>3, <3>2, Zenon DEF TransferInv, PartsSound
    <3> QED BY <3>1, <3>2, Zenon
  <2> QED BY <1>1, <2>3, Zenon DEF PartsSound
<1>15. BlobsSound' BY <1>1, Zenon DEF TransferInv, BlobsSound, Here, Whole, tables
<1> QED BY <1>1, <1>7, <1>9, <1>13, <1>14, <1>15, FileStep, Zenon DEF TransferInv, Types

LEMMA MismatchIsSpoilt ==
    ASSUME TransferInv, NEW c \in Contents, Blob(c) = "mismatch"
    PROVE  c \in spoilt
BY BlobCases, Zenon DEF TransferInv, BlobsSound

(* The worker leaves the verification: the files of other contents stay.   *)
LEMMA PartsVerified ==
    ASSUME TransferInv, NEW c \in Contents, UNCHANGED <<length, cut, spoilt>>,
           Verifying \subseteq {c}, \A d \in Contents : d # c => part'[d] = part[d],
           part'[c] = None \/ (part'[c] = part[c] /\ c \in spoilt)
    PROVE  PartsSound'
<1>1. ASSUME NEW d \in Contents, part'[d] # None
      PROVE  /\ Len(part'[d]) <= length[d]
             /\ Len(part'[d]) = length[d] => d \in cut \cup spoilt
  <2>1. part'[d] = part[d] BY <1>1, Zenon
  <2>2. CASE d = c BY <1>1, <2>1, <2>2, Zenon DEF TransferInv, PartsSound
  <2>3. CASE d # c BY <1>1, <2>1, <2>3, Zenon DEF TransferInv, PartsSound
  <2> QED BY <2>2, <2>3, Zenon
<1> QED BY <1>1, Zenon DEF PartsSound

LEMMA verify_and_publishSound ==
    ASSUME TransferInv, verify_and_publish
    PROVE  TransferInv'
<1> DEFINE c == C
<1>1. job.at = "verify" /\ UNCHANGED <<length, tables, remote, cut, spoilt, faults>>
  BY Zenon DEF verify_and_publish, At
<1>2. ~Uploading /\ DownloadKnown /\ job.at \in RowLabels
  BY <1>1, DownloadLabels, Zenon
<1>3. /\ c \in Contents /\ length[c] \in Nat /\ job \in Job
      /\ job.row \in Rows /\ Belongs(job.row, job.url)
  BY <1>2, WorkerRow, Zenon DEF TransferInv, Types
<1>4. Verifying \subseteq {c} BY Zenon DEF Verifying
<1>5. ASSUME part' = [part EXCEPT ![c] = None], UNCHANGED blob, Goto(OnFailure("permanent"))
      PROVE  TransferInv'
  <2>1. /\ part' \in [Contents -> Seq(Nat) \cup {None}] /\ part'[c] = None
        /\ \A d \in Contents : d # c => part'[d] = part[d]
    BY <1>3, <1>5, Zenon DEF TransferInv, Types
  <2>2. Keeps BY <1>1, <1>5, SameKeeps, Zenon DEF remote
  <2>3. job' \in Job /\ JobSound' BY <1>2, <1>5, <2>2, FailJob, Zenon
  <2>4. PartsSound' BY <1>1, <1>3, <1>4, <2>1, PartsVerified, Zenon
  <2>5. BlobsSound' BY <1>1, <1>5, Zenon DEF TransferInv, BlobsSound, Here, Whole, tables
  <2> QED BY <1>1, <1>5, <2>1, <2>3, <2>4, <2>5, FileStep, Zenon DEF TransferInv, Types
<1>6. ASSUME part[c] = Whole(c), publish(c),
             Goto(IF Blob(c) = "mismatch" THEN OnFailure("permanent") ELSE "record")
      PROVE  TransferInv'
  <2>1. /\ blob' = [blob EXCEPT ![c] = IF blob[c] = None THEN Whole(c) ELSE blob[c]]
        /\ part' = [part EXCEPT ![c] = IF Blob(c) = "mismatch" THEN part[c] ELSE None]
    BY <1>6, Zenon DEF publish
  <2>2. Whole(c) \in Seq(Nat) /\ Whole(c) # None
    BY <1>3, WholeType, Zenon DEF TransferInv
  <2>3. /\ part' \in [Contents -> Seq(Nat) \cup {None}]
        /\ part'[c] = IF Blob(c) = "mismatch" THEN part[c] ELSE None
        /\ \A d \in Contents : d # c => part'[d] = part[d]
    BY <1>3, <2>1, Zenon DEF TransferInv, Types
  <2>4. /\ blob' \in [Contents -> Seq(Nat) \cup {None}]
        /\ blob'[c] = IF blob[c] = None THEN Whole(c) ELSE blob[c]
        /\ \A d \in Contents : d # c => blob'[d] = blob[d]
    BY <1>3, <2>1, <2>2, Zenon DEF TransferInv, Types
  <2>5. \A d \in Contents : blob[d] # None => blob'[d] = blob[d] BY <2>4, Zenon
  <2>6. \A d \in Contents : Whole(d) # None BY WholeType, Zenon DEF TransferInv
  <2>7. \A d \in Contents : (Here(d) => Here(d)') /\ (Marked(d) => Marked(d)')
    BY <1>1, <2>5, <2>6, Zenon DEF Here, Marked, Whole
  <2>8. Keeps BY <1>1, <2>7, Zenon DEF Keeps, Belongs, remote
  <2>9. BlobsSound'
    <3>1. \A d \in Contents \ spoilt : blob'[d] \in {None, Whole(d)}
      BY <2>4, Zenon DEF TransferInv, BlobsSound
    <3>2. \A d \in Contents : resource[d].available => Here(d)'
      BY <2>7, Zenon DEF TransferInv, BlobsSound
    <3> QED BY <1>1, <3>1, <3>2, Zenon DEF BlobsSound, tables, Whole, Here
  <2>10. PartsSound'
    <3>1. part'[c] = None \/ (part'[c] = part[c] /\ c \in spoilt)
      BY <1>3, <2>3, MismatchIsSpoilt, Zenon
    <3> QED BY <1>1, <1>3, <1>4, <2>3, <3>1, PartsVerified, Zenon
  <2>11. CASE Blob(c) = "mismatch"
    <3>1. Goto(OnFailure("permanent")) BY <1>6, <2>11, Zenon
    <3>2. job' \in Job /\ JobSound' BY <1>2, <2>8, <3>1, FailJob, Zenon
    <3> QED BY <1>1, <2>3, <2>4, <2>9, <2>10, <3>2, FileStep, Zenon DEF TransferInv, Types
  <2>12. CASE Blob(c) # "mismatch"
    <3>1. Goto("record") BY <1>6, <2>12, Zenon
    <3>2. "record" \in Labels /\ "record" \in RowLabels BY Zenon DEF Labels, RowLabels
    <3>3. /\ job' \in Job /\ job'.at = "record" /\ job'.row = job.row /\ job'.rest = job.rest
          /\ job'.url = job.url /\ job'.offset = job.offset
      BY <1>3, <3>1, <3>2, GotoJob, Zenon
    <3>4. C' = c BY <3>3, Zenon DEF C
    <3>5. blob'[c] = Whole(c) BY <1>3, <2>4, <2>12, BlobCases, Zenon
    <3>6. (Here(C))' BY <1>1, <3>4, <3>5, Zenon DEF Here, Whole
    <3>7. job.offset <= length[c] BY <1>1, <1>2, <1>3 DEF DownloadKnown
    <3>8. DownloadKnown' BY <1>1, <3>3, <3>4, <3>6, <3>7, Zenon DEF DownloadKnown
    <3>9. Belongs(job.row, job.url)' BY <1>1, <1>3, <3>3, Zenon DEF Belongs, remote
    <3>10. JobSound' BY <1>2, <2>8, <3>2, <3>3, <3>8, <3>9, RowJob, Zenon
    <3> QED BY <1>1, <2>3, <2>4, <2>9, <2>10, <3>3, <3>10, FileStep, Zenon DEF TransferInv, Types
  <2> QED BY <2>11, <2>12, Zenon
<1> QED BY <1>5, <1>6, Zenon DEF verify_and_publish

(* A file of the content is put in place, by an import.                    *)
LEMMA ImportFileSound ==
    ASSUME TransferInv, NEW c \in Contents, ImportFile(c)
    PROVE  TransferInv'
<1>1. /\ UNCHANGED <<length, tables, part, remote, job, cut, spoilt, faults>>
      /\ blob[c] = None /\ blob' = [blob EXCEPT ![c] = Whole(c)]
  BY Zenon DEF ImportFile
<1>2. \A d \in Contents : Whole(d) # None /\ Whole(d) \in Seq(Nat)
  BY WholeType, Zenon DEF TransferInv
<1>3. /\ blob' \in [Contents -> Seq(Nat) \cup {None}] /\ blob'[c] = Whole(c)
      /\ \A d \in Contents : d # c => blob'[d] = blob[d]
  BY <1>1, <1>2, Zenon DEF TransferInv, Types
<1>4. \A d \in Contents : (Here(d) => Here(d)') /\ (Marked(d) => Marked(d)')
  BY <1>1, <1>2, <1>3, Zenon DEF Here, Marked, Whole
<1>5. Keeps BY <1>1, <1>4, Zenon DEF Keeps, Belongs, remote
<1>6. BlobsSound'
  <2>1. \A d \in Contents \ spoilt : blob'[d] \in {None, Whole(d)}
    BY <1>3, Zenon DEF TransferInv, BlobsSound
  <2>2. \A d \in Contents : resource[d].available => Here(d)'
    BY <1>4, Zenon DEF TransferInv, BlobsSound
  <2> QED BY <1>1, <2>1, <2>2, Zenon DEF BlobsSound, tables, Whole, Here
<1>7. PartsSound' BY <1>1, PartsKept, Zenon DEF Verifying, At, C
<1>8. JobSound' BY <1>1, <1>5, JobKept, Zenon
<1> QED BY <1>1, <1>3, <1>6, <1>7, <1>8, FileStep, Zenon DEF TransferInv, Types

LEMMA SpoilSound ==
    ASSUME TransferInv, NEW c \in Contents, NEW file \in {None, Damaged}, Spoil(c, file)
    PROVE  TransferInv'
<1>1. /\ UNCHANGED <<length, tables, part, remote, job, cut>> /\ Fault
      /\ blob' = [blob EXCEPT ![c] = file] /\ spoilt' = spoilt \cup {c}
  BY Zenon DEF Spoil
<1>2. file \in Seq(Nat) \cup {None}
  <2>1. <<0>> \in Seq(Nat) OBVIOUS
  <2> QED BY <2>1, Zenon DEF Damaged
<1>3. /\ blob' \in [Contents -> Seq(Nat) \cup {None}]
      /\ \A d \in Contents : d # c => blob'[d] = blob[d]
  BY <1>1, <1>2, Zenon DEF TransferInv, Types
<1>4. \A d \in Contents : (Here(d) => Here(d)') /\ (Marked(d) => Marked(d)')
  BY <1>1, <1>3, Zenon DEF Here, Marked, Whole
<1>5. Keeps BY <1>1, <1>4, Zenon DEF Keeps, Belongs, remote
<1>6. BlobsSound'
  <2>1. \A d \in Contents \ spoilt' : blob'[d] \in {None, Whole(d)}
    BY <1>1, <1>3, Zenon DEF TransferInv, BlobsSound
  <2>2. \A d \in Contents : resource[d].available => Here(d)'
    BY <1>4, Zenon DEF TransferInv, BlobsSound
  <2> QED BY <1>1, <2>1, <2>2, Zenon DEF BlobsSound, tables, Whole, Here
<1>7. PartsSound' BY <1>1, Zenon DEF TransferInv, PartsSound, Verifying, At, C
<1>8. JobSound' BY <1>1, <1>5, JobKept, Zenon
<1>9. spoilt' \subseteq Contents BY <1>1, Zenon DEF TransferInv, Types
<1>10. faults' \in Nat BY <1>1, FaultType, Zenon DEF TransferInv
<1> QED BY <1>1, <1>3, <1>6, <1>7, <1>8, <1>9, <1>10, FileStep, Zenon DEF TransferInv, Types

LEMMA CrashSound ==
    ASSUME TransferInv, Crash
    PROVE  TransferInv'
<1>1. /\ UNCHANGED <<length, resource, peers, files, remote, spoilt>> /\ Fault
      /\ job' = Idle /\ transfer' = Forget /\ cut' = cut \cup Verifying
  BY Zenon DEF Crash
<1>2. Verifying \subseteq Contents
  <2>1. CASE At("verify")
    <3>1. job.at \in RowLabels BY <2>1, Zenon DEF At, RowLabels, Labels
    <3> QED BY <3>1, WorkerRow, Zenon DEF Verifying
  <2> QED BY <2>1, Zenon DEF Verifying
<1>3. \A d \in Contents : (Here(d) => Here(d)') /\ (Marked(d) => Marked(d)')
  BY <1>1, Zenon DEF Here, Marked, Whole, files
<1>4. Keeps BY <1>1, <1>3, Zenon DEF Keeps, Belongs, remote
<1>5. job' \in Job /\ job'.at \in {"idle", "scan", "next"} /\ job'.rest \subseteq job.rest
  BY <1>1, IdleType, Zenon
<1>6. JobSound' BY <1>4, <1>5, NoRowJob, Zenon
<1>7. transfer' \in [Rows -> Entry] /\ RowsSound' /\ CompletedIsHeld'
  BY <1>1, ForgetSound, Zenon DEF remote
<1>8. BlobsSound' BY <1>1, <1>3, Zenon DEF TransferInv, BlobsSound, Here, Whole, files
<1>9. PartsSound' BY <1>1, Zenon DEF TransferInv, PartsSound, files
<1>10. UploadsSound' BY <1>1, UploadsKept, Zenon DEF remote
<1>11. faults' \in Nat BY <1>1, FaultType, Zenon DEF TransferInv
<1>12. Types' BY <1>1, <1>2, <1>5, <1>7, <1>11, Zenon DEF TransferInv, Types, files, remote
<1> QED BY <1>6, <1>7, <1>8, <1>9, <1>10, <1>12, Zenon DEF TransferInv


-------------------------------------------------------------------------------
(* The transactions that end or continue a row.                            *)

LEMMA EndLabels ==
    ASSUME TransferInv,
           job.at \in {"note", "record", "complete", "continue", "retry", "reject", "wait"}
    PROVE  job.at \in RowLabels /\ ~At("verify")
BY Zenon DEF RowLabels, Labels, At

LEMMA DoneJob ==
    ASSUME TransferInv, Keeps, Done
    PROVE  job' \in Job /\ JobSound'
<1>1. job' \in Job /\ job'.at \in {"idle", "scan", "next"} /\ job'.rest \subseteq job.rest
  BY Zenon DEF Done, Idle, TransferInv, Types, Job, Labels
<1> QED BY <1>1, NoRowJob, Zenon

LEMMA LeaseMismatchSound ==
    ASSUME TransferInv, LeaseMismatch
    PROVE  TransferInv'
BY EndLabels, IdleSound, Zenon DEF LeaseMismatch

LEMMA NothingDueSound ==
    ASSUME TransferInv, NothingDue
    PROVE  TransferInv'
<1>1. ~At("verify") BY Zenon DEF NothingDue, At
<1> QED BY <1>1, IdleSound, Zenon DEF NothingDue

LEMMA record_resource_progressSound ==
    ASSUME TransferInv, record_resource_progress
    PROVE  TransferInv'
<1> DEFINE c == C
           p == P
           r == job.row
           e == [transfer[r] EXCEPT !.bytes = job.offset, !.url = job.url]
           l == IF job.offset = length[c] THEN "complete"
                ELSE IF At("note") THEN "send" ELSE "continue"
<1>1. /\ job.at \in {"note", "record"} /\ Holds /\ Goto(l)
      /\ UNCHANGED <<length, resource, peers, files, remote, cut, spoilt, faults>>
  BY Zenon DEF record_resource_progress
<1>2. job.at \in RowLabels /\ ~At("verify") BY <1>1, EndLabels, Zenon
<1>3. /\ r \in Rows /\ c \in Contents /\ p \in Peers /\ length[c] \in Nat
      /\ job.url \in Uploads \cup {None} /\ Belongs(r, job.url) /\ job.offset \in Nat
  BY <1>2, WorkerRow, Zenon
<1>4. job.offset <= length[c]
      /\ (job.offset = length[c] => IF Uploading THEN c \in held[p] ELSE Here(c))
      /\ (job.at = "note" => Uploading /\ job.url # None)
  BY <1>1, <1>2, UploadLabels, Zenon DEF TransferInv, JobSound, UploadKnown, DownloadKnown
<1>5. transfer' \in [Rows -> Entry] /\ RowsSound' /\ CompletedIsHeld'
  <2>1. RowOK(r, transfer[r]) BY <1>3, OldRowOK, Zenon
  <2>2. transfer[r] \in Entry BY <2>1, Zenon DEF RowOK
  <2>3. /\ e \in Entry /\ e.state = transfer[r].state /\ e.lease = transfer[r].lease
        /\ e.bytes = job.offset /\ e.url = job.url
    <3> HIDE DEF r
    <3> QED BY <1>3, <2>2, Zenon DEF Entry
  <2>4. transfer' = [transfer EXCEPT ![r] = e]
    BY <1>3, <2>2, Zenon DEF record_resource_progress, TransferInv, Types, Entry
  <2> HIDE DEF e
  <2>5. RowOK(r, e) BY <1>3, <1>4, <2>1, <2>3, Zenon DEF RowOK, C
  <2> QED BY <1>1, <1>3, <2>4, <2>5, RowChange, Zenon DEF remote
<1>6. l \in Labels /\ l \in RowLabels BY Zenon DEF Labels, RowLabels
<1>7. /\ job' \in Job /\ job'.at = l /\ job'.row = r /\ job'.rest = job.rest
      /\ job'.url = job.url /\ job'.offset = job.offset
  BY <1>1, <1>6, GotoJob, Zenon DEF TransferInv, Types
<1>8. C' = c /\ P' = p BY <1>7, Zenon DEF C, P
<1>9. ASSUME Uploading PROVE UploadKnown'
  <2>1. l \in {"complete", "send", "continue"}
        /\ (l = "complete" => c \in held[p]) /\ (l = "send" => job.offset < length[c])
    BY <1>3, <1>4, <1>9
  <2>2. l = "send" => job.url # None BY <1>4, Zenon DEF At
  <2> HIDE DEF l
  <2> QED BY <1>1, <1>7, <1>8, <2>1, <2>2, Zenon DEF UploadKnown, remote
<1>10. ASSUME ~Uploading PROVE DownloadKnown'
  <2>1. ~At("note") BY <1>4, <1>10, Zenon DEF At
  <2>2. l = "continue" \/ (l = "complete" /\ Here(c)) BY <1>4, <1>10, <2>1, Zenon
  <2>3. Here(c) => (Here(C))' BY <1>1, <1>8, Zenon DEF Here, Whole, files
  <2> HIDE DEF l
  <2> QED BY <1>7, <2>2, <2>3, Zenon DEF DownloadKnown
<1>11. JobSound'
  <2>1. Belongs(job.row, job.url)' BY <1>1, <1>3, <1>7, Zenon DEF Belongs, remote
  <2> HIDE DEF l
  <2> QED BY <1>1, <1>2, <1>6, <1>7, <1>9, <1>10, <2>1, FilesKeep, RowJob, Zenon
<1> QED BY <1>1, <1>2, <1>5, <1>7, <1>11, StoreStep, Zenon DEF TransferInv, Types, BlobsSound

LEMMA ReleaseSound ==
    ASSUME TransferInv, Release
    PROVE  TransferInv'
<1> DEFINE r == job.row
           s == IF At("reject") THEN "rejected" ELSE "pending"
           e == [transfer[r] EXCEPT !.lease = FALSE, !.state = s]
<1>1. /\ job.at \in {"continue", "retry", "reject"} /\ Holds /\ Done
      /\ UNCHANGED <<length, resource, peers, files, remote, cut, spoilt, faults>>
  BY Zenon DEF Release
<1>2. job.at \in RowLabels /\ ~At("verify") BY <1>1, EndLabels, Zenon
<1>3. r \in Rows BY <1>2, WorkerRow, Zenon
<1>4. transfer' \in [Rows -> Entry] /\ RowsSound' /\ CompletedIsHeld'
  <2>1. RowOK(r, transfer[r]) BY <1>3, OldRowOK, Zenon
  <2>2. s \in {"pending", "rejected", "waiting"} BY Zenon
  <2>3. transfer' = [transfer EXCEPT ![r] = e]
    BY <1>3, Zenon DEF Release, TransferInv, Types, Entry
  <2>4. RowOK(r, e)
    <3> HIDE DEF s, r
    <3> QED BY <1>3, <2>1, <2>2, RowMoves, Zenon
  <2> HIDE DEF e
  <2> QED BY <1>1, <1>3, <2>3, <2>4, RowChange, Zenon DEF remote
<1>5. job' \in Job /\ JobSound' BY <1>1, FilesKeep, DoneJob, Zenon
<1> QED BY <1>1, <1>2, <1>4, <1>5, StoreStep, Zenon DEF TransferInv, Types, BlobsSound

LEMMA complete_resource_transferSound ==
    ASSUME TransferInv, complete_resource_transfer
    PROVE  TransferInv'
<1> DEFINE r == job.row
           c == C
           p == P
           e == [transfer[r] EXCEPT !.state = "complete", !.lease = FALSE, !.bytes = length[c]]
           done == [transfer EXCEPT ![r].state = "complete", ![r].lease = FALSE,
                                    ![r].bytes = length[c]]
           g == [resource[c] EXCEPT !.available = @ \/ ~Uploading]
<1>1. /\ job.at = "complete" /\ Holds /\ Done
      /\ UNCHANGED <<length, peers, files, remote, cut, spoilt, faults>>
      /\ transfer' = IF Uploading THEN done ELSE Settle(c, done)
      /\ resource' = [resource EXCEPT ![c].available = @ \/ ~Uploading]
  BY Zenon DEF complete_resource_transfer, At
<1>2. job.at \in RowLabels /\ ~At("verify") BY <1>1, EndLabels, Zenon
<1>3. r \in Rows /\ c \in Contents /\ length[c] \in Nat /\ c = r[2] /\ p = r[1]
  BY <1>2, WorkerRow, Zenon DEF C, P
<1>4. (Uploading => c \in held[p]) /\ (~Uploading => Here(c))
  BY <1>1, <1>2, Zenon DEF TransferInv, JobSound, UploadKnown, DownloadKnown
<1>5. RowOK(r, transfer[r]) /\ transfer[r] \in Entry BY <1>3, OldRowOK, Zenon DEF RowOK
<1>6. done = [transfer EXCEPT ![r] = e] BY <1>3, <1>5, Zenon DEF TransferInv, Types, Entry
<1>7. /\ e \in Entry /\ e.state = "complete" /\ ~e.lease /\ e.bytes = length[c]
      /\ e.url = transfer[r].url
  <2> HIDE DEF r, c
  <2> QED BY <1>3, <1>5, Zenon DEF Entry, States
<1> HIDE DEF e, done
<1>8. RowOK(r, e)
  <2>1. length[c] <= length[r[2]] BY <1>3
  <2>2. r[3] = "upload" => r[2] \in held[r[1]] BY <1>3, <1>4, Zenon DEF Uploading
  <2> QED BY <1>5, <1>7, <2>1, <2>2, Zenon DEF RowOK
<1>9. \A q \in Rows : RowOK(q, done[q])
  <2>1. done[r] = e /\ \A q \in Rows : q # r => done[q] = transfer[q]
    BY <1>3, <1>6, Zenon DEF TransferInv, Types
  <2> QED BY <1>8, <2>1, OldRowOK, Zenon
<1>10. transfer' \in [Rows -> Entry] /\ RowsSound' /\ CompletedIsHeld'
  <2>1. CASE Uploading
    <3>1. transfer' = [transfer EXCEPT ![r] = e] BY <1>1, <1>6, <2>1, Zenon
    <3> QED BY <1>1, <1>3, <1>8, <3>1, RowChange, Zenon DEF remote
  <2>2. CASE ~Uploading
    <3>1. transfer' = Settle(c, done) BY <1>1, <2>2, Zenon
    <3>2. /\ Settle(c, done) = [q \in Rows |-> Settle(c, done)[q]]
          /\ \A q \in Rows : RowOK(q, Settle(c, done)[q])
      BY <1>3, <1>9, SettleRows, Zenon
    <3> QED BY <1>1, <3>1, <3>2, RowsChange, Zenon DEF remote
  <2> QED BY <2>1, <2>2, Zenon
<1>11. /\ resource' \in [Contents -> Entity]
       /\ \A d \in Contents : resource'[d].available => Here(d)
  <2>1. resource[c] \in Entity BY <1>3, Zenon DEF TransferInv, Types
  <2>2. g \in Entity /\ (g.available => resource[c].available \/ ~Uploading)
    <3> DEFINE a == resource[c].available \/ ~Uploading
    <3>1. a \in BOOLEAN BY Zenon
    <3>2. \A b \in BOOLEAN : LET f == [resource[c] EXCEPT !.available = b]
                             IN f \in Entity /\ f.available = b
      BY <2>1, Zenon DEF Entity
    <3> QED BY <3>1, <3>2, Zenon
  <2>3. resource' = [resource EXCEPT ![c] = g] BY <1>1, Zenon
  <2> HIDE DEF g
  <2>4. /\ resource' \in [Contents -> Entity] /\ resource'[c] = g
        /\ \A d \in Contents : d # c => resource'[d] = resource[d]
    BY <1>3, <2>2, <2>3, EntityChange, Zenon DEF TransferInv
  <2> QED BY <1>4, <2>2, <2>4, Zenon DEF TransferInv, BlobsSound
<1>12. job' \in Job /\ JobSound' BY <1>1, FilesKeep, DoneJob, Zenon
<1> QED BY <1>1, <1>2, <1>10, <1>11, <1>12, StoreStep, Zenon DEF TransferInv, Types

LEMMA wait_for_local_resourceSound ==
    ASSUME TransferInv, wait_for_local_resource
    PROVE  TransferInv'
<1> DEFINE r == job.row
           c == C
           e == [transfer[r] EXCEPT !.lease = FALSE, !.state = "waiting"]
           g == [resource[c] EXCEPT !.available = FALSE, !.expected = TRUE]
<1>1. /\ job.at = "wait" /\ Holds /\ Done
      /\ UNCHANGED <<length, peers, files, remote, cut, spoilt, faults>>
  BY Zenon DEF wait_for_local_resource, At
<1>2. job.at \in RowLabels /\ ~At("verify") BY <1>1, EndLabels, Zenon
<1>3. r \in Rows /\ c \in Contents BY <1>2, WorkerRow, Zenon
<1>4. transfer' \in [Rows -> Entry] /\ RowsSound' /\ CompletedIsHeld'
  <2>1. RowOK(r, transfer[r]) BY <1>3, OldRowOK, Zenon
  <2>2. transfer' = [transfer EXCEPT ![r] = e]
    BY <1>3, Zenon DEF wait_for_local_resource, TransferInv, Types, Entry
  <2>3. RowOK(r, e)
    <3> HIDE DEF r
    <3> QED BY <1>3, <2>1, RowMoves, Zenon
  <2> HIDE DEF e
  <2> QED BY <1>1, <1>3, <2>2, <2>3, RowChange, Zenon DEF remote
<1>5. /\ resource' \in [Contents -> Entity]
      /\ \A d \in Contents : resource'[d].available => Here(d)
  <2>1. resource[c] \in Entity BY <1>3, Zenon DEF TransferInv, Types
  <2>2. g \in Entity /\ ~g.available
    <3> HIDE DEF c
    <3> QED BY <2>1, Zenon DEF Entity
  <2>3. resource' = [resource EXCEPT ![c] = g]
    BY <1>3, Zenon DEF wait_for_local_resource, TransferInv, Types, Entity
  <2> HIDE DEF g
  <2>4. /\ resource' \in [Contents -> Entity] /\ resource'[c] = g
        /\ \A d \in Contents : d # c => resource'[d] = resource[d]
    BY <1>3, <2>2, <2>3, EntityChange, Zenon DEF TransferInv
  <2> QED BY <2>2, <2>4, Zenon DEF TransferInv, BlobsSound
<1>6. job' \in Job /\ JobSound' BY <1>1, FilesKeep, DoneJob, Zenon
<1> QED BY <1>1, <1>2, <1>4, <1>5, <1>6, StoreStep, Zenon DEF TransferInv, Types


-------------------------------------------------------------------------------
(* The theorems.                                                           *)

LEMMA TransferInit ==
    ASSUME Init
    PROVE  TransferInv
<1>1. /\ length \in [Contents -> Nat] /\ resource \in [Contents -> Entity]
      /\ \A c \in Contents : ~resource[c].available
  BY Zenon DEF Init, Unknown, Entity
<1>2. transfer \in [Rows -> Entry] /\ \A r \in Rows : transfer[r] = NoRow
  BY RowTypes, Zenon DEF Init
<1>3. upload \in [Uploads -> Session] /\ \A u \in Uploads : upload[u].of = None
  BY NewSession, Zenon DEF Init
<1>4. /\ part \in [Contents -> Seq(Nat) \cup {None}] /\ \A c \in Contents : part[c] = None
      /\ blob \in [Contents -> Seq(Nat) \cup {None}] /\ \A c \in Contents : blob[c] = None
  BY Zenon DEF Init
<1>5. /\ peers = {} /\ held \in [Peers -> SUBSET Contents] /\ flying = {} /\ job = Idle
      /\ cut = {} /\ spoilt = {} /\ faults = 0
  BY Zenon DEF Init
<1>6. Types BY <1>1, <1>2, <1>3, <1>4, <1>5, IdleType, Zenon DEF Types
<1>7. UploadsSound BY <1>3, <1>5, Zenon DEF UploadsSound
<1>8. RowsSound
  <2>1. \A r \in Rows : 0 <= length[r[2]] BY <1>1, RowParts
  <2> QED BY <1>2, <2>1, RowTypes, Zenon DEF RowsSound, Belongs
<1>9. BlobsSound /\ PartsSound BY <1>1, <1>4, Zenon DEF BlobsSound, PartsSound
<1>10. JobSound
  <2>1. job.at # "mark" /\ job.at \notin RowLabels /\ job.rest = {}
    BY <1>5, IdleType, Zenon DEF RowLabels
  <2> QED BY <2>1, Zenon DEF JobSound
<1>11. CompletedIsHeld
  <2>1. \A r \in Rows : transfer[r].state # "complete" BY <1>2, RowTypes, Zenon
  <2> QED BY <2>1, Zenon DEF CompletedIsHeld
<1> QED BY <1>6, <1>7, <1>8, <1>9, <1>10, <1>11, Zenon DEF TransferInv

LEMMA TransferStutter ==
    ASSUME TransferInv, UNCHANGED vars
    PROVE  TransferInv'
<1>1. UNCHANGED <<length, resource, transfer, peers, part, blob, held, upload, flying, job,
                  cut, spoilt, faults>>
  BY Zenon DEF vars, tables, files, remote
<1> QED BY <1>1, TableStep, Zenon
        DEF files, remote, TransferInv, Types, BlobsSound, RowsSound, Belongs, CompletedIsHeld

LEMMA TransferStep ==
    ASSUME TransferInv, Next
    PROVE  TransferInv'
<1>1. CASE \E c \in Contents : ImportFile(c) \/ CommitLocal(c)
  BY <1>1, ImportFileSound, CommitLocalSound, Zenon
<1>2. CASE \E p \in Peers : AddPeer(p) \/ Requeue(p) \/ \E c \in Contents : CommitFromPeer(p, c)
  BY <1>2, AddPeerSound, RequeueSound, CommitFromPeerSound, Zenon
<1>3. CASE Step
  <2>1. CASE StartCycle \/ (\E c \in Contents : Check(c)) \/ mark_resource_local
             \/ NothingDue \/ Next_row
    BY <2>1, StartCycleSound, CheckSound, mark_resource_localSound, NothingDueSound,
       Next_rowSound, Zenon
  <2>2. CASE Probe \/ content_upload_status \/ create_content_upload \/ upload_content_chunk
    BY <2>2, ProbeSound, content_upload_statusSound, create_content_uploadSound,
       upload_content_chunkSound, Zenon
  <2>3. CASE download_content_chunk \/ append_check \/ append_write \/ verify_and_publish
    BY <2>3, download_content_chunkSound, append_checkSound, append_writeSound,
       verify_and_publishSound, Zenon
  <2>4. CASE LeaseMismatch \/ record_resource_progress \/ Release
             \/ complete_resource_transfer \/ wait_for_local_resource
    BY <2>4, LeaseMismatchSound, record_resource_progressSound, ReleaseSound,
       complete_resource_transferSound, wait_for_local_resourceSound, Zenon
  <2> QED BY <1>3, <2>1, <2>2, <2>3, <2>4, Zenon DEF Step
<1>4. CASE lease_due_resources BY <1>4, lease_due_resourcesSound, Zenon
<1>5. CASE LoseAnswer BY <1>5, LoseAnswerSound, Zenon
<1>6. CASE \E f \in flying : Arrive(f) BY <1>6, ArriveSound, Zenon
<1>7. CASE \E u \in Uploads : Expire(u) BY <1>7, ExpireSound, Zenon
<1>8. CASE Crash BY <1>8, CrashSound, Zenon
<1>9. CASE \E c \in Contents, file \in {None, Damaged} : Spoil(c, file)
  BY <1>9, SpoilSound, Zenon
<1> QED BY <1>1, <1>2, <1>3, <1>4, <1>5, <1>6, <1>7, <1>8, <1>9, Zenon DEF Next

(* The inductive invariant holds in every state the client and its peers   *)
(* reach, with every loss, crash, expiry, requeue and damage.              *)
THEOREM TransferInvariant == Spec => []TransferInv
<1>1. Init => TransferInv BY TransferInit, Zenon
<1>2. TransferInv /\ [Next]_vars => TransferInv' BY TransferStep, TransferStutter, Zenon
<1> QED BY <1>1, <1>2, PTL DEF Spec

(* "A completed upload is held": no row of client_resource_transfers says  *)
(* that an upload is complete unless the peer published the content,       *)
(* whatever answers were lost (record_resource_progress,                   *)
(* complete_resource_transfer).                                            *)
THEOREM CompletedUploadsAreHeld == Spec => []CompletedIsHeld
<1>1. TransferInv => CompletedIsHeld BY Zenon DEF TransferInv
<1> QED BY <1>1, TransferInvariant, PTL

(* Whatever is under the name of a content was verified, and what is       *)
(* marked locally available is such a blob, unless a crash came between    *)
(* the last chunk and its verification or the blob was spoilt              *)
(* (verify_and_publish, mark_resource_local).                              *)
THEOREM BlobsStayVerified == Spec => []BlobsAreVerified
<1>1. ASSUME TransferInv PROVE BlobsAreVerified
  <2>1. \A c \in Contents \ spoilt : blob[c] \in {None, Whole(c)}
    BY <1>1, Zenon DEF TransferInv, BlobsSound
  <2>2. \A c \in Contents \ Excused : resource[c].available => blob[c] = Whole(c)
    BY <1>1, Zenon DEF TransferInv, BlobsSound, Here, Excused
  <2> QED BY <2>1, <2>2, Zenon DEF BlobsAreVerified
<1> QED BY <1>1, TransferInvariant, PTL

LEMMA LengthFixed ==
    ASSUME [Next]_vars
    PROVE  length' = length
<1>1. ASSUME Step PROVE length' = length
  BY <1>1, Zenon DEF Step, StartCycle, Check, mark_resource_local, NothingDue, Next_row, Probe,
     content_upload_status, create_content_upload, upload_content_chunk,
     download_content_chunk, append_check, append_write, verify_and_publish, LeaseMismatch,
     record_resource_progress, Release, complete_resource_transfer, wait_for_local_resource
<1>2. ASSUME lease_due_resources PROVE length' = length
  BY <1>2, Zenon DEF lease_due_resources, Lease
<1> QED BY <1>1, <1>2, Zenon DEF Next, vars, ImportFile, CommitLocal, AddPeer, Requeue,
        CommitFromPeer, LoseAnswer, Arrive, Expire, Crash, Spoil

(* The tables keep their types; no row counts more bytes than its content  *)
(* has, and only a leased row has a lease.                                 *)
THEOREM TransferTypes == Spec => []TypeOK
<1>1. Init => length \in [Contents -> Lengths] BY Zenon DEF Init
<1>2. length \in [Contents -> Lengths] /\ [Next]_vars => (length \in [Contents -> Lengths])'
  BY LengthFixed, Zenon
<1>3. ASSUME TransferInv, length \in [Contents -> Lengths] PROVE TypeOK
  <2>1. ASSUME NEW r \in Rows
        PROVE  /\ transfer[r].state \in {"none", "waiting", "pending", "leased", "complete", "rejected"}
               /\ transfer[r].lease \in BOOLEAN /\ transfer[r].url \in Uploads \cup {None}
               /\ transfer[r].bytes \in Nat
    BY <1>3, Zenon DEF TransferInv, Types, Entry, States
  <2>2. ASSUME NEW r \in Rows PROVE transfer[r].bytes \in 0..length[r[2]]
    <3>1. transfer[r].bytes <= length[r[2]] /\ length[r[2]] \in Nat
      BY <1>3, RowParts, Zenon DEF TransferInv, RowsSound, Types
    <3> QED BY <2>1, <3>1
  <2>3. \A r \in Rows : transfer[r].lease => transfer[r].state = "leased"
    BY <1>3, Zenon DEF TransferInv, RowsSound
  <2>4. /\ resource \in [Contents -> [known : BOOLEAN, available : BOOLEAN, expected : BOOLEAN]]
        /\ held \in [Peers -> SUBSET Contents] /\ cut \subseteq Contents /\ spoilt \subseteq Contents
    BY <1>3, Zenon DEF TransferInv, Types, Entity
  <2> QED BY <1>3, <2>1, <2>2, <2>3, <2>4, Zenon DEF TypeOK
<1> QED BY <1>1, <1>2, <1>3, TransferInvariant, PTL DEF Spec


(* What is complete is over: no later commit, requeue, lease or late       *)
(* answer takes a completed row up again, and no peer loses what it has    *)
(* published.                                                              *)
CompletionIsFinal ==
    [][/\ \A r \in Rows : transfer[r].state = "complete" => transfer'[r].state = "complete"
       /\ \A p \in Peers : held[p] \subseteq held'[p]]_vars

HeldGrows == \A p \in Peers : held[p] \subseteq held'[p]
Final == \A r \in Rows : transfer[r].state = "complete" => transfer'[r].state = "complete"

LEMMA RowsNotFinal ==
    ASSUME TransferInv, job.at \in RowLabels, Holds,
           \A r \in Rows : r # job.row => transfer'[r] = transfer[r]
    PROVE  Final
BY Zenon DEF Final, Holds

LEMMA SettleFinal ==
    ASSUME NEW c \in Contents, NEW table, NEW r \in Rows
    PROVE  table[r].state = "complete" => Settle(c, table)[r] = table[r]
BY Zenon DEF Settle

LEMMA StepFinal ==
    ASSUME TransferInv, [Next]_vars
    PROVE  Final
<1>1. CASE transfer' = transfer BY <1>1, Zenon DEF Final
<1>2. CASE transfer' = Forget
  <2>1. \A r \in Rows : transfer'[r].state = transfer[r].state
    BY <1>2 DEF Forget, TransferInv, Types, Entry
  <2> QED BY <2>1, Zenon DEF Final
<1>3. ASSUME NEW rows, NEW state(_), transfer' = Insert(rows, state) PROVE Final
  BY <1>3, RowTypes, Zenon DEF Insert, Final
<1>4. ASSUME NEW p \in Peers, Requeue(p) PROVE Final
  BY <1>4, Zenon DEF Requeue, Reopened, Final
<1>5. CASE mark_resource_local
  <2>1. job.row \in Contents /\ transfer' = Settle(job.row, transfer)
    BY <1>5, Zenon DEF mark_resource_local, TransferInv, JobSound, At
  <2> QED BY <2>1, SettleFinal, Zenon DEF Final
<1>6. CASE lease_due_resources
  <2>1. PICK rows \in SUBSET Due \ {{}} : Lease(rows) BY <1>6, Zenon DEF lease_due_resources
  <2> QED BY <2>1, Zenon DEF Lease, Due, Final
<1>7. ASSUME record_resource_progress \/ Release \/ wait_for_local_resource PROVE Final
  <2>1. job.at \in RowLabels /\ Holds
    BY <1>7, EndLabels, Zenon DEF record_resource_progress, Release, wait_for_local_resource, At
  <2>2. job.row \in Rows BY <2>1, WorkerRow, Zenon
  <2>3. \A r \in Rows : r # job.row => transfer'[r] = transfer[r]
    BY <1>7, <2>2, Zenon DEF record_resource_progress, Release, wait_for_local_resource,
       TransferInv, Types
  <2> QED BY <2>1, <2>3, RowsNotFinal, Zenon
<1>8. CASE complete_resource_transfer
  <2> DEFINE q == job.row
             done == [transfer EXCEPT ![q].state = "complete", ![q].lease = FALSE,
                                      ![q].bytes = length[C]]
  <2>1. job.at \in RowLabels /\ Holds
    BY <1>8, EndLabels, Zenon DEF complete_resource_transfer, At
  <2>2. q \in Rows /\ C \in Contents BY <2>1, WorkerRow, Zenon
  <2>3. \A r \in Rows : r # q => done[r] = transfer[r] BY <2>2, Zenon DEF TransferInv, Types
  <2>4. transfer' = done \/ transfer' = Settle(C, done)
    BY <1>8, Zenon DEF complete_resource_transfer
  <2>5. \A r \in Rows : transfer[r].state = "complete" => r # q BY <2>1, Zenon DEF Holds
  <2> HIDE DEF done, q
  <2>6. ASSUME NEW r \in Rows, transfer[r].state = "complete" PROVE transfer'[r] = transfer[r]
    <3>1. done[r] = transfer[r] BY <2>3, <2>5, <2>6, Zenon
    <3>2. done[r].state = "complete" BY <2>6, <3>1, Zenon
    <3>3. Settle(C, done)[r] = done[r] BY <2>2, <3>2, SettleFinal
    <3> QED BY <2>4, <3>1, <3>3, Zenon
  <2> QED BY <2>6, Zenon DEF Final
<1>9. ASSUME Step PROVE Final
  BY <1>1, <1>2, <1>5, <1>7, <1>8, <1>9, Zenon DEF Step, StartCycle, Check, NothingDue, Next_row,
     Probe, content_upload_status, create_content_upload, upload_content_chunk,
     download_content_chunk, append_check, append_write, verify_and_publish, LeaseMismatch, tables
<1>10. ASSUME NEW c \in Contents, ImportFile(c) \/ CommitLocal(c) PROVE Final
  BY <1>1, <1>3, <1>10, Zenon DEF ImportFile, CommitLocal, tables
<1>11. ASSUME NEW p \in Peers, AddPeer(p) \/ \E c \in Contents : CommitFromPeer(p, c) PROVE Final
  BY <1>3, <1>11, Zenon DEF AddPeer, CommitFromPeer
<1>12. ASSUME \/ LoseAnswer \/ \E f \in flying : Arrive(f)
              \/ \E u \in Uploads : Expire(u)
              \/ \E c \in Contents, file \in {None, Damaged} : Spoil(c, file)
       PROVE  Final
  BY <1>1, <1>12, Zenon DEF LoseAnswer, Arrive, Expire, Spoil, tables
<1>13. CASE Crash BY <1>2, <1>13, Zenon DEF Crash
<1>14. CASE UNCHANGED vars BY <1>1, <1>14, Zenon DEF vars, tables
<1> QED BY <1>4, <1>6, <1>9, <1>10, <1>11, <1>12, <1>13, <1>14, Zenon DEF Next


LEMMA PublishGrows ==
    ASSUME TransferInv, NEW p, NEW c, NEW n, Publish(p, c, n)
    PROVE  HeldGrows
BY Zenon DEF TransferInv, Types, Publish, HeldGrows

LEMMA StepGrows ==
    ASSUME TransferInv, [Next]_vars
    PROVE  HeldGrows
<1>1. CASE held' = held BY <1>1, Zenon DEF HeldGrows
<1>2. ASSUME NEW u, NEW n, append_upload_chunk(u, n) PROVE HeldGrows
  <2>1. Publish(upload[u].peer, upload[u].of, n + 1) BY <1>2, Zenon DEF append_upload_chunk
  <2> QED BY <2>1, PublishGrows, Zenon
<1>3. CASE create_content_upload
  BY <1>3, PublishGrows, Zenon DEF create_content_upload, create_upload
<1>4. CASE upload_content_chunk BY <1>1, <1>2, <1>4, Zenon DEF upload_content_chunk, remote
<1>5. ASSUME NEW f \in flying, Arrive(f) PROVE HeldGrows
  BY <1>1, <1>2, <1>5, Zenon DEF Arrive
<1>6. ASSUME Step PROVE HeldGrows
  BY <1>1, <1>3, <1>4, <1>6, Zenon DEF Step, StartCycle, Check, mark_resource_local, NothingDue,
     Next_row, Probe, content_upload_status, download_content_chunk, append_check,
     append_write, verify_and_publish, LeaseMismatch, record_resource_progress, Release,
     complete_resource_transfer, wait_for_local_resource, remote
<1>7. ASSUME lease_due_resources PROVE HeldGrows
  BY <1>1, <1>7, Zenon DEF lease_due_resources, Lease, remote
<1> QED BY <1>1, <1>5, <1>6, <1>7, Zenon DEF Next, vars, remote, ImportFile, CommitLocal,
        AddPeer, Requeue, CommitFromPeer, LoseAnswer, Expire, Crash, Spoil

(* A completed transfer is never taken up again, and published content     *)
(* stays published (Holds, lease_due_resources, Insert, Requeue).          *)
THEOREM CompletionStaysFinal == Spec => CompletionIsFinal
<1>1. TransferInv /\ [Next]_vars =>
         [/\ \A r \in Rows : transfer[r].state = "complete" => transfer'[r].state = "complete"
          /\ \A p \in Peers : held[p] \subseteq held'[p]]_vars
  BY StepFinal, StepGrows, Zenon DEF Final, HeldGrows
<1> QED BY <1>1, TransferInvariant, PTL DEF Spec, CompletionIsFinal

===============================================================================
