------------------------------- MODULE BlobStore -------------------------------
(***************************************************************************)
(* The node's content store (fractonica-blob-store over the content tables *)
(* of fractonica-store-sqlite): resumable uploads into staging files,      *)
(* publication of a finished file under its digest, and the recovery run   *)
(* when the store is opened.                                               *)
(*                                                                         *)
(* A step of an upload ends at each durable effect, so that the process    *)
(* can stop between any two.  The mutex of an upload lets one request work *)
(* on it at a time: "step" is where that request is.  A digest is modelled *)
(* by the bytes it is the digest of.                                       *)
(***************************************************************************)
EXTENDS Integers, Sequences

CONSTANTS
    Uploads,         \* upload ids; an id (a fresh UUID) is used once
    Contents,        \* what clients send, with all its prefixes
    Declarations,    \* digests clients declare for their uploads
    None,
    Budgets          \* bounds on failing calls, process terminations, losses of
                     \* power and changes of published files from outside

Lengths == {Len(c) : c \in Contents}
Bytes == UNION {{c[i] : i \in DOMAIN c} : c \in Contents}
Chunks == UNION {{SubSeq(c, i, j) : i, j \in 1..Len(c)} : c \in Contents}

Session == [length : Lengths, offset : Lengths,
            state : {"active", "finalizing", "complete"},
            expected : Declarations \cup {None}, final : Contents \cup {None}]
Reading == [version : Nat, intact : BOOLEAN]
Counts == [errors : Nat, crashes : Nat, losses : Nat, tampers : Nat]

ASSUME BlobAssumption ==
    /\ Contents \subseteq Seq(Bytes)
    /\ \A c \in Contents : \A n \in 0..Len(c) : SubSeq(c, 1, n) \in Contents
    /\ <<>> \in Contents /\ Declarations \subseteq Contents
    /\ None \notin Uploads \cup Contents /\ None \notin Session
    /\ Budgets \subseteq Counts

VARIABLES
    session,    \* upload_sessions
    blobs,      \* blobs: the content ids with a descriptor
    staging,    \* staging/<upload>.part
    file,       \* blobs/sha-256/<digest>
    unsynced,   \* renames into blobs/ whose directories are not synchronized
    expired,    \* uploads whose expiry time has passed
    step,       \* where the request (or recovery) working on an upload is
    chunk,      \* the bytes of that request
    publisher,  \* the upload holding publication_lock
    phase,      \* of the process: down, the three parts of recover(), up
    version,    \* the fingerprint of a published file
    verified,   \* verified_files: fingerprint at the last verification, 0 if none
    reading,    \* a blob() call between hashing a file and caching the result
    fresh,      \* upload ids not used yet
    accepted,   \* history: the bytes acknowledged for an upload
    counts      \* of errors, crashes, power losses and tampers so far

durable == <<session, blobs, staging, file, unsynced>>
volatile == <<step, chunk, publisher, verified, reading>>
vars == <<durable, volatile, expired, phase, version, fresh, accepted, counts>>

Steps == {"idle", "created", "written", "full", "begun", "renamed", "published",
          "discarding"}
Phases == {"down", "orphans", "finalize", "expire", "up"}

Init ==
    /\ session = [u \in Uploads |-> None]
    /\ blobs = {}
    /\ staging = [u \in Uploads |-> None]
    /\ file = [c \in Contents |-> None]
    /\ unsynced = {}
    /\ expired = {}
    /\ step = [u \in Uploads |-> "idle"]
    /\ chunk = [u \in Uploads |-> <<>>]
    /\ publisher = None
    /\ phase = "up"
    /\ version = [c \in Contents |-> 1]
    /\ verified = [c \in Contents |-> 0]
    /\ reading = [c \in Contents |-> None]
    /\ fresh = Uploads
    /\ accepted = [u \in Uploads |-> <<>>]
    /\ counts = [errors |-> 0, crashes |-> 0, losses |-> 0, tampers |-> 0]

(* A fault of this kind happens, within one of the budgets.                *)
Suffer(kind) ==
    /\ counts' = [counts EXCEPT ![kind] = @ + 1]
    /\ \E b \in Budgets : \A k \in DOMAIN counts : counts'[k] <= b[k]

Known(u) == session[u] # None
IsFull(u) == session[u].offset = session[u].length
(* uploads_requiring_finalization                                          *)
NeedsFinalization(u) ==
    Known(u) /\ \/ session[u].state = "finalizing"
                \/ session[u].state = "active" /\ IsFull(u)
Working == phase \in {"up", "finalize"}
Quiet == \A u \in Uploads : step[u] = "idle"
Move(u, from, to) == step[u] = from /\ step' = [step EXCEPT ![u] = to]

-------------------------------------------------------------------------------
(* create_upload: the staging file first, then the session.                *)
CreateFile(u) ==
    /\ phase = "up" /\ u \in fresh
    /\ Move(u, "idle", "created")
    /\ fresh' = fresh \ {u}
    /\ staging' = [staging EXCEPT ![u] = <<>>]
    /\ UNCHANGED <<session, blobs, file, unsynced, chunk, publisher, verified, reading,
                   expired, phase, version, accepted, counts>>

(* An empty upload that declares the digest of anything else is refused    *)
(* before its file is created; another empty one goes on to be finalized.  *)
CreateSession(u, n, e) ==
    /\ n = 0 /\ e # None => e = <<>>
    /\ Move(u, "created", IF n = 0 THEN "full" ELSE "idle")
    /\ session' = [session EXCEPT ![u] = [length |-> n, offset |-> 0, state |-> "active",
                                          expected |-> e, final |-> None]]
    /\ UNCHANGED <<blobs, staging, file, unsynced, chunk, publisher, verified, reading,
                   expired, phase, version, fresh, accepted, counts>>

(* The database refuses the session: the staging file is removed again.    *)
CreateFails(u) ==
    /\ Move(u, "created", "idle")
    /\ Suffer("errors")
    /\ staging' = [staging EXCEPT ![u] = None]
    /\ UNCHANGED <<session, blobs, file, unsynced, chunk, publisher, verified, reading,
                   expired, phase, version, fresh, accepted>>

-------------------------------------------------------------------------------
(* append_chunk at the committed offset, up to and including sync_all: an  *)
(* uncommitted tail of the staging file is cut off before the chunk is     *)
(* written.  A request at another offset, beyond the length, on an upload  *)
(* that is unknown, expired or not active, changes nothing.                *)
Truncated(u) == SubSeq(staging[u], 1, session[u].offset)

Appendable(u, bytes) ==
    /\ phase = "up" /\ step[u] = "idle"
    /\ Known(u) /\ session[u].state = "active" /\ u \notin expired
    /\ bytes # <<>> /\ session[u].offset + Len(bytes) <= session[u].length
    /\ staging[u] # None /\ Len(staging[u]) >= session[u].offset
    /\ Truncated(u) \o bytes \in Contents

WriteChunk(u, bytes) ==
    /\ Appendable(u, bytes)
    /\ Move(u, "idle", "written")
    /\ staging' = [staging EXCEPT ![u] = Truncated(u) \o bytes]
    /\ chunk' = [chunk EXCEPT ![u] = bytes]
    /\ UNCHANGED <<session, blobs, file, unsynced, publisher, verified, reading,
                   expired, phase, version, fresh, accepted, counts>>

(* write_all or sync_all fails after part of the chunk reached the file.   *)
WriteFails(u, bytes) ==
    /\ Appendable(u, bytes)
    /\ staging' = [staging EXCEPT ![u] = Truncated(u) \o bytes]
    /\ Suffer("errors")
    /\ UNCHANGED <<session, blobs, file, unsynced, volatile, expired, phase, version,
                   fresh, accepted>>

NewOffset(u) == session[u].offset + Len(chunk[u])
DigestMismatch_Never(u) == FALSE        \* mutant: the declared digest is not compared

DigestMismatch(u) ==
    /\ NewOffset(u) = session[u].length
    /\ session[u].expected \notin {None, staging[u]}

(* The last chunk completes bytes of another digest: it is cut off again.  *)
RejectDigest(u) ==
    /\ Move(u, "written", "idle") /\ DigestMismatch(u)
    /\ staging' = [staging EXCEPT ![u] = Truncated(u)]
    /\ chunk' = [chunk EXCEPT ![u] = <<>>]
    /\ UNCHANGED <<session, blobs, file, unsynced, publisher, verified, reading, expired,
                   phase, version, fresh, accepted, counts>>

(* advance_upload, which also renews the expiry time.                      *)
Advance(u) ==
    /\ step[u] = "written" /\ ~DigestMismatch(u)
    /\ Move(u, "written", IF NewOffset(u) = session[u].length THEN "full" ELSE "idle")
    /\ session' = [session EXCEPT ![u].offset = NewOffset(u)]
    /\ expired' = expired \ {u}
    /\ accepted' = [accepted EXCEPT ![u] = @ \o chunk[u]]
    /\ chunk' = [chunk EXCEPT ![u] = <<>>]
    /\ UNCHANGED <<blobs, staging, file, unsynced, publisher, verified, reading, phase,
                   version, fresh, counts>>

-------------------------------------------------------------------------------
(* finalize_locked_with_id, for a request and for recovery.                *)

(* begin_upload_finalize records the digest of the staged bytes.           *)
BeginFinalize(u) ==
    /\ Working /\ Move(u, "full", "begun")
    /\ session' = [session EXCEPT ![u].state = "finalizing", ![u].final = staging[u]]
    /\ UNCHANGED <<blobs, staging, file, unsynced, chunk, publisher, verified, reading,
                   expired, phase, version, fresh, accepted, counts>>

(* install_final_file under publication_lock: a file already at the path   *)
(* is verified and the staging file dropped; otherwise the staging file is *)
(* renamed, and the lock held until the directories are synchronized.      *)
Publish(u) ==
    /\ Working /\ step[u] = "begun" /\ publisher = None
    /\ staging' = [staging EXCEPT ![u] = None]
    /\ LET c == session[u].final
       IN \/ /\ file[c] = c
             /\ Move(u, "begun", "published")
             /\ UNCHANGED <<file, unsynced, publisher>>
          \/ /\ file[c] = None /\ staging[u] # None
             /\ Move(u, "begun", "renamed")
             /\ file' = [file EXCEPT ![c] = staging[u]]
             /\ unsynced' = unsynced \cup {<<u, c>>}
             /\ publisher' = u
    /\ UNCHANGED <<session, blobs, chunk, verified, reading, expired, phase, version,
                   fresh, accepted, counts>>

SyncDirectories(u) ==
    /\ Move(u, "renamed", "published")
    /\ unsynced' = unsynced \ {<<u, session[u].final>>}
    /\ publisher' = None
    /\ UNCHANGED <<session, blobs, staging, file, chunk, verified, reading, expired, phase,
                   version, fresh, accepted, counts>>

Complete_Early(u) ==                    \* mutant: the row is written before the file
    /\ Working /\ step[u] \in {"begun", "published"}
    /\ step' = [step EXCEPT ![u] = "idle"]
    /\ session' = [session EXCEPT ![u].state = "complete"]
    /\ blobs' = blobs \cup {session[u].final}
    /\ UNCHANGED <<staging, file, unsynced, chunk, publisher, verified, reading, expired,
                   phase, version, fresh, accepted, counts>>

(* complete_upload: the descriptor and the state in one transaction.       *)
Complete(u) ==
    /\ Move(u, "published", "idle")
    /\ session' = [session EXCEPT ![u].state = "complete"]
    /\ blobs' = blobs \cup {session[u].final}
    /\ UNCHANGED <<staging, file, unsynced, chunk, publisher, verified, reading, expired,
                   phase, version, fresh, accepted, counts>>

(* A database or file call of a request fails: the request ends and leaves *)
(* what it has done.                                                       *)
Fail(u) ==
    /\ phase = "up" /\ step[u] # "idle"
    /\ step' = [step EXCEPT ![u] = "idle"]
    /\ chunk' = [chunk EXCEPT ![u] = <<>>]
    /\ publisher' = IF publisher = u THEN None ELSE publisher
    /\ Suffer("errors")
    /\ UNCHANGED <<durable, verified, reading, expired, phase, version, fresh, accepted>>

-------------------------------------------------------------------------------
(* The process ends and what it held in memory is gone.                    *)
Stop ==
    /\ phase' = "down"
    /\ step' = [u \in Uploads |-> "idle"]
    /\ chunk' = [u \in Uploads |-> <<>>]
    /\ publisher' = None
    /\ verified' = [c \in Contents |-> 0]
    /\ reading' = [c \in Contents |-> None]
    /\ UNCHANGED <<session, blobs, expired, version, fresh, accepted>>

Crash ==
    /\ phase # "down"
    /\ Suffer("crashes")
    /\ Stop
    /\ UNCHANGED <<staging, file, unsynced>>

(* The machine loses power: any of the renames whose directories were not  *)
(* synchronized may be undone.  Synchronized bytes and committed           *)
(* transactions (synchronous = FULL) survive.                              *)
PowerLoss(undone) ==
    /\ phase # "down"
    /\ Suffer("losses")
    /\ Stop
    /\ staging' = [u \in Uploads |-> IF \E c \in Contents : <<u, c>> \in undone
                                     THEN file[CHOOSE c \in Contents : <<u, c>> \in undone]
                                     ELSE staging[u]]
    /\ file' = [c \in Contents |-> IF \E u \in Uploads : <<u, c>> \in undone
                                   THEN None ELSE file[c]]
    /\ unsynced' = {}

(* Time passes an upload's expiry.  recover() reads the clock once, so an  *)
(* upload that expires while it runs is treated as if it had not.          *)
Expire(u) ==
    /\ phase \in {"up", "down"} /\ Known(u) /\ u \notin expired
    /\ expired' = expired \cup {u}
    /\ UNCHANGED <<durable, volatile, phase, version, fresh, accepted, counts>>

-------------------------------------------------------------------------------
(* open_with_limits runs recover() to its end before the store is used; an *)
(* error in it ends the process.                                           *)
EnterPhase(from, to) ==
    /\ phase = from /\ phase' = to
    /\ UNCHANGED <<durable, volatile, expired, version, fresh, accepted, counts>>

Restart == EnterPhase("down", "orphans")

(* remove_orphan_staging_files                                             *)
IsOrphan(u) == staging[u] # None /\ ~Known(u)

RemoveOrphan(u) ==
    /\ phase = "orphans" /\ IsOrphan(u)
    /\ staging' = [staging EXCEPT ![u] = None]
    /\ UNCHANGED <<session, blobs, file, unsynced, volatile, expired, phase, version,
                   fresh, accepted, counts>>

OrphansRemoved == (\A u \in Uploads : ~IsOrphan(u)) /\ EnterPhase("orphans", "finalize")

Resume_FullOnly(u) ==                   \* mutant: sessions in "finalizing" are left
    /\ phase = "finalize" /\ Quiet /\ NeedsFinalization(u)
    /\ session[u].state = "active"
    /\ step' = [step EXCEPT ![u] = "full"]
    /\ UNCHANGED <<durable, chunk, publisher, verified, reading, expired, phase, version,
                   fresh, accepted, counts>>

(* One pending session at a time is finalized: an active one through       *)
(* finalize_locked, which needs its staging file, a finalizing one from    *)
(* publish_final_file on.                                                  *)
Resume(u) ==
    /\ phase = "finalize" /\ Quiet /\ NeedsFinalization(u)
    /\ \/ /\ session[u].state = "active" /\ staging[u] # None
          /\ step' = [step EXCEPT ![u] = "full"]
       \/ /\ session[u].state = "finalizing"
          /\ step' = [step EXCEPT ![u] = "begun"]
    /\ UNCHANGED <<durable, chunk, publisher, verified, reading, expired, phase, version,
                   fresh, accepted, counts>>

Finalized ==
    /\ Quiet /\ \A u \in Uploads : ~NeedsFinalization(u)
    /\ EnterPhase("finalize", "expire")

(* discard_upload: the staging file, then the session.                     *)
IsExpired(u) == Known(u) /\ session[u].state # "finalizing" /\ u \in expired

DiscardFile(u) ==
    /\ phase = "expire" /\ Quiet /\ IsExpired(u)
    /\ Move(u, "idle", "discarding")
    /\ staging' = [staging EXCEPT ![u] = None]
    /\ UNCHANGED <<session, blobs, file, unsynced, chunk, publisher, verified, reading,
                   expired, phase, version, fresh, accepted, counts>>

DiscardSession(u) ==
    /\ Move(u, "discarding", "idle")
    /\ session' = [session EXCEPT ![u] = None]
    /\ UNCHANGED <<blobs, staging, file, unsynced, chunk, publisher, verified, reading,
                   expired, phase, version, fresh, accepted, counts>>

Opened ==
    /\ Quiet /\ \A u \in Uploads : ~IsExpired(u)
    /\ EnterPhase("expire", "up")

-------------------------------------------------------------------------------
(* blob(): the file of a known content id is served when its fingerprint   *)
(* is the one last verified; otherwise it is hashed, its fingerprint read  *)
(* again, and the verification remembered.                                 *)
HashBlob(c) ==
    /\ phase = "up" /\ c \in blobs /\ reading[c] = None
    /\ file[c] # None /\ Len(file[c]) = Len(c)
    /\ verified[c] # version[c]
    /\ reading' = [reading EXCEPT ![c] = [version |-> version[c], intact |-> file[c] = c]]
    /\ UNCHANGED <<durable, step, chunk, publisher, verified, expired, phase, version,
                   fresh, accepted, counts>>

CacheVerification_Blind(c) ==           \* mutant: the fingerprint is not read again
    /\ reading[c] # None
    /\ verified' = [verified EXCEPT ![c] = IF reading[c].intact THEN version[c] ELSE 0]
    /\ reading' = [reading EXCEPT ![c] = None]
    /\ UNCHANGED <<durable, step, chunk, publisher, expired, phase, version, fresh,
                   accepted, counts>>

CacheVerification(c) ==
    /\ reading[c] # None
    /\ verified' = [verified EXCEPT ![c] = IF ~reading[c].intact THEN 0
                                           ELSE IF reading[c].version = version[c]
                                           THEN version[c] ELSE @]
    /\ reading' = [reading EXCEPT ![c] = None]
    /\ UNCHANGED <<durable, step, chunk, publisher, expired, phase, version, fresh,
                   accepted, counts>>

(* A published file is changed from outside, and with it its fingerprint.  *)
Tamper(c, bytes) ==
    /\ file[c] # None /\ bytes # file[c]
    /\ file' = [file EXCEPT ![c] = bytes]
    /\ version' = [version EXCEPT ![c] = @ + 1]
    /\ Suffer("tampers")
    /\ UNCHANGED <<session, blobs, staging, unsynced, volatile, expired, phase, fresh,
                   accepted>>

-------------------------------------------------------------------------------
RequestStep(u) ==
    \/ CreateFile(u) \/ CreateFails(u) \/ Fail(u)
    \/ \E n \in Lengths, e \in Declarations \cup {None} : CreateSession(u, n, e)
    \/ \E b \in Chunks : WriteChunk(u, b) \/ WriteFails(u, b)
    \/ RejectDigest(u) \/ Advance(u)

FinalizeStep(u) == BeginFinalize(u) \/ Publish(u) \/ SyncDirectories(u) \/ Complete(u)

RecoveryStep ==
    \/ Restart \/ OrphansRemoved \/ Finalized \/ Opened
    \/ \E u \in Uploads :
          RemoveOrphan(u) \/ Resume(u) \/ DiscardFile(u) \/ DiscardSession(u)

Next ==
    \/ \E u \in Uploads : RequestStep(u) \/ FinalizeStep(u) \/ Expire(u)
    \/ RecoveryStep
    \/ \E c \in Contents : HashBlob(c) \/ CacheVerification(c)
    \/ \E c \in Contents, b \in Contents : Tamper(c, b)
    \/ Crash
    \/ \E undone \in SUBSET unsynced : PowerLoss(undone)

(* A running request goes on, and a stopped process is started again and   *)
(* recovers.                                                               *)
Fairness ==
    /\ WF_vars(RecoveryStep)
    /\ \A u \in Uploads : WF_vars(FinalizeStep(u))

Spec == Init /\ [][Next]_vars
FairSpec == Spec /\ Fairness

-------------------------------------------------------------------------------
Untouched == counts.tampers = 0

(* The rows, files and steps of an upload keep their types.                *)
TypeOK ==
    /\ session \in [Uploads -> Session \cup {None}]
    /\ blobs \subseteq Contents
    /\ staging \in [Uploads -> Contents \cup {None}]
    /\ file \in [Contents -> Contents \cup {None}]
    /\ unsynced \subseteq Uploads \X Contents
    /\ expired \subseteq Uploads /\ fresh \subseteq Uploads
    /\ step \in [Uploads -> Steps]
    /\ chunk \in [Uploads -> Chunks \cup {<<>>}]
    /\ publisher \in Uploads \cup {None}
    /\ phase \in Phases
    /\ version \in [Contents -> Nat \ {0}] /\ verified \in [Contents -> Nat]
    /\ reading \in [Contents -> Reading \cup {None}]
    /\ accepted \in [Uploads -> Contents]
    /\ counts \in Counts

(* "never a partially readable committed blob" (docs/content-storage.md): *)
(* the file of every content id with a descriptor holds exactly its bytes, *)
(* whatever finalization, recovery or concurrent upload of the same bytes  *)
(* was interrupted, unless somebody else changed it.                       *)
BlobsAreWhole == Untouched => \A c \in blobs : file[c] = c

(* An upload is what its client sent: the committed offset counts the      *)
(* acknowledged bytes, the staging file starts with them until an expired  *)
(* upload is discarded, the bytes it is finalized as are all of them and   *)
(* have the declared digest (append_chunk, begin_upload_finalize), and a   *)
(* session recover() has to finish finds them, in staging or at the final  *)
(* path, wherever a crash came.                                            *)
UploadIsWhatWasSent ==
    \A u \in Uploads : Known(u) =>
        /\ session[u].offset = Len(accepted[u])
        /\ session[u].state = "active" =>
              IF staging[u] = None THEN u \in expired
              ELSE /\ Len(staging[u]) >= session[u].offset
                   /\ Truncated(u) = accepted[u]
        /\ session[u].state # "active" =>
              /\ session[u].final = accepted[u] /\ IsFull(u)
              /\ session[u].expected \in {None, session[u].final}
        /\ NeedsFinalization(u) /\ Untouched =>
              \/ staging[u] = accepted[u]
              \/ session[u].state = "finalizing" /\ file[session[u].final] = accepted[u]

(* The verification cache never vouches for bytes other than the content   *)
(* id's: a file that changed since it was hashed is hashed again.          *)
CacheVouchesForBytes ==
    \A c \in Contents : verified[c] = version[c] => file[c] = c

(* Every start of the store ends with the store in use, unless somebody    *)
(* else changed a published file; and an upload whose last byte was        *)
(* acknowledged becomes a committed blob, though the process stops at any  *)
(* point of its finalization, unless a call fails on the way: then it      *)
(* waits for the next start.                                               *)
RecoveryCompletes ==
    /\ phase = "down" ~> phase = "up" \/ ~Untouched
    /\ \A u \in Uploads :
          NeedsFinalization(u) ~> \/ ~Untouched \/ counts.errors > 0
                                  \/ Known(u) /\ session[u].state = "complete"
===============================================================================
