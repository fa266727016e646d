--------------------------- MODULE ResourceTransfers ---------------------------
(***************************************************************************)
(* The media half of a client's synchronization: the resource tables of    *)
(* fractonica-client-sqlite, the files of fractonica-client-content, and   *)
(* the resource half of a cycle of the worker in fractonica-sync, against  *)
(* the upload and blob routes of the peers.                                *)
(*                                                                         *)
(* A step of the worker is one store transaction, one HTTP exchange or one   *)
(* durable effect on a file.  Content is cut into chunks; a file is the    *)
(* sequence of the chunks in it, 0 standing for a damaged one.  Peers are  *)
(* enabled for pushing and for reading content.                            *)
(***************************************************************************)
EXTENDS Naturals, FiniteSets, Sequences

CONSTANTS
    Contents,
    Lengths,        \* the lengths, in chunks, that a content may have
    Peers,
    Holders,        \* the peers that may have contents to begin with
    Uploads,        \* upload ids of the peers; an id is used once
    Batch,          \* resource_transfers_per_cycle
    None,
    MaxFaults       \* lost messages, damage, crashes, expiries, requeues

ASSUME TransferAssumption ==
    /\ Batch \in Nat \ {0} /\ MaxFaults \in Nat /\ Lengths \subseteq Nat
    /\ Uploads \subseteq Nat
    /\ None \notin Contents \cup Peers \cup Nat \cup Seq(Nat)

VARIABLES
    length,         \* of each content
    resource,       \* client_resources
    transfer,       \* client_resource_transfers
    peers,          \* client_peers
    part,           \* partial/<content>.part, None if there is no file
    blob,           \* blobs/sha-256/<content>
    held,           \* the contents each peer has published
    upload,         \* the peers' upload sessions
    flying,         \* PATCH requests given up by the client, not by the network
    job,            \* what the worker is doing
    cut,            \* history: contents whose publication a crash prevented
    spoilt,         \* history: contents whose blob was removed or changed
    faults

files == <<part, blob>>
tables == <<resource, transfer, peers>>
remote == <<held, upload, flying>>
vars == <<length, tables, files, remote, job, cut, spoilt, faults>>

Rows == Peers \X Contents \X {"upload", "download"}
Up(c) == {r \in Rows : r[2] = c /\ r[3] = "upload"}
Down(c) == {r \in Rows : r[2] = c /\ r[3] = "download"}

NoRow == [state |-> "none", lease |-> FALSE, url |-> None, bytes |-> 0]
Unknown == [known |-> FALSE, available |-> FALSE, expected |-> FALSE]
Idle == [at |-> "idle", row |-> None, rest |-> {}, scan |-> {}, url |-> None,
         offset |-> 0, chunk |-> 0]
NoUpload == [peer |-> None, of |-> None, offset |-> 0]

Whole(c) == [i \in 1..length[c] |-> i]

Init ==
    /\ length \in [Contents -> Lengths]
    /\ resource = [c \in Contents |-> Unknown]
    /\ transfer = [r \in Rows |-> NoRow]
    /\ peers = {}
    /\ part = [c \in Contents |-> None] /\ blob = [c \in Contents |-> None]
    /\ held \in {h \in [Peers -> SUBSET Contents] : \A p \in Peers \ Holders : h[p] = {}}
    /\ upload = [u \in Uploads |-> NoUpload] /\ flying = {}
    /\ job = Idle
    /\ cut = {} /\ spoilt = {} /\ faults = 0

Fault == faults < MaxFaults /\ faults' = faults + 1

-------------------------------------------------------------------------------
(* Discovery: what a commit and a new peer add to the tables.              *)

Insert(rows, state(_)) ==
    [r \in Rows |-> IF r \in rows /\ transfer[r] = NoRow
                    THEN [NoRow EXCEPT !.state = state(r)] ELSE transfer[r]]

(* A new upload waits until the bytes are known to be here.                *)
UploadState(r) == IF resource[r[2]].available THEN "pending" ELSE "waiting"

(* An attachment is imported: copied, hashed and published.                *)
ImportFile(c) ==
    /\ blob[c] = None
    /\ blob' = [blob EXCEPT ![c] = Whole(c)]
    /\ UNCHANGED <<length, tables, part, remote, job, cut, spoilt, faults>>

(* commit_local of an operation that refers to an imported attachment.     *)
CommitLocal(c) ==
    /\ blob[c] # None /\ ~resource[c].expected
    /\ resource' = [resource EXCEPT ![c].known = TRUE, ![c].expected = TRUE]
    /\ transfer' = Insert({r \in Up(c) : r[1] \in peers}, UploadState)
    /\ UNCHANGED <<length, peers, files, remote, job, cut, spoilt, faults>>

(* commit_from_peer of an operation that refers to it.                     *)
CommitFromPeer(p, c) ==
    LET new == {r \in Up(c) : r[1] \in peers \ {p}} \cup {<<p, c, "download">>}
        state(r) == IF r[3] = "upload" THEN UploadState(r)
                    ELSE IF resource[c].available THEN "complete" ELSE "pending"
    IN
    /\ p \in peers /\ transfer[<<p, c, "download">>] = NoRow
    /\ resource' = [resource EXCEPT ![c].known = TRUE]
    /\ transfer' = Insert(new, state)
    /\ UNCHANGED <<length, peers, files, remote, job, cut, spoilt, faults>>

KnownUploads(p) == {r \in Rows : r[1] = p /\ r[3] = "upload" /\ resource[r[2]].known}

(* upsert_peer and configure_peer_space queue what is known already.       *)
AddPeer(p) ==
    /\ p \notin peers
    /\ peers' = peers \cup {p}
    /\ transfer' = Insert(KnownUploads(p), UploadState)
    /\ UNCHANGED <<length, resource, files, remote, job, cut, spoilt, faults>>

Reopened(p) == {r \in KnownUploads(p) : transfer[r].state # "complete"}

(* requeue_unacknowledged_peer_space, at a start and after a new pairing.  *)
Requeue(p) ==
    /\ p \in peers /\ Fault
    /\ transfer' = [r \in Rows |-> IF r \in Reopened(p)
                                   THEN [NoRow EXCEPT !.state = UploadState(r)]
                                   ELSE transfer[r]]
    /\ UNCHANGED <<length, resource, peers, files, remote, job, cut, spoilt>>

-------------------------------------------------------------------------------
(* run_cycle, from the scan for local content to the leases.               *)

At(at) == job.at = at
Goto(at) == job' = [job EXCEPT !.at = at]

(* A lease id is used for one cycle: lease says whether a row is leased    *)
(* under the id of the cycle that runs.  Older leases run out.             *)
Forget == [r \in Rows |-> [transfer[r] EXCEPT !.lease = FALSE]]

resource_scan_candidates ==
    {c \in Contents : ~resource[c].available /\ resource[c].expected}

StartCycle ==
    /\ At("idle")
    /\ job' = [Idle EXCEPT !.at = "scan", !.scan = resource_scan_candidates]
    /\ transfer' = Forget
    /\ UNCHANGED <<length, resource, peers, files, remote, cut, spoilt, faults>>

(* content.blob: the file under the name of the content, verified.         *)
Blob(c) ==
    IF blob[c] = None THEN "absent"
    ELSE IF blob[c] = Whole(c) THEN "verified" ELSE "mismatch"

(* A candidate is looked up; a missing or a damaged file is skipped.    *)
Check(c) ==
    /\ At("scan") /\ c \in job.scan
    /\ job' = [job EXCEPT !.scan = @ \ {c},
                          !.at = IF Blob(c) = "verified" THEN "mark" ELSE "scan",
                          !.row = IF Blob(c) = "verified" THEN c ELSE None]
    /\ UNCHANGED <<length, tables, files, remote, cut, spoilt, faults>>

(* The bytes are here: downloads are over, uploads that waited begin.      *)
Settle(c, table) ==
    [r \in Rows |->
        IF r \in Down(c) /\ table[r].state \notin {"none", "complete"}
        THEN [NoRow EXCEPT !.state = "complete", !.bytes = length[c]]
        ELSE IF r \in Up(c) /\ table[r].state = "waiting"
        THEN [table[r] EXCEPT !.state = "pending"]
        ELSE table[r]]

mark_resource_local ==
    LET c == job.row IN
    /\ At("mark")
    /\ resource' = [resource EXCEPT ![c].available = TRUE]
    /\ transfer' = Settle(c, transfer)
    /\ job' = [job EXCEPT !.at = "scan", !.row = None]
    /\ UNCHANGED <<length, peers, files, remote, cut, spoilt, faults>>

(* Mutant of Due: a lease never runs out.                                  *)
Due_Pending == {r \in Rows : transfer[r].state = "pending"}

(* Pending, or leased by nobody who still runs: that lease runs out.       *)
Due == {r \in Rows : \/ transfer[r].state = "pending"
                     \/ transfer[r].state = "leased" /\ ~transfer[r].lease}

Lease(rows) ==
    /\ transfer' = [r \in Rows |-> IF r \in rows
                                   THEN [transfer[r] EXCEPT !.state = "leased", !.lease = TRUE]
                                   ELSE transfer[r]]
    /\ job' = [job EXCEPT !.at = "next", !.rest = {<<r, transfer[r].url>> : r \in rows}]
    /\ UNCHANGED <<length, resource, peers, files, remote, cut, spoilt>>

(* Downloads first, no more than a batch; backoff leaves out any of them.  *)
lease_due_resources ==
    /\ At("scan") /\ job.scan = {}
    /\ \E rows \in SUBSET Due \ {{}} :
          /\ Cardinality(rows) <= Batch
          /\ Lease(rows) /\ UNCHANGED faults

NothingDue ==
    /\ At("scan") /\ job.scan = {}
    /\ job' = Idle
    /\ UNCHANGED <<length, tables, files, remote, cut, spoilt, faults>>

(* The next leased row, downloads first; its URL is as it was leased.      *)
Next_row ==
    /\ At("next")
    /\ IF job.rest = {} THEN job' = Idle
       ELSE \E i \in job.rest :
            /\ i[1][3] = "upload" => \A j \in job.rest : j[1][3] = "upload"
            /\ job' = [job EXCEPT !.at = "probe", !.row = i[1],
                                           !.url = i[2], !.rest = @ \ {i}]
    /\ UNCHANGED <<length, tables, files, remote, cut, spoilt, faults>>

-------------------------------------------------------------------------------
(* The routes of a peer's node.                                            *)

blob_availability(p, c) == c \in held[p]

Publish(p, c, n) == held' = [held EXCEPT ![p] = IF n = length[c] THEN @ \cup {c} ELSE @]

(* Content of length zero is complete as soon as it is announced.          *)
create_upload(u, p, c) ==
    /\ upload[u] = NoUpload /\ \A v \in Uploads : v < u => upload[v] # NoUpload
    /\ upload' = [upload EXCEPT ![u] = [peer |-> p, of |-> c, offset |-> 0]]
    /\ Publish(p, c, 0)

(* The status of an answer about an upload: gone once it has expired.      *)
upload_status(u) == IF upload[u].of = None THEN 410 ELSE 200

(* A PATCH at the offset the node has, or a conflict.                      *)
append_status(u, n) ==
    IF upload[u].of = None THEN 410 ELSE IF upload[u].offset # n THEN 409 ELSE 204

append_upload_chunk(u, n) ==
    /\ append_status(u, n) = 204
    /\ upload' = [upload EXCEPT ![u].offset = n + 1]
    /\ Publish(upload[u].peer, upload[u].of, n + 1)

(* The range of a blob, as it is or damaged on the way.                    *)
get_blob(n) == {n + 1, 0}

-------------------------------------------------------------------------------
(* execute_resource_transfer: one chunk of one row.  Every step names the  *)
(* label the worker goes on from; the labels that end a row are below.     *)

P == job.row[1]
C == job.row[2]
Uploading == job.row[3] = "upload"

http_failure(status) == IF status = 429 \/ status >= 500 THEN "retryable" ELSE "permanent"

(* advance_resource_transfer: the end of a row that failed.                *)
OnFailure(kind) ==
    IF kind = "local" /\ Uploading THEN "wait"
    ELSE IF kind = "permanent" THEN "reject" ELSE "retry"

(* An exchange whose answer never comes is a retryable failure.            *)
LoseAnswer ==
    /\ job.at \in {"probe", "open", "send", "fetch"} /\ Fault
    /\ Goto(OnFailure("retryable"))
    /\ UNCHANGED <<length, tables, files, remote, cut, spoilt>>

(* What the peer has decides how a row goes on.                            *)
Probe ==
    LET has == blob_availability(P, C) IN
    /\ At("probe")
    /\ Goto(IF Uploading THEN IF has THEN "complete" ELSE "open"
            ELSE IF has THEN "fetch" ELSE OnFailure("retryable"))
    /\ UNCHANGED <<length, tables, files, remote, cut, spoilt, faults>>

(* HEAD of the upload URL that was stored with the row.                    *)
content_upload_status ==
    LET u == job.url IN
    /\ At("open") /\ u # None
    /\ job' = [job EXCEPT !.at = IF upload_status(u) = 200 THEN "note"
                                 ELSE OnFailure(http_failure(upload_status(u))),
                          !.offset = upload[u].offset]
    /\ UNCHANGED <<length, tables, files, remote, cut, spoilt, faults>>

(* POST, whose answer may be lost after the session is made.               *)
create_content_upload ==
    \E u \in Uploads :
    /\ At("open") /\ job.url = None
    /\ create_upload(u, P, C)
    /\ \/ /\ job' = [job EXCEPT !.at = "note", !.url = u, !.offset = 0]
          /\ UNCHANGED faults
       \/ Fault /\ Goto(OnFailure("retryable"))
    /\ UNCHANGED <<length, tables, files, flying, cut, spoilt>>

(* PATCH of the next chunk of the local blob.  A missing blob is waited    *)
(* for, a damaged one is a permanent failure, and so is any 4xx answer.    *)
upload_content_chunk ==
    LET u == job.url
        n == job.offset
    IN
    /\ At("send")
    /\ \/ /\ Blob(C) = "absent" /\ Goto(OnFailure("local"))
          /\ UNCHANGED <<remote, faults>>
       \/ /\ Blob(C) = "mismatch" /\ Goto(OnFailure("permanent"))
          /\ UNCHANGED <<remote, faults>>
       \/ /\ Blob(C) = "verified" /\ append_status(u, n) # 204
          /\ Goto(OnFailure(http_failure(append_status(u, n))))
          /\ UNCHANGED <<remote, faults>>
       \/ /\ Blob(C) = "verified" /\ append_upload_chunk(u, n)
          /\ \/ /\ job' = [job EXCEPT !.at = "record", !.offset = n + 1]
                /\ UNCHANGED faults
             \/ Fault /\ Goto(OnFailure("retryable"))
          /\ UNCHANGED flying
       \/ /\ Blob(C) = "verified" /\ Fault /\ Goto(OnFailure("retryable"))
          /\ flying' = flying \cup {<<u, n>>}
          /\ UNCHANGED <<held, upload>>
    /\ UNCHANGED <<length, tables, files, cut, spoilt>>

(* A PATCH the client gave up reaches the node after all, or never.        *)
Arrive(f) ==
    /\ f \in flying /\ flying' = flying \ {f}
    /\ \/ append_upload_chunk(f[1], f[2])
       \/ UNCHANGED <<held, upload>>
    /\ UNCHANGED <<length, tables, files, job, cut, spoilt, faults>>

(* The node expires an upload that has not completed.                      *)
Expire(u) ==
    /\ upload[u].of # None /\ upload[u].offset < length[upload[u].of] /\ Fault
    /\ upload' = [upload EXCEPT ![u].of = None]
    /\ UNCHANGED <<length, tables, files, held, flying, job, cut, spoilt>>

-------------------------------------------------------------------------------
(* download_content_chunk and the files of the content store.              *)

(* What the next chunk begins at, None if the store reports an error.      *)
partial_offset(c) ==
    IF Blob(c) = "verified" THEN length[c]
    ELSE IF Blob(c) = "mismatch" THEN None
    ELSE IF part[c] = None THEN 0 ELSE Len(part[c])

(* GET of the range after what is here; all of it may be here already.     *)
download_content_chunk ==
    LET n == partial_offset(C) IN
    /\ At("fetch")
    /\ \/ n = None /\ Goto(OnFailure("permanent")) /\ UNCHANGED faults
       \/ /\ n = length[C] /\ UNCHANGED faults
          /\ job' = [job EXCEPT !.at = "record", !.offset = n]
       \/ /\ n \notin {None, length[C]}
          /\ \E chunk \in get_blob(n) :
                /\ job' = [job EXCEPT !.at = "append", !.offset = n, !.chunk = chunk]
                /\ IF chunk = 0 THEN Fault ELSE UNCHANGED faults
    /\ UNCHANGED <<length, tables, files, remote, cut, spoilt>>

(* append_download_chunk looks again before it writes.                     *)
append_check ==
    /\ At("append")
    /\ job' = [job EXCEPT !.at = IF Blob(C) = "verified" THEN "record"
                                 ELSE IF partial_offset(C) = job.offset THEN "write"
                                 ELSE OnFailure("permanent"),
                          !.offset = IF Blob(C) = "verified" THEN length[C] ELSE @]
    /\ UNCHANGED <<length, tables, files, remote, cut, spoilt, faults>>

append_write ==
    LET c == C
        n == job.offset + 1
        old == IF part[c] = None THEN <<>> ELSE part[c]
    IN
    /\ At("write")
    /\ part' = [part EXCEPT ![c] = Append(old, job.chunk)]
    /\ job' = [job EXCEPT !.at = IF n = length[c] THEN "verify" ELSE "record",
                          !.offset = n, !.chunk = 0]
    /\ UNCHANGED <<length, tables, blob, remote, cut, spoilt, faults>>

(* Mutant of verify_and_publish: the full file is linked unread.           *)
verify_and_publish_Blind ==
    /\ At("verify")
    /\ blob' = [blob EXCEPT ![C] = IF @ = None THEN part[C] ELSE @]
    /\ part' = [part EXCEPT ![C] = None]
    /\ Goto("record")
    /\ UNCHANGED <<length, tables, remote, cut, spoilt, faults>>

(* The full file is hashed, then linked under the name of its content and  *)
(* removed; a file that does not match is removed too.  A blob that is     *)
(* there already is verified instead of linked.                            *)
publish(c) ==
    /\ blob' = [blob EXCEPT ![c] = IF @ = None THEN part[c] ELSE @]
    /\ part' = [part EXCEPT ![c] = IF Blob(c) = "mismatch" THEN @ ELSE None]

verify_and_publish ==
    /\ At("verify")
    /\ IF part[C] = Whole(C)
       THEN /\ publish(C)
            /\ Goto(IF Blob(C) = "mismatch" THEN OnFailure("permanent") ELSE "record")
       ELSE /\ part' = [part EXCEPT ![C] = None] /\ UNCHANGED blob
            /\ Goto(OnFailure("permanent"))
    /\ UNCHANGED <<length, tables, remote, cut, spoilt, faults>>

-------------------------------------------------------------------------------
(* The transactions that end or continue a row.  Each applies only to a    *)
(* row still leased under the id of this cycle; if it is not, the cycle    *)
(* ends with an error.                                                     *)

Holds == transfer[job.row].state = "leased" /\ transfer[job.row].lease

LeaseMismatch ==
    /\ job.at \in {"note", "record", "complete", "continue", "retry", "reject", "wait"}
    /\ ~Holds
    /\ job' = Idle
    /\ UNCHANGED <<length, tables, files, remote, cut, spoilt, faults>>

(* Mutant of record_resource_progress: the last chunk is not waited for.   *)
record_resource_progress_Early ==
    LET done == job.offset + 1 >= length[C] IN
    /\ job.at \in {"note", "record"} /\ Holds
    /\ transfer' = [transfer EXCEPT ![job.row].bytes = job.offset,
                                    ![job.row].url = job.url]
    /\ Goto(IF done THEN "complete" ELSE IF At("note") THEN "send" ELSE "continue")
    /\ UNCHANGED <<length, resource, peers, files, remote, cut, spoilt, faults>>

(* record_resource_progress, before and after the chunk.                   *)
record_resource_progress ==
    LET done == job.offset = length[C] IN
    /\ job.at \in {"note", "record"} /\ Holds
    /\ transfer' = [transfer EXCEPT ![job.row].bytes = job.offset,
                                    ![job.row].url = job.url]
    /\ Goto(IF done THEN "complete" ELSE IF At("note") THEN "send" ELSE "continue")
    /\ UNCHANGED <<length, resource, peers, files, remote, cut, spoilt, faults>>

Done == job' = [Idle EXCEPT !.at = "next", !.rest = job.rest]

(* continue_resource_transfer, retry_ and reject_resource_transfer.        *)
Release ==
    /\ job.at \in {"continue", "retry", "reject"} /\ Holds
    /\ transfer' = [transfer EXCEPT ![job.row].lease = FALSE, ![job.row].state =
                        IF At("reject") THEN "rejected" ELSE "pending"]
    /\ Done
    /\ UNCHANGED <<length, resource, peers, files, remote, cut, spoilt, faults>>

complete_resource_transfer ==
    LET r == job.row
        done == [transfer EXCEPT ![r].state = "complete", ![r].lease = FALSE,
                                 ![r].bytes = length[C]]
    IN
    /\ At("complete") /\ Holds
    /\ transfer' = IF Uploading THEN done ELSE Settle(C, done)
    /\ resource' = [resource EXCEPT ![C].available = @ \/ ~Uploading]
    /\ Done
    /\ UNCHANGED <<length, peers, files, remote, cut, spoilt, faults>>

wait_for_local_resource ==
    /\ At("wait") /\ Holds
    /\ transfer' = [transfer EXCEPT ![job.row].state = "waiting", ![job.row].lease = FALSE]
    /\ resource' = [resource EXCEPT ![C].available = FALSE, ![C].expected = TRUE]
    /\ Done
    /\ UNCHANGED <<length, peers, files, remote, cut, spoilt, faults>>

-------------------------------------------------------------------------------
(* The process dies: the rows it leased stay leased until that runs out.   *)
Verifying == IF At("verify") THEN {C} ELSE {}

Crash ==
    /\ ~At("idle") /\ Fault
    /\ job' = Idle /\ transfer' = Forget
    /\ cut' = cut \cup Verifying
    /\ UNCHANGED <<length, resource, peers, files, remote, spoilt>>

(* A blob disappears, or no longer has the bytes it is named for.          *)
Spoil(c, file) ==
    /\ blob[c] = Whole(c) /\ Fault
    /\ blob' = [blob EXCEPT ![c] = file]
    /\ spoilt' = spoilt \cup {c}
    /\ UNCHANGED <<length, tables, part, remote, job, cut>>

Damaged == <<0>>

Step ==
    \/ StartCycle \/ \E c \in Contents : Check(c)
    \/ mark_resource_local \/ NothingDue \/ Next_row
    \/ Probe \/ content_upload_status \/ create_content_upload
    \/ upload_content_chunk \/ download_content_chunk
    \/ append_check \/ append_write \/ verify_and_publish
    \/ LeaseMismatch \/ record_resource_progress \/ Release
    \/ complete_resource_transfer \/ wait_for_local_resource

Next ==
    \/ \E c \in Contents : ImportFile(c) \/ CommitLocal(c)
    \/ \E p \in Peers : AddPeer(p) \/ Requeue(p) \/ \E c \in Contents : CommitFromPeer(p, c)
    \/ Step \/ lease_due_resources \/ LoseAnswer
    \/ \E f \in flying : Arrive(f)
    \/ \E u \in Uploads : Expire(u)
    \/ Crash
    \/ \E c \in Contents, file \in {None, Damaged} : Spoil(c, file)

Spec == Init /\ [][Next]_vars

(* A worker keeps cycling, and a due row is leased in the end: a row that  *)
(* failed is held back by its backoff, which leaves its turn to the others.*)
LeaseRow(r) == lease_due_resources /\ transfer'[r].lease
Fairness ==
    /\ WF_vars(Step)
    /\ \A r \in Rows : SF_vars(LeaseRow(r))
FairSpec == Spec /\ Fairness

-------------------------------------------------------------------------------
(* The tables keep their types, and only a leased row has a lease.         *)
TypeOK ==
    /\ length \in [Contents -> Lengths]
    /\ resource \in [Contents -> [known : BOOLEAN, available : BOOLEAN, expected : BOOLEAN]]
    /\ \A r \in Rows :
          /\ transfer[r].state \in {"none", "waiting", "pending", "leased", "complete", "rejected"}
          /\ transfer[r].lease \in BOOLEAN /\ transfer[r].url \in Uploads \cup {None}
          /\ transfer[r].bytes \in 0..length[r[2]]
          /\ transfer[r].lease => transfer[r].state = "leased"
    /\ held \in [Peers -> SUBSET Contents] /\ cut \subseteq Contents /\ spoilt \subseteq Contents

(* "A completed upload is held": a row says its upload is complete only    *)
(* when the peer has published the content, whatever answers were lost.    *)
CompletedIsHeld ==
    \A r \in Rows : r[3] = "upload" /\ transfer[r].state = "complete" => r[2] \in held[r[1]]

(* Content of which less is promised: a crash came between the chunk that  *)
(* filled the partial file and its verification, or the blob was taken     *)
(* away later, or there is no byte of it.                                  *)
Excused == cut \cup spoilt \cup {c \in Contents : length[c] = 0}

(* No blob is exposed under its name before its bytes are verified, with   *)
(* damaged chunks, crashes and an import of the same content meanwhile,    *)
(* and what is marked locally available is such a blob                     *)
(* (verify_and_publish, mark_resource_local), except for Excused.          *)
BlobsAreVerified ==
    /\ \A c \in Contents \ spoilt : blob[c] \in {None, Whole(c)}
    /\ \A c \in Contents \ Excused : resource[c].available => blob[c] = Whole(c)

Settled(r) == transfer[r].state \in {"complete", "rejected", "waiting"}

(* A row that can be served is served: an upload, or a download from a     *)
(* peer that has the content, ends complete, rejected or waiting for the   *)
(* local file, and is not retried for ever; and an upload that waits for a *)
(* local file is taken up once the file is there.                          *)
TransfersSettle ==
    \A r \in Rows :
        /\ transfer[r].state \in {"pending", "leased"}
              /\ (r[3] = "upload" \/ r[2] \in held[r[1]]) ~> Settled(r)
        /\ transfer[r].state = "waiting" /\ resource[r[2]].expected /\ blob[r[2]] = Whole(r[2])
              ~> transfer[r].state # "waiting" \/ blob[r[2]] # Whole(r[2])
===============================================================================
