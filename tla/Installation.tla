----------------------------- MODULE Installation -----------------------------
(***************************************************************************)
(* The first start of a node and every start after it: the process lock,   *)
(* the installation manifest (fractonica-node) and the protected identity  *)
(* the file key store mints or loads (fractonica-keystore).                *)
(*                                                                         *)
(* A step ends at each effect on the file system, so that the process can  *)
(* stop between any two; what a directory synchronization has not yet made *)
(* durable may be undone by a loss of power.  Key material is modelled by  *)
(* the number of the draw it came from, so two draws never agree.          *)
(*                                                                         *)
(* Files and directories carry their owner's mode only where the code      *)
(* creates them in one call and restricts them in a second.                *)
(***************************************************************************)
EXTENDS Naturals, Sequences, FiniteSets, Functions

CONSTANTS
    Nodes,        \* node processes started on one data directory
    Callers,      \* other callers of FileKeyStore::load_or_create
    None,
    Torn,         \* an installation.json whose bytes were not written
    Keys,         \* the key files, in the order recover_or_create visits them
    FaultKinds,   \* which of "crash", "loss" (of power) and "removal" happen
    MaxFaults     \* bound on the number of faults

ASSUME InstallationAssumption ==
    /\ Nodes \cap Callers = {} /\ None \notin Nodes \cup Callers
    /\ Keys \in Seq(STRING) /\ Keys # <<>> /\ MaxFaults \in Nat
    /\ \A i, j \in DOMAIN Keys : i # j => Keys[i] # Keys[j]
    /\ \A i \in DOMAIN Keys : Keys[i] \notin {"space-id", "started", "manifest"}
    /\ FaultKinds \subseteq {"crash", "loss", "removal"}

Processes == Nodes \cup Callers

\* The identity's files: the keys, then the space id.
Material == Append(Keys, "space-id")
Files == Range(Material)
Entries == Files \cup {"started", "manifest"}

Absent == 0

VARIABLES
    dataDir,    \* absent, open (created, not yet restricted) or private
    vaultDir,   \* the pairing-secrets directory, likewise
    fs,         \* the file system as processes see it
    disk,       \* the part of it that survives a loss of power
    pc,         \* where each process is
    item,       \* the entry it is publishing
    bundle,     \* the identity it has loaded
    owner,      \* the process holding node.lock
    keyLock,    \* the process holding .bootstrap.lock
    draws,      \* random draws so far
    faults,     \* number of faults so far
    first,      \* history: the identity of the first node that ran
    forgotten   \* history: no trace of that identity is left, because its
                \* directory was removed or its creation never made durable

dirs == <<dataDir, vaultDir>>
store == <<fs, disk>>
local == <<item, bundle>>
locks == <<owner, keyLock>>
history == <<faults, first, forgotten>>
vars == <<dirs, store, pc, local, locks, draws, history>>

Empty == [n \in Entries |-> Absent]
Blank == [dir |-> FALSE, file |-> Empty, temps |-> {}, pending |-> FALSE,
          installation |-> None]

Init ==
    /\ dataDir = "absent" /\ vaultDir = "absent"
    /\ fs = Blank /\ disk = Blank
    /\ pc = [p \in Processes |-> "off"]
    /\ item = [p \in Processes |-> None]
    /\ bundle = [p \in Processes |-> None]
    /\ owner = None /\ keyLock = None
    /\ draws = 0
    /\ faults = 0
    /\ first = None /\ forgotten = FALSE

-----------------------------------------------------------------------------
(* Reading the identity directory.                                         *)

Has(n) == fs.file[n] # Absent

\* A file published by a hard link has two links until its temporary name is
\* removed; a file with two links is refused.
Readable(f, n) ==
    f.file[n] # Absent /\ \A t \in f.temps : t.name = n => t.value # f.file[n]

\* load_established: every file the manifest vouches for can be read.
Loadable(f) == \A n \in Files : Readable(f, n)
Stored == [n \in Files |-> fs.file[n]]

\* refuse_untracked_identity_files: keys without a marker are of unknown origin.
Untracked(f) == f.file["started"] = Absent /\ \E n \in Files : f.file[n] # Absent

\* cleanup_temporary_files, whose removals are synchronized.
Clean == [fs EXCEPT !.temps = {}]

\* InstallationManifest::from_identity: the three actors, not the space.
ManifestOf(identity) == [n \in Range(Keys) |-> identity[n]]

Go(p, label) == pc' = [pc EXCEPT ![p] = label]

\* A failing start drops the locks it holds.
Refuse(p) ==
    /\ Go(p, "refused")
    /\ owner' = IF owner = p THEN None ELSE owner
    /\ keyLock' = IF keyLock = p THEN None ELSE keyLock

-----------------------------------------------------------------------------
(* main: the process lock and the installation manifest.                   *)

\* prepare_private_directory creates the directory with the process's umask ...
AcquireCreates(p) ==
    /\ p \in Nodes /\ pc[p] = "off" /\ dataDir = "absent"
    /\ dataDir' = "open"
    /\ Go(p, "restrict")
    /\ UNCHANGED <<vaultDir, store, local, locks, draws, history>>

\* ... and restricts it in a second call.
AcquireRestricts(p) ==
    /\ pc[p] = "restrict"
    /\ dataDir' = "private"
    /\ Go(p, "lock")
    /\ UNCHANGED <<vaultDir, store, local, locks, draws, history>>

\* An existing directory must already be private.
AcquireFinds(p) ==
    /\ p \in Nodes /\ pc[p] = "off" /\ dataDir # "absent"
    /\ IF dataDir = "private"
         THEN Go(p, "lock") /\ UNCHANGED <<locks>>
         ELSE Refuse(p)
    /\ UNCHANGED <<dirs, store, local, draws, history>>

\* try_lock on node.lock; the loser reports AlreadyRunning and exits.
TryLock(p) ==
    /\ pc[p] = "lock"
    /\ IF owner = None
         THEN owner' = p /\ Go(p, "begin")
         ELSE Go(p, "off") /\ UNCHANGED owner
    /\ UNCHANGED <<dirs, store, local, keyLock, draws, history>>

\* NodeInstallation::begin: the phase the two files of the data directory show.
Phase ==
    IF fs.installation = Torn THEN "unreadable"
    ELSE IF fs.installation # None THEN "established"
    ELSE IF fs.pending THEN "initializing" ELSE "fresh"

\* prepare_installation_identity goes by the phase.
Begin(p) ==
    /\ pc[p] = "begin"
    /\ \/ Phase = "unreadable" /\ Refuse(p)
       \/ Phase = "fresh" /\ Go(p, "fresh") /\ UNCHANGED locks
       \/ Phase = "initializing" /\ Go(p, "prepare") /\ UNCHANGED locks
       \/ Phase = "established" /\ Go(p, "existing") /\ UNCHANGED locks
    /\ UNCHANGED <<dirs, store, local, draws, history>>

StartIdentity(p) ==
    /\ pc[p] = "fresh"
    /\ fs' = [fs EXCEPT !.pending = TRUE]
    /\ Go(p, "prepare")
    /\ UNCHANGED <<dirs, disk, local, locks, draws, history>>

-----------------------------------------------------------------------------
(* FileKeyStore::bootstrap and load_existing.                              *)

\* A caller other than the node goes straight to the key store, once.
Call(p) ==
    /\ p \in Callers /\ pc[p] = "off" /\ dataDir = "private"
    /\ Go(p, "prepare")
    /\ UNCHANGED <<dirs, store, local, locks, draws, history>>

\* prepare_identity_directory: only the process that creates the directory
\* synchronizes its parent.
PrepareDirectory(p) ==
    /\ pc[p] = "prepare"
    /\ fs' = [fs EXCEPT !.dir = TRUE]
    /\ Go(p, IF fs.dir THEN "wait" ELSE "parent")
    /\ UNCHANGED <<dirs, disk, local, locks, draws, history>>

SyncParent(p) ==
    /\ pc[p] = "parent"
    /\ disk' = [disk EXCEPT !.dir = fs.dir, !.pending = fs.pending]
    /\ Go(p, "wait")
    /\ UNCHANGED <<dirs, fs, local, locks, draws, history>>

\* Mutant: synchronizing a directory has no effect.
Synced_Not(d, f) == d

\* The bytes of a file are synchronized before it is linked, so a directory's
\* synchronization makes its entries whole.
Synced(d, f) == [d EXCEPT !.file = f.file, !.temps = f.temps]

\* Under .bootstrap.lock: remove the temporary files of an interrupted
\* publication, then read the two markers.  manifest: the identity is complete.
\* started: go on with a bootstrap.  Neither: begin one.
Recover(p) ==
    LET complete == Has("manifest")
    IN  /\ pc[p] = "wait" /\ keyLock = None
        /\ fs' = Clean
        /\ disk' = IF fs.temps = {} THEN disk ELSE Synced(disk, Clean)
        /\ IF IF complete THEN ~Loadable(Clean) ELSE Untracked(Clean)
             THEN Refuse(p) /\ UNCHANGED local
             ELSE /\ keyLock' = p
                  /\ bundle' = [bundle EXCEPT ![p] = IF complete THEN Stored ELSE None]
                  /\ item' = [item EXCEPT ![p] =
                         IF complete THEN None
                         ELSE IF Has("started") THEN Material[1] ELSE "started"]
                  /\ Go(p, IF complete THEN "unmark" ELSE "publish")
                  /\ UNCHANGED owner
        /\ UNCHANGED <<dirs, draws, history>>

\* Mutant: an established installation is loaded like a fresh one.
LoadExisting_OrCreate(p) ==
    /\ pc[p] = "existing"
    /\ Go(p, IF fs.dir /\ Has("manifest") THEN "wait" ELSE "prepare")
    /\ UNCHANGED <<dirs, store, local, locks, draws, history>>

\* load_existing, for an established installation: the identity directory and its
\* manifest must be there, and the keys must be the ones of installation.json.
LoadExisting(p) ==
    /\ pc[p] = "existing" /\ keyLock = None
    /\ fs' = Clean
    /\ disk' = IF fs.temps = {} THEN disk ELSE Synced(disk, Clean)
    /\ IF fs.dir /\ Has("manifest") /\ Loadable(Clean)
             /\ ManifestOf(Stored) = fs.installation
         THEN /\ bundle' = [bundle EXCEPT ![p] = Stored]
              /\ Go(p, "vault")
              /\ UNCHANGED locks
         ELSE Refuse(p) /\ UNCHANGED bundle
    /\ UNCHANGED <<dirs, item, draws, history>>

\* The entry to visit after n.
After(n) ==
    IF n = "started" THEN Material[1]
    ELSE IF n = "space-id" THEN "manifest"
    ELSE IF n = "manifest" THEN None
    ELSE Material[1 + CHOOSE i \in DOMAIN Material : Material[i] = n]

\* Moves on after entry n is in place; the bundle is assembled from the four
\* files before the manifest is published.
Advance(p, n) ==
    /\ item' = [item EXCEPT ![p] = After(n)]
    /\ bundle' = IF n = "space-id" THEN [bundle EXCEPT ![p] = Stored] ELSE bundle
    /\ Go(p, IF n = "manifest" THEN "unmark" ELSE "publish")

\* load_or_create_material finds the file an interrupted bootstrap left.
Keep(p) ==
    /\ pc[p] = "publish" /\ Has(item[p])
    /\ Advance(p, item[p])
    /\ UNCHANGED <<dirs, store, locks, draws, history>>

\* publish_new_file: a temporary file written and synchronized, ...
WriteTemporary(p) ==
    /\ pc[p] = "publish" /\ ~Has(item[p])
    /\ draws' = draws + 1
    /\ fs' = [fs EXCEPT !.temps = @ \cup {[name |-> item[p], value |-> draws + 1]}]
    /\ Go(p, "link")
    /\ UNCHANGED <<dirs, disk, local, locks, history>>

\* ... hard-linked to its name, ...
Link(p) ==
    /\ pc[p] = "link"
    /\ \E t \in fs.temps :
         /\ t.name = item[p]
         /\ fs' = [fs EXCEPT !.file[item[p]] = t.value]
    /\ Go(p, "sync")
    /\ UNCHANGED <<dirs, disk, local, locks, draws, history>>

\* ... made durable, ...
SyncLink(p) ==
    /\ pc[p] = "sync"
    /\ disk' = Synced(disk, fs)
    /\ Go(p, "unlink")
    /\ UNCHANGED <<dirs, fs, local, locks, draws, history>>

\* ... and its temporary name removed, also durably.
Unlink(p) ==
    /\ pc[p] = "unlink"
    /\ fs' = [fs EXCEPT !.temps = {}]
    /\ Go(p, "settle")
    /\ UNCHANGED <<dirs, disk, local, locks, draws, history>>

Settle(p) ==
    /\ pc[p] = "settle"
    /\ disk' = Synced(disk, fs)
    /\ Advance(p, item[p])
    /\ UNCHANGED <<dirs, fs, locks, draws, history>>

\* The started marker goes once the manifest is there.
Unmark(p) ==
    /\ pc[p] = "unmark"
    /\ fs' = [fs EXCEPT !.file["started"] = Absent]
    /\ IF Has("started")
         THEN Go(p, "cleared") /\ UNCHANGED keyLock
         ELSE Go(p, IF p \in Nodes THEN "complete" ELSE "done") /\ keyLock' = None
    /\ UNCHANGED <<dirs, disk, local, owner, draws, history>>

SyncUnmark(p) ==
    /\ pc[p] = "cleared"
    /\ disk' = Synced(disk, fs)
    /\ keyLock' = None
    /\ Go(p, IF p \in Nodes THEN "complete" ELSE "done")
    /\ UNCHANGED <<dirs, fs, local, owner, draws, history>>
-----------------------------------------------------------------------------
(* complete_identity, the pairing vault, and the running node.             *)

\* fs::write creates installation.json, then writes it; nothing synchronizes it.
CreateManifest(p) ==
    /\ pc[p] = "complete"
    /\ fs' = [fs EXCEPT !.installation = Torn]
    /\ Go(p, "fill")
    /\ UNCHANGED <<dirs, disk, local, locks, draws, history>>

WriteManifest(p) ==
    /\ pc[p] = "fill"
    /\ fs' = [fs EXCEPT !.installation = ManifestOf(bundle[p])]
    /\ Go(p, "clear")
    /\ UNCHANGED <<dirs, disk, local, locks, draws, history>>

ClearPending(p) ==
    /\ pc[p] = "clear"
    /\ fs' = [fs EXCEPT !.pending = FALSE]
    /\ Go(p, "vault")
    /\ UNCHANGED <<dirs, disk, local, locks, draws, history>>

\* DurablePairingStore::reconcile opens the vault, whose directory is created and
\* restricted in two calls like the data directory.
VaultCreates(p) ==
    /\ pc[p] = "vault" /\ vaultDir = "absent"
    /\ vaultDir' = "open"
    /\ Go(p, "restrict_vault")
    /\ UNCHANGED <<dataDir, store, local, locks, draws, history>>

VaultRestricts(p) ==
    /\ pc[p] = "restrict_vault"
    /\ vaultDir' = "private"
    /\ Go(p, "vault")
    /\ UNCHANGED <<dataDir, store, local, locks, draws, history>>

VaultRefuses(p) ==
    /\ pc[p] = "vault" /\ vaultDir = "open"
    /\ Refuse(p)
    /\ UNCHANGED <<dirs, store, local, draws, history>>

Run(p) ==
    /\ pc[p] = "vault" /\ vaultDir = "private"
    /\ Go(p, "running")
    /\ first' = IF first = None THEN bundle[p] ELSE first
    /\ UNCHANGED <<dirs, store, local, locks, draws, faults, forgotten>>

\* Mutant: the lock file of a dead process stays locked.
Gone_KeepsLock(p) ==
    /\ Go(p, "off")
    /\ item' = [item EXCEPT ![p] = None]
    /\ bundle' = [bundle EXCEPT ![p] = None]
    /\ UNCHANGED <<owner, keyLock>>

\* A process that ends releases the locks it holds.
Gone(p) ==
    /\ Go(p, "off")
    /\ item' = [item EXCEPT ![p] = None]
    /\ bundle' = [bundle EXCEPT ![p] = None]
    /\ owner' = IF owner = p THEN None ELSE owner
    /\ keyLock' = IF keyLock = p THEN None ELSE keyLock

\* A shutdown signal, or the end of a start that was refused.
Exit(p) ==
    /\ p \in Nodes /\ pc[p] \in {"running", "refused"}
    /\ Gone(p)
    /\ UNCHANGED <<dirs, store, draws, history>>

-----------------------------------------------------------------------------
(* Faults.                                                                 *)

MayFault(kind) == kind \in FaultKinds /\ faults < MaxFaults

\* No file left on disk names the identity the first node ran with.
Remembers(f) == f.dir /\ [n \in Files |-> f.file[n]] = first
Forgets(f) ==
    first # None /\ f.installation \in {None, Torn} /\ ~Remembers(f)

Crash(p) ==
    /\ pc[p] \notin {"off", "refused", "done"}
    /\ MayFault("crash")
    /\ Gone(p)
    /\ faults' = faults + 1
    /\ UNCHANGED <<dirs, store, draws, first, forgotten>>

\* Every entry changed since its directory was synchronized is found in its old or
\* its new state; installation.json may have its name and not its bytes.
Survivors ==
    {[dir |-> d, pending |-> q, installation |-> i,
      file |-> IF d THEN f ELSE Empty, temps |-> IF d THEN t ELSE {}] :
        d \in {disk.dir, fs.dir},
        q \in {disk.pending, fs.pending},
        i \in IF fs.installation = disk.installation THEN {fs.installation}
              ELSE {disk.installation, Torn, fs.installation},
        f \in {[n \in Entries |-> IF n \in kept THEN fs.file[n] ELSE disk.file[n]] :
                 kept \in SUBSET {n \in Entries : fs.file[n] # disk.file[n]}},
        t \in {disk.temps, fs.temps}}

PowerLoss ==
    /\ MayFault("loss")
    /\ \E s \in Survivors :
         /\ fs' = s /\ disk' = s
         /\ forgotten' = (forgotten \/ (Forgets(s) /\ ~Remembers(disk)))
    /\ pc' = [p \in Processes |-> "off"]
    /\ item' = [p \in Processes |-> None]
    /\ bundle' = [p \in Processes |-> None]
    /\ owner' = None /\ keyLock' = None
    /\ faults' = faults + 1
    /\ UNCHANGED <<dirs, draws, first>>

\* Someone deletes the identity directory while no start is under way.
RemoveIdentity ==
    LET gone == [fs EXCEPT !.dir = FALSE, !.file = Empty, !.temps = {}]
    IN  /\ fs.dir /\ MayFault("removal")
        /\ \A p \in Processes : pc[p] \in {"off", "running", "refused", "done"}
        /\ fs' = gone
        /\ disk' = [disk EXCEPT !.dir = FALSE, !.file = Empty, !.temps = {}]
        /\ forgotten' = (forgotten \/ Forgets(gone))
        /\ faults' = faults + 1
        /\ UNCHANGED <<dirs, pc, local, locks, draws, first>>

-----------------------------------------------------------------------------
Publish(p) ==
    \/ Keep(p) \/ WriteTemporary(p) \/ Link(p) \/ SyncLink(p) \/ Unlink(p) \/ Settle(p)

Step(p) ==
    \/ AcquireCreates(p) \/ AcquireRestricts(p) \/ AcquireFinds(p) \/ TryLock(p)
    \/ Begin(p) \/ StartIdentity(p) \/ Call(p)
    \/ PrepareDirectory(p) \/ SyncParent(p) \/ Recover(p) \/ LoadExisting(p)
    \/ Publish(p) \/ Unmark(p) \/ SyncUnmark(p)
    \/ CreateManifest(p) \/ WriteManifest(p) \/ ClearPending(p)
    \/ VaultCreates(p) \/ VaultRestricts(p) \/ VaultRefuses(p) \/ Run(p)

Next ==
    \/ \E p \in Processes : Step(p) \/ Exit(p) \/ Crash(p)
    \/ PowerLoss
    \/ RemoveIdentity

Spec == Init /\ [][Next]_vars

\* A process that is not stopped keeps running, and a node is started again.
FairSpec ==
    Spec /\ \A p \in Processes : WF_vars(Step(p)) /\ WF_vars(pc[p] = "refused" /\ Exit(p))


-----------------------------------------------------------------------------
(* Properties.                                                             *)

Labels == {"off", "restrict", "lock", "begin", "fresh", "prepare", "parent", "wait",
           "existing", "publish", "link", "sync", "unlink", "settle", "unmark",
           "cleared", "complete", "fill", "clear", "vault", "restrict_vault",
           "running", "refused", "done"}
Identities == [Files -> 1..draws]
FileSystems ==
    [dir : BOOLEAN, file : [Entries -> 0..draws],
     temps : SUBSET [name : Entries, value : 1..draws], pending : BOOLEAN,
     installation : {None, Torn} \cup [Range(Keys) -> 1..draws]]

(* The shape of the state. *)
TypeOK ==
    /\ {dataDir, vaultDir} \subseteq {"absent", "open", "private"}
    /\ fs \in FileSystems /\ disk \in FileSystems
    /\ pc \in [Processes -> Labels]
    /\ item \in [Processes -> Entries \cup {None}]
    /\ bundle \in [Processes -> Identities \cup {None}]
    /\ owner \in Nodes \cup {None} /\ keyLock \in Processes \cup {None}
    /\ faults \in 0..MaxFaults
    /\ first \in Identities \cup {None} /\ forgotten \in BOOLEAN

(* A node only ever runs with the identity the first node ran with.  The     *)
(* exception is an identity directory removed from outside, or lost because  *)
(* a crash came between its creation and the synchronization of its parent,  *)
(* while installation.json is not there either: load_existing never mints    *)
(* keys for an established installation, and an interrupted bootstrap goes   *)
(* on with the keys it had published.                                        *)
IdentityIsStable ==
    \A p \in Nodes : pc[p] = "running" => bundle[p] = first \/ forgotten

(* An identity a process is using is the one the next start will load: the   *)
(* four files are durable before bootstrap hands the bundle out.             *)
UsedIdentityIsDurable ==
    \A p \in Processes :
        /\ pc[p] \in {"complete", "fill", "clear", "vault", "running", "done"}
        /\ fs.dir /\ Stored = bundle[p]
        => [n \in Files |-> disk.file[n]] = bundle[p]

(* What stops every later start: a directory created and never restricted,   *)
(* an installation manifest without its bytes, or an identity that is not    *)
(* the installation's.                                                       *)
Mismatched ==
    /\ fs.installation \notin {None, Torn}
    /\ ~(Has("manifest") /\ ManifestOf(Stored) = fs.installation)
Unstartable ==
    dataDir = "open" \/ vaultDir = "open" \/ fs.installation = Torn \/ Mismatched

(* A start is refused for no other reason: a crash at any other point, the   *)
(* temporary files and double links it leaves included, is recovered from,   *)
(* and unless one of those states is reached, a node is running again and    *)
(* again, however often starts are interrupted.                              *)
NodeComesUp ==
    /\ [][\A p \in Processes : pc'[p] = "refused" /\ pc[p] # "refused" => Unstartable]_vars
    /\ <>[]Unstartable \/ []<>(\E p \in Nodes : pc[p] = "running")
===============================================================================
