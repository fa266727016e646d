-------------------------- MODULE InstallationProofs --------------------------
(***************************************************************************)
(* The safety properties of Installation for every set of node processes   *)
(* and callers, every list of keys and every number of faults, and those   *)
(* of Desktop, the shell that launches the node of an installation and     *)
(* resets it, for every number of launches and of polls.                   *)
(*                                                                         *)
(* The inductive invariant of the installation says, for each process,     *)
(* which locks it holds and what it relies on: a file is published once;   *)
(* what a process has loaded is on disk; a node mints or completes an      *)
(* identity only while there is no installation.json.  Of the identity the *)
(* first node ran with it says that its files are all there or all gone,   *)
(* and that either installation.json names it or its files are still       *)
(* there.                                                                  *)
(*                                                                         *)
(* In the shell, ResetIsWhole speaks of a launch that is up.  What makes   *)
(* it hold is the order of the reset: the two data directories are of one  *)
(* generation unless the marker is set, and a launch that finds it set     *)
(* gets no further than the reset.  RuntimesAreTracked rests on the client *)
(* lock: from the look at the child until the error is cleared the         *)
(* readiness task holds it, and nobody takes the runtime out meanwhile.    *)
(***************************************************************************)
EXTENDS Installation, Desktop, TLAPS

-------------------------------------------------------------------------------
(* The desktop shell.                                                      *)

(* The directories are of one generation, except while a reset removes them. *)
OneGeneration ==
    /\ marker # "set" => nodeData = clientData
    /\ app = "up" => nodeData = clientData

(* Who holds the client lock, and what the readiness task then knows.      *)
LockDiscipline ==
    /\ readiness \in {"keep", "clear", "drop"} => clientLock
    /\ readiness = "clear" => client
    /\ app # "up" => readiness = "none" /\ ~live

TaskLabels ==
    /\ app \in {"off", "setup", "up", "refused"}
    /\ node \in [Launches -> {"none", "starting", "ready", "dead"}]
    /\ marker \in {"absent", "torn", "set"}
    /\ readiness \in {"none", "poll", "bootstrap", "install", "keep", "clear", "drop", "done"}
    /\ exitTask \in {"none", "wait", "connection", "error", "child", "done"}
    /\ closing \in {"none", "connection", "child", "terminate", "exit"}

Counters ==
    /\ launch \in 0..MaxLaunches /\ attempts \in 0..MaxAttempts
    /\ nodeData \in 0..MaxLaunches /\ clientData \in 0..MaxLaunches

Flags ==
    {readyFile, child, connection, client, clientError, clientLock, childLock, live}
        \subseteq BOOLEAN

DesktopInv ==
    TaskLabels /\ Counters /\ Flags /\ OneGeneration /\ LockDiscipline /\ RuntimesAreTracked

USE DesktopAssumption

-------------------------------------------------------------------------------
LEMMA DesktopStarts ==
    ASSUME DesktopInit
    PROVE  DesktopInv
<1>1. TaskLabels /\ Counters BY DEF DesktopInit, TaskLabels, Counters
<1>2. Flags BY Zenon DEF DesktopInit, Flags
<1>3. OneGeneration /\ LockDiscipline /\ RuntimesAreTracked
  BY DEF DesktopInit, OneGeneration, LockDiscipline, RuntimesAreTracked
<1> QED BY <1>1, <1>2, <1>3 DEF DesktopInv

LEMMA LabelsKept ==
    ASSUME DesktopInv, [DesktopNext]_desktopVars
    PROVE  TaskLabels'
<1> USE DEF DesktopInv, TaskLabels
<1>1. CASE Launch \/ Setup BY <1>1 DEF Launch, Setup, ResetNode, ResetClient, ResetDone, Spawn,
        files, sidecar, tasks
<1>2. CASE Readiness
  BY <1>2 DEF Readiness, PollFinds, PollMisses, PollGivesUp, Bootstrapped, BootstrapFails,
     CheckChild, KeepRuntime, ClearError, DropRuntime, files, sidecar, tasks
<1>3. CASE NodeExit
  BY <1>3, Zenon DEF NodeExit, ExitTakesClient, ExitClearsConnection, ExitSetsError,
     ExitClearsChild,
     files, sidecar, tasks
<1>4. CASE CloseTakesClient \/ Close \/ Kill
  BY <1>4, Zenon DEF CloseTakesClient, Close, CloseClearsHandoff, CloseTakesChild, CloseTerminates,
     AppExit, Kill, Over, files, sidecar, tasks
<1>5. CASE CreateMarker \/ WriteMarker
  BY <1>5 DEF CreateMarker, WriteMarker, sidecar, tasks
<1>6. ASSUME NEW l \in Launches, NodeReady(l) \/ NodeDies(l) \/ OrphanStops(l) PROVE TaskLabels'
  BY <1>6 DEF NodeReady, NodeDies, OrphanStops, files, sidecar, tasks
<1>7. CASE UNCHANGED desktopVars BY <1>7 DEF desktopVars, files, sidecar, tasks
<1> QED BY <1>1, <1>2, <1>3, <1>4, <1>5, <1>6, <1>7 DEF DesktopNext

LEMMA CountersKept ==
    ASSUME DesktopInv, [DesktopNext]_desktopVars
    PROVE  Counters'
<1> USE DEF DesktopInv, Counters
<1>1. CASE Launch \/ Setup BY <1>1 DEF Launch, Setup, ResetNode, ResetClient, ResetDone, Spawn,
        files, sidecar, tasks
<1>2. CASE Readiness
  BY <1>2 DEF Readiness, PollFinds, PollMisses, PollGivesUp, Bootstrapped, BootstrapFails,
     CheckChild, KeepRuntime, ClearError, DropRuntime, files, sidecar, tasks
<1>3. CASE NodeExit
  BY <1>3, Zenon DEF NodeExit, ExitTakesClient, ExitClearsConnection, ExitSetsError,
     ExitClearsChild,
     files, sidecar, tasks
<1>4. CASE CloseTakesClient \/ Close \/ Kill
  <2>1. CASE CloseTakesClient \/ CloseClearsHandoff \/ CloseTakesChild \/ CloseTerminates
    BY <2>1, Zenon DEF CloseTakesClient, CloseClearsHandoff, CloseTakesChild, CloseTerminates,
       files
  <2>2. CASE AppExit \/ Kill
    <3>1. attempts' = 0 /\ UNCHANGED <<launch, nodeData, clientData>>
      BY <2>2, Zenon DEF AppExit, Kill, Over
    <3> QED BY <3>1
  <2> QED BY <1>4, <2>1, <2>2 DEF Close
<1>5. CASE CreateMarker \/ WriteMarker
  BY <1>5 DEF CreateMarker, WriteMarker, sidecar, tasks
<1>6. ASSUME NEW l \in Launches, NodeReady(l) \/ NodeDies(l) \/ OrphanStops(l) PROVE Counters'
  BY <1>6 DEF NodeReady, NodeDies, OrphanStops, files, sidecar, tasks
<1>7. CASE UNCHANGED desktopVars BY <1>7 DEF desktopVars, files, sidecar, tasks
<1> QED BY <1>1, <1>2, <1>3, <1>4, <1>5, <1>6, <1>7 DEF DesktopNext

LEMMA FlagsKept ==
    ASSUME DesktopInv, [DesktopNext]_desktopVars
    PROVE  Flags'
<1> USE DEF DesktopInv, Flags
<1>1. CASE Launch \/ Setup BY <1>1, Zenon DEF Launch, Setup, ResetNode, ResetClient, ResetDone,
        Spawn, files, sidecar, tasks
<1>2. CASE Readiness
  BY <1>2, Zenon DEF Readiness, PollFinds, PollMisses, PollGivesUp, Bootstrapped, BootstrapFails,
     CheckChild, KeepRuntime, ClearError, DropRuntime, files, sidecar, tasks
<1>3. CASE NodeExit
  BY <1>3, Zenon DEF NodeExit, ExitTakesClient, ExitClearsConnection, ExitSetsError,
     ExitClearsChild, files, sidecar, tasks
<1>4. CASE CloseTakesClient \/ Close \/ Kill
  BY <1>4, Zenon DEF CloseTakesClient, Close, CloseClearsHandoff, CloseTakesChild,
     CloseTerminates, AppExit, Kill, Over, files, sidecar, tasks
<1>5. CASE CreateMarker \/ WriteMarker
  BY <1>5, Zenon DEF CreateMarker, WriteMarker, sidecar, tasks
<1>6. ASSUME NEW l \in Launches, NodeReady(l) \/ NodeDies(l) \/ OrphanStops(l) PROVE Flags'
  BY <1>6, Zenon DEF NodeReady, NodeDies, OrphanStops, files, sidecar, tasks
<1>7. CASE UNCHANGED desktopVars BY <1>7, Zenon DEF desktopVars, files, sidecar, tasks
<1> QED BY <1>1, <1>2, <1>3, <1>4, <1>5, <1>6, <1>7, Zenon DEF DesktopNext

LEMMA GenerationKept ==
    ASSUME DesktopInv, [DesktopNext]_desktopVars
    PROVE  OneGeneration'
<1> USE DEF DesktopInv, OneGeneration
<1>1. CASE Launch \/ Setup BY <1>1 DEF Launch, Setup, ResetNode, ResetClient, ResetDone, Spawn,
        files, sidecar, tasks
<1>2. CASE Readiness
  BY <1>2 DEF Readiness, PollFinds, PollMisses, PollGivesUp, Bootstrapped, BootstrapFails,
     CheckChild, KeepRuntime, ClearError, DropRuntime, files
<1>3. CASE NodeExit
  BY <1>3, Zenon DEF NodeExit, ExitTakesClient, ExitClearsConnection, ExitSetsError,
     ExitClearsChild,
     files
<1>4. CASE CloseTakesClient \/ Close \/ Kill
  BY <1>4, Zenon DEF CloseTakesClient, Close, CloseClearsHandoff, CloseTakesChild, CloseTerminates,
     AppExit, Kill, Over, files
<1>5. CASE CreateMarker \/ WriteMarker BY <1>5 DEF CreateMarker, WriteMarker
<1>6. ASSUME NEW l \in Launches, NodeReady(l) \/ NodeDies(l) \/ OrphanStops(l)
      PROVE  OneGeneration'
  BY <1>6 DEF NodeReady, NodeDies, OrphanStops, files
<1>7. CASE UNCHANGED desktopVars BY <1>7 DEF desktopVars, files
<1> QED BY <1>1, <1>2, <1>3, <1>4, <1>5, <1>6, <1>7 DEF DesktopNext

LEMMA RuntimesKept ==
    ASSUME DesktopInv, [DesktopNext]_desktopVars
    PROVE  LockDiscipline' /\ RuntimesAreTracked'
<1> USE DEF DesktopInv, LockDiscipline, RuntimesAreTracked
<1>1. CASE Launch \/ Setup BY <1>1 DEF Launch, Setup, ResetNode, ResetClient, ResetDone, Spawn,
        sidecar, tasks
<1>2. CASE Readiness
  BY <1>2 DEF Readiness, PollFinds, PollMisses, PollGivesUp, Bootstrapped, BootstrapFails,
     CheckChild, KeepRuntime, ClearError, DropRuntime, sidecar, TaskLabels
<1>3. CASE NodeExit
  <2>1. CASE ExitTakesClient
    <3>1. /\ ~clientLock /\ ~client' /\ UNCHANGED <<app, readiness, clientLock>>
          /\ (live' => live /\ ~client)
      BY <2>1, Zenon DEF ExitTakesClient
    <3> QED BY <3>1
  <2>2. CASE ExitClearsConnection \/ ExitSetsError \/ ExitClearsChild
    BY <2>2 DEF ExitClearsConnection, ExitSetsError, ExitClearsChild
  <2> QED BY <1>3, <2>1, <2>2 DEF NodeExit
<1>4. CASE CloseTakesClient \/ Close \/ Kill
  <2>1. CASE CloseTakesClient
    <3>1. /\ ~clientLock /\ ~client' /\ UNCHANGED <<app, readiness, clientLock>>
          /\ (live' => live /\ ~client)
      BY <2>1, Zenon DEF CloseTakesClient
    <3> QED BY <3>1
  <2>2. CASE CloseClearsHandoff \/ CloseTakesChild \/ CloseTerminates
    <3>1. UNCHANGED <<app, readiness, clientLock, client, live>>
      BY <2>2, Zenon DEF CloseClearsHandoff, CloseTakesChild, CloseTerminates
    <3> QED BY <3>1
  <2>3. CASE AppExit \/ Kill
    <3>1. app' = "off" /\ readiness' = "none" /\ ~live' BY <2>3, Zenon DEF AppExit, Kill, Over
    <3> QED BY <3>1
  <2> QED BY <1>4, <2>1, <2>2, <2>3 DEF Close
<1>5. CASE CreateMarker \/ WriteMarker BY <1>5 DEF CreateMarker, WriteMarker, sidecar, tasks
<1>6. ASSUME NEW l \in Launches, NodeReady(l) \/ NodeDies(l) \/ OrphanStops(l)
      PROVE  LockDiscipline' /\ RuntimesAreTracked'
  BY <1>6 DEF NodeReady, NodeDies, OrphanStops, sidecar, tasks
<1>7. CASE UNCHANGED desktopVars BY <1>7 DEF desktopVars, sidecar, tasks
<1> QED BY <1>1, <1>2, <1>3, <1>4, <1>5, <1>6, <1>7 DEF DesktopNext

(* The inductive invariant holds over any number of launches, each killed  *)
(* wherever it may be.                                                     *)
THEOREM DesktopInvariant == DesktopSpec => []DesktopInv
<1>1. DesktopInit => DesktopInv BY DesktopStarts
<1>2. DesktopInv /\ [DesktopNext]_desktopVars => DesktopInv'
  BY LabelsKept, CountersKept, FlagsKept, GenerationKept, RuntimesKept DEF DesktopInv
<1> QED BY <1>1, <1>2, PTL DEF DesktopSpec

(* The state keeps its shape. *)
THEOREM DesktopTypes == DesktopSpec => []DesktopTypeOK
<1>1. DesktopInv => DesktopTypeOK
  BY Zenon DEF DesktopInv, TaskLabels, Counters, Flags, DesktopTypeOK
<1> QED BY <1>1, DesktopInvariant, PTL

(* No launch runs a new node on the client data of the installation that   *)
(* was reset, or the other way round (apply_pending_local_reset).          *)
THEOREM ResetsAreWhole == DesktopSpec => []ResetIsWhole
<1>1. DesktopInv => ResetIsWhole BY DEF DesktopInv, OneGeneration, ResetIsWhole
<1> QED BY <1>1, DesktopInvariant, PTL

(* No client runtime is left working for a shell that no longer knows of   *)
(* it: the readiness task and the two exit handlers hand it over under the *)
(* client lock.                                                            *)
THEOREM RuntimesStayTracked == DesktopSpec => []RuntimesAreTracked
<1>1. DesktopInv => RuntimesAreTracked BY DEF DesktopInv
<1> QED BY <1>1, DesktopInvariant, PTL

-------------------------------------------------------------------------------
(* The installation.                                                       *)

Publishing == {"publish", "link", "sync", "unlink", "settle"}
Locked == Publishing \cup {"unmark", "cleared"}
Minting == {"parent", "wait"} \cup Locked
Finishing == {"complete", "fill", "clear", "vault", "restrict_vault"}

(* The entries that are in place before m is published.                    *)
Before(m) ==
    IF m = "started" THEN {}
    ELSE IF m = "manifest" THEN Files
    ELSE {Material[j] : j \in {k \in DOMAIN Material :
                                 \E i \in DOMAIN Material : Material[i] = m /\ k < i}}

(* The process has its identity in hand, and has not handed it out yet.    *)
Loaded(p) ==
    \/ pc[p] \in {"unmark", "cleared"} \cup Finishing
    \/ pc[p] \in Publishing /\ item[p] = "manifest"
Used(p) == Loaded(p) \/ pc[p] \in {"running", "done"}

HoldsLocks(p) ==
    /\ pc[p] \in Locked => keyLock = p
    /\ p \in Nodes /\ pc[p] \notin {"off", "restrict", "lock", "refused"} => owner = p
    /\ pc[p] = "done" => p \in Callers
    /\ p \in Callers => pc[p] \in {"off", "prepare", "done", "refused"} \cup Minting

Publishes(p) ==
    /\ pc[p] \in Minting \cup Finishing => fs.dir
    /\ pc[p] \in Publishing => item[p] \in Entries /\ \A n \in Before(item[p]) : Has(n)
    /\ pc[p] \in {"publish", "settle", "unmark", "cleared"} => fs.temps = {}
    /\ pc[p] = "link" => ~Has(item[p])
    /\ pc[p] \in {"sync", "unlink", "settle"} => Has(item[p])
    /\ pc[p] = "unlink" => \A n \in Files : disk.file[n] = fs.file[n]

Relies(p) ==
    /\ Loaded(p) => bundle[p] \in Identities /\ \A n \in Files : fs.file[n] = bundle[p][n]
    /\ Used(p) =>
          /\ bundle[p] \in Identities
          /\ \A n \in Files : fs.file[n] = bundle[p][n] => disk.file[n] = bundle[p][n]
          /\ \A t \in fs.temps : t.name \in Files => t.value # bundle[p][t.name]

Installs(p) ==
    p \in Nodes =>
        /\ pc[p] \in {"fresh", "prepare", "complete"} \cup Minting => fs.installation = None
        /\ pc[p] = "fill" => disk.installation = None
        /\ pc[p] = "existing" => fs.installation \notin {None, Torn}
        /\ pc[p] \in {"clear", "vault", "restrict_vault"} =>
              fs.installation = ManifestOf(bundle[p])
        /\ Loaded(p) => first = None \/ forgotten \/ bundle[p] = first
        /\ pc[p] = "running" => bundle[p] = first \/ forgotten

Sound(p) == HoldsLocks(p) /\ Publishes(p) /\ Relies(p) /\ Installs(p)

(* Without a temporary name, what is linked is durable.                    *)
LinksAreDurable == fs.temps = {} => \A n \in Files : disk.file[n] = fs.file[n]

DiskIsBehind ==
    /\ disk.dir => fs.dir
    /\ disk.installation = None \/ disk.installation = fs.installation

(* Whole or gone: the files of the first identity.                         *)
Intact == \A n \in Files : fs.file[n] = first[n] /\ disk.file[n] = first[n]
Lost ==
    /\ \A n \in Files : fs.file[n] # first[n] /\ disk.file[n] # first[n]
    /\ \A t \in fs.temps \cup disk.temps : t.name \in Files => t.value # first[t.name]

FirstIsKnown ==
    first # None =>
        /\ Intact \/ Lost
        /\ \/ forgotten
           \/ /\ fs.installation \in {None, Torn, ManifestOf(first)}
              /\ fs.installation \in {None, Torn} => fs.dir /\ Intact

InstallationInv ==
    /\ TypeOK /\ draws \in Nat
    /\ \A p \in Processes : Sound(p)
    /\ LinksAreDurable /\ DiskIsBehind /\ FirstIsKnown

USE InstallationAssumption

-------------------------------------------------------------------------------
(* The entries of the identity directory and their order.                  *)

LEMMA MaterialFacts ==
    /\ Len(Material) = Len(Keys) + 1 /\ Len(Keys) \in Nat \ {0}
    /\ DOMAIN Material = 1..Len(Material)
    /\ \A i \in DOMAIN Keys : Material[i] = Keys[i]
    /\ Material[Len(Material)] = "space-id"
    /\ \A i, j \in DOMAIN Material : Material[i] = Material[j] => i = j
<1>1. Len(Keys) \in Nat \ {0} /\ DOMAIN Keys = 1..Len(Keys) OBVIOUS
<1>2. /\ Len(Material) = Len(Keys) + 1
      /\ DOMAIN Material = 1..Len(Material)
  BY <1>1 DEF Material
<1>3. /\ \A i \in DOMAIN Keys : Material[i] = Keys[i]
      /\ Material[Len(Material)] = "space-id"
  BY <1>1 DEF Material
<1>4. ASSUME NEW i \in DOMAIN Material, NEW j \in DOMAIN Material, Material[i] = Material[j]
      PROVE  i = j
  <2>1. \A k \in DOMAIN Material : k \in DOMAIN Keys \/ k = Len(Material) BY <1>1, <1>2
  <2>2. \A k \in DOMAIN Keys : Material[k] # "space-id" BY <1>3, Zenon
  <2> QED BY <1>3, <1>4, <2>1, <2>2, Zenon
<1> QED BY <1>1, <1>2, <1>3, <1>4, Zenon

LEMMA FilesFacts ==
    /\ "space-id" \in Files /\ "started" \notin Files /\ "manifest" \notin Files
    /\ Range(Keys) \subseteq Files /\ Keys[1] \in Range(Keys)
    /\ \A i \in DOMAIN Material : Material[i] \in Files
    /\ \A n \in Files : \E i \in DOMAIN Material : Material[i] = n
    /\ Entries = Files \cup {"started", "manifest"}
<1>1. /\ \A n : n \in Files <=> \E i \in DOMAIN Material : Material[i] = n
      /\ \A n : n \in Range(Keys) <=> \E i \in DOMAIN Keys : Keys[i] = n
  BY Zenon DEF Files, Range
<1>2. DOMAIN Keys \subseteq DOMAIN Material /\ Len(Material) \in DOMAIN Material
      /\ 1 \in DOMAIN Keys
      /\ \A k \in DOMAIN Material : k \in DOMAIN Keys \/ k = Len(Material)
  BY MaterialFacts
<1>3. "space-id" \in Files BY <1>1, <1>2, MaterialFacts, Zenon
<1>4. \A n \in Files : n = "space-id" \/ \E i \in DOMAIN Keys : n = Keys[i]
  <2> TAKE n \in Files
  <2>1. PICK i \in DOMAIN Material : Material[i] = n BY <1>1, Zenon
  <2>2. CASE i \in DOMAIN Keys BY <2>1, <2>2, MaterialFacts, Zenon
  <2>3. CASE i = Len(Material) BY <2>1, <2>3, MaterialFacts, Zenon
  <2> QED BY <1>2, <2>2, <2>3, Zenon
<1>5. "started" \notin Files /\ "manifest" \notin Files BY <1>4, Zenon
<1>6. Range(Keys) \subseteq Files /\ Keys[1] \in Range(Keys)
  <2>1. ASSUME NEW n \in Range(Keys) PROVE n \in Files
    <3>1. PICK i \in DOMAIN Keys : Keys[i] = n BY <1>1, Zenon
    <3>2. i \in DOMAIN Material /\ Material[i] = n BY <1>2, <3>1, MaterialFacts, Zenon
    <3> QED BY <1>1, <3>2, Zenon
  <2> QED BY <1>1, <1>2, <2>1, Zenon
<1> QED BY <1>1, <1>3, <1>5, <1>6, Zenon DEF Entries

LEMMA AfterFacts ==
    /\ After("started") = Material[1] /\ After("space-id") = "manifest"
    /\ After("manifest") = None
    /\ \A i \in DOMAIN Keys : After(Material[i]) = Material[i + 1]
<1>1. /\ After("started") = Material[1] /\ After("space-id") = "manifest"
      /\ After("manifest") = None
  BY Zenon DEF After
<1>2. ASSUME NEW i \in DOMAIN Keys PROVE After(Material[i]) = Material[i + 1]
  <2>1. i \in DOMAIN Material /\ Material[i] \notin {"started", "space-id", "manifest"}
    BY MaterialFacts
  <2> DEFINE c == CHOOSE k \in DOMAIN Material : Material[k] = Material[i]
  <2>2. c \in DOMAIN Material /\ Material[c] = Material[i] BY <2>1, Zenon
  <2>3. c = i BY <2>1, <2>2, MaterialFacts, Zenon
  <2>4. After(Material[i]) = Material[1 + c] BY <2>1, Zenon DEF After
  <2> HIDE DEF c
  <2>5. 1 + c = i + 1 BY <2>3, MaterialFacts
  <2> QED BY <2>4, <2>5, Zenon
<1> QED BY <1>1, <1>2, Zenon

(* The visit goes on in the order of Material.                             *)
LEMMA BeforeAfter ==
    ASSUME NEW n \in Entries, n # "manifest"
    PROVE  After(n) \in Entries /\ Before(After(n)) \subseteq Before(n) \cup {n}
<1>1. 1 \in DOMAIN Material BY MaterialFacts
<1>2. \A i \in DOMAIN Material :
        /\ Before(Material[i]) = {Material[j] : j \in {k \in DOMAIN Material : k < i}}
        /\ Material[i] \in Entries
  <2> TAKE i \in DOMAIN Material
  <2>1. Material[i] \in Files /\ Material[i] # "started" /\ Material[i] # "manifest"
    BY FilesFacts, Zenon
  <2>2. {k \in DOMAIN Material : \E m \in DOMAIN Material : Material[m] = Material[i] /\ k < m}
          = {k \in DOMAIN Material : k < i}
    BY MaterialFacts, Zenon
  <2> QED BY <2>1, <2>2, FilesFacts, Zenon DEF Before
<1>3. CASE n = "started"
  <2>1. {k \in DOMAIN Material : k < 1} = {} BY MaterialFacts
  <2>2. Before(Material[1]) = {} BY <1>1, <1>2, <2>1, Zenon
  <2> QED BY <1>1, <1>2, <1>3, <2>2, AfterFacts, Zenon
<1>4. ASSUME NEW i \in DOMAIN Keys, n = Material[i]
      PROVE  After(n) \in Entries /\ Before(After(n)) \subseteq Before(n) \cup {n}
  <2>1. i \in DOMAIN Material /\ i + 1 \in DOMAIN Material BY MaterialFacts
  <2>2. \A k \in DOMAIN Material : k < i + 1 => k < i \/ k = i BY <2>1, MaterialFacts
  <2>3. After(n) = Material[i + 1] BY <1>4, AfterFacts, Zenon
  <2>4. ASSUME NEW x \in Before(Material[i + 1]) PROVE x \in Before(Material[i]) \cup {n}
    <3>0. x \in {Material[j] : j \in {k \in DOMAIN Material : k < i + 1}}
      BY <1>2, <2>1, <2>4, Zenon
    <3>1. PICK k \in DOMAIN Material : k < i + 1 /\ x = Material[k] BY <3>0, Zenon
    <3>2. k < i \/ k = i BY <2>2, <3>1, Zenon
    <3>3. CASE k < i BY <1>2, <2>1, <3>1, <3>3, Zenon
    <3>4. CASE k = i BY <1>4, <3>1, <3>4, Zenon
    <3> QED BY <3>2, <3>3, <3>4, Zenon
  <2> QED BY <1>2, <1>4, <2>1, <2>3, <2>4, Zenon
<1>5. CASE n = "space-id"
  <2> DEFINE l == Len(Material)
  <2>1. l \in DOMAIN Material /\ Material[l] = n BY <1>5, MaterialFacts
  <2>2. \A k \in DOMAIN Material : k < l \/ k = l BY MaterialFacts
  <2>3. Before("manifest") = Files BY Zenon DEF Before
  <2> HIDE DEF l
  <2>4. ASSUME NEW x \in Files PROVE x \in Before(Material[l]) \cup {n}
    <3>1. PICK k \in DOMAIN Material : x = Material[k] BY FilesFacts, Zenon
    <3>2. CASE k < l BY <1>2, <2>1, <3>1, <3>2, Zenon
    <3>3. CASE k = l BY <2>1, <3>1, <3>3, Zenon
    <3> QED BY <2>2, <3>2, <3>3, Zenon
  <2> QED BY <1>5, <2>1, <2>3, <2>4, AfterFacts, FilesFacts, Zenon
<1>6. n = "started" \/ n = "space-id" \/ \E i \in DOMAIN Keys : n = Material[i]
  <2>1. \A k \in DOMAIN Material : k \in DOMAIN Keys \/ k = Len(Material) BY MaterialFacts
  <2> QED BY <2>1, FilesFacts, MaterialFacts, Zenon
<1> QED BY <1>3, <1>4, <1>5, <1>6, Zenon


-------------------------------------------------------------------------------
(* Steps of one process, and what they leave to the others.                *)

LEMMA StoreTypes ==
    ASSUME InstallationInv
    PROVE  /\ fs.dir \in BOOLEAN /\ disk.dir \in BOOLEAN
           /\ fs.file \in [Entries -> Nat] /\ disk.file \in [Entries -> Nat]
           /\ \A n \in Entries : fs.file[n] <= draws /\ disk.file[n] <= draws
           /\ fs.temps \subseteq [name : Entries, value : Nat]
           /\ \A t \in fs.temps \cup disk.temps : 1 <= t.value /\ t.value <= draws
           /\ fs \in FileSystems /\ disk \in FileSystems /\ draws \in Nat
BY DEF InstallationInv, TypeOK, FileSystems

LEMMA IdentityValues ==
    ASSUME draws \in Nat, NEW b \in Identities, NEW n \in Files
    PROVE  b[n] \in Nat /\ b[n] # Absent /\ b[n] <= draws
BY DEF Identities, Absent

LEMMA IdentitiesGrow ==
    ASSUME draws \in Nat, draws' \in {draws, draws + 1}
    PROVE  Identities \subseteq Identities'
<1>1. 1..draws \subseteq 1..draws' OBVIOUS
<1> QED BY <1>1, Zenon DEF Identities

(* A step of p that leaves the others what they rely on: a file is written *)
(* once, from a temporary one; the file system is left alone while another *)
(* process holds the key store's lock, and the installation while another  *)
(* one holds the node's.                                                   *)
Gentle(p) ==
    /\ draws' \in {draws, draws + 1}
    /\ forgotten' = forgotten
    /\ \A q \in Processes \ {p} :
          /\ pc'[q] = pc[q] /\ item'[q] = item[q] /\ bundle'[q] = bundle[q]
          /\ owner = q => /\ owner' = q /\ first' = first
                          /\ fs'.installation = fs.installation
                          /\ disk'.installation = disk.installation
          /\ keyLock = q => /\ keyLock' = q /\ fs'.file = fs.file
                            /\ fs'.temps = fs.temps /\ disk'.file = disk.file
    /\ fs.dir => fs'.dir
    /\ \A n \in Files :
          \/ fs'.file[n] = fs.file[n] /\ disk'.file[n] \in {disk.file[n], fs.file[n]}
          \/ /\ fs.file[n] = Absent /\ disk'.file[n] = disk.file[n]
             /\ \E t \in fs.temps : t.name = n /\ fs'.file[n] = t.value
    /\ \A t \in fs'.temps : t \in fs.temps \/ t.value = draws + 1
    /\ \A t \in disk'.temps : t \in fs.temps \cup disk.temps

LEMMA OthersKept ==
    ASSUME InstallationInv, NEW p \in Processes, Gentle(p), NEW q \in Processes, q # p
    PROVE  Sound(q)'
<1>1. /\ pc'[q] = pc[q] /\ item'[q] = item[q] /\ bundle'[q] = bundle[q]
      /\ owner = q => /\ owner' = q /\ first' = first
                      /\ fs'.installation = fs.installation
                      /\ disk'.installation = disk.installation
      /\ keyLock = q => /\ keyLock' = q /\ fs'.file = fs.file
                        /\ fs'.temps = fs.temps /\ disk'.file = disk.file
  BY Zenon DEF Gentle
<1>2. Sound(q) BY Zenon DEF InstallationInv
<1>3. HoldsLocks(q)' BY <1>1, <1>2, Zenon DEF Sound, HoldsLocks
<1>4. Publishes(q)'
  <2>1. (pc[q] \in Minting \cup Finishing => fs.dir)'
    BY <1>1, <1>2, Zenon DEF Sound, Publishes, Gentle
  <2>2. CASE pc[q] \in Locked
    <3>1. keyLock = q BY <1>2, <2>2, Zenon DEF Sound, HoldsLocks
    <3>2. fs'.file = fs.file /\ fs'.temps = fs.temps /\ disk'.file = disk.file
      BY <1>1, <3>1, Zenon
    <3> QED BY <1>1, <1>2, <2>1, <3>2, Zenon DEF Sound, Publishes, Has
  <2>3. CASE pc[q] \notin Locked
    <3>1. pc[q] \notin Publishing /\ pc[q] \notin {"unmark", "cleared"}
      BY <2>3, Zenon DEF Locked
    <3>2. pc'[q] \notin Publishing
          /\ pc'[q] \notin {"publish", "settle", "unmark", "cleared", "sync", "unlink", "link"}
      BY <1>1, <3>1, Zenon DEF Publishing
    <3> QED BY <2>1, <3>2, Zenon DEF Publishes
  <2> QED BY <2>2, <2>3, Zenon
<1>5. (Loaded(q)' <=> Loaded(q)) /\ (Used(q)' <=> Used(q)) BY <1>1, Zenon DEF Loaded, Used
<1>6. Relies(q)'
  <2>1. Identities \subseteq Identities'
    BY IdentitiesGrow, Zenon DEF Gentle, InstallationInv
  <2>2. ASSUME Loaded(q), NEW n \in Files PROVE fs'.file[n] = bundle[q][n]
    <3>1. bundle[q] \in Identities /\ fs.file[n] = bundle[q][n]
      BY <1>2, <2>2, Zenon DEF Sound, Relies
    <3>2. fs.file[n] # Absent BY <3>1, IdentityValues, Zenon DEF InstallationInv
    <3> QED BY <3>1, <3>2, Zenon DEF Gentle
  <2>3. ASSUME Used(q), NEW n \in Files, fs'.file[n] = bundle[q][n]
        PROVE  disk'.file[n] = bundle[q][n]
    <3>1. CASE fs'.file[n] = fs.file[n] /\ disk'.file[n] \in {disk.file[n], fs.file[n]}
      BY <1>2, <2>3, <3>1, Zenon DEF Sound, Relies
    <3>2. ASSUME NEW t \in fs.temps, t.name = n, fs'.file[n] = t.value PROVE FALSE
      BY <1>2, <2>3, <3>2, Zenon DEF Sound, Relies
    <3> QED BY <3>1, <3>2, Zenon DEF Gentle
  <2>4. ASSUME Used(q), NEW t \in fs'.temps, t.name \in Files
        PROVE  t.value # bundle[q][t.name]
    <3>1. CASE t \in fs.temps BY <1>2, <2>4, <3>1, Zenon DEF Sound, Relies
    <3>2. CASE t.value = draws + 1
      <4>1. bundle[q] \in Identities BY <1>2, <2>4, Zenon DEF Sound, Relies
      <4>2. bundle[q][t.name] \in Nat /\ bundle[q][t.name] <= draws /\ draws \in Nat
        BY <2>4, <4>1, IdentityValues, Zenon DEF InstallationInv
      <4> QED BY <3>2, <4>2
    <3> QED BY <3>1, <3>2, Zenon DEF Gentle
  <2>5. Used(q) => bundle[q] \in Identities BY <1>2, Zenon DEF Sound, Relies
  <2>6. Loaded(q) => Used(q) BY Zenon DEF Used
  <2> QED BY <1>1, <1>5, <2>1, <2>2, <2>3, <2>4, <2>5, <2>6, Zenon DEF Relies
<1>7. Installs(q)'
  <2>1. CASE q \in Nodes /\ pc[q] \notin {"off", "restrict", "lock", "refused"}
    <3>1. owner = q BY <1>2, <2>1, Zenon DEF Sound, HoldsLocks
    <3>2. /\ first' = first /\ fs'.installation = fs.installation
          /\ disk'.installation = disk.installation /\ forgotten' = forgotten
      BY <1>1, <3>1, Zenon DEF Gentle
    <3>3. ManifestOf(bundle[q])' = ManifestOf(bundle[q]) BY <1>1, Zenon DEF ManifestOf
    <3> QED BY <1>1, <1>2, <1>5, <3>2, <3>3, Zenon DEF Sound, Installs
  <2>2. CASE q \in Nodes /\ pc[q] \in {"off", "restrict", "lock", "refused"}
    <3>1. /\ pc'[q] \notin {"fresh", "prepare", "complete"} \cup Minting
          /\ pc'[q] \notin {"fill", "existing", "clear", "vault", "restrict_vault", "running"}
          /\ pc'[q] \notin {"unmark", "cleared"} \cup Finishing /\ pc'[q] \notin Publishing
      BY <1>1, <2>2, Zenon DEF Minting, Locked, Publishing, Finishing
    <3>2. ~Loaded(q)' BY <3>1, Zenon DEF Loaded
    <3> QED BY <3>1, <3>2, Zenon DEF Installs
  <2>3. CASE q \notin Nodes BY <2>3, Zenon DEF Installs
  <2> QED BY <2>1, <2>2, <2>3, Zenon
<1> QED BY <1>3, <1>4, <1>6, <1>7, Zenon DEF Sound

(* The first identity, while no one forgets it.                            *)
LEMMA FirstKept ==
    ASSUME InstallationInv, NEW p \in Processes, Gentle(p), first' = first,
           first # None /\ ~forgotten =>
               /\ fs'.installation \in {fs.installation, Torn, ManifestOf(first)}
               /\ fs'.installation \in {None, Torn} =>
                     fs.installation \in {None, Torn} \/ (fs.dir /\ Intact)
    PROVE  FirstIsKnown'
<1>a. forgotten' = forgotten BY Zenon DEF Gentle
<1>b. ManifestOf(first)' = ManifestOf(first) BY Zenon DEF ManifestOf
<1> SUFFICES ASSUME first # None
             PROVE  /\ (Intact \/ Lost)'
                    /\ \/ forgotten
                       \/ /\ fs'.installation \in {None, Torn, ManifestOf(first)}
                          /\ fs'.installation \in {None, Torn} => fs'.dir /\ Intact'
  BY <1>a, <1>b, Zenon DEF FirstIsKnown
<1>1. first \in Identities /\ draws \in Nat BY Zenon DEF InstallationInv, TypeOK
<1>2. \A n \in Files : first[n] \in Nat /\ first[n] # Absent /\ first[n] <= draws
  BY <1>1, IdentityValues, Zenon
<1>0. \A n \in Files :
         \/ fs'.file[n] = fs.file[n] /\ disk'.file[n] \in {disk.file[n], fs.file[n]}
         \/ /\ fs.file[n] = Absent /\ disk'.file[n] = disk.file[n]
            /\ \E t \in fs.temps : t.name = n /\ fs'.file[n] = t.value
  BY Zenon DEF Gentle
<1>3. ASSUME Intact PROVE Intact'
  <2>1. ASSUME NEW n \in Files PROVE fs'.file[n] = first[n] /\ disk'.file[n] = first[n]
    <3>1. fs.file[n] = first[n] /\ disk.file[n] = first[n] BY <1>3, Zenon DEF Intact
    <3>2. fs.file[n] # Absent BY <1>2, <3>1, Zenon
    <3>3. fs'.file[n] = fs.file[n] /\ disk'.file[n] \in {disk.file[n], fs.file[n]}
      BY <1>0, <3>2, Zenon
    <3> QED BY <3>1, <3>3, Zenon
  <2> QED BY <2>1, Zenon DEF Intact
<1>4. ASSUME Lost PROVE Lost'
  <2>1. ASSUME NEW n \in Files PROVE fs'.file[n] # first[n] /\ disk'.file[n] # first[n]
    <3>1. fs.file[n] # first[n] /\ disk.file[n] # first[n] BY <1>4, Zenon DEF Lost
    <3>2. \A t \in fs.temps : t.name = n => t.value # first[n] BY <1>4, Zenon DEF Lost
    <3>3. CASE fs'.file[n] = fs.file[n] /\ disk'.file[n] \in {disk.file[n], fs.file[n]}
      BY <3>1, <3>3, Zenon
    <3>4. ASSUME disk'.file[n] = disk.file[n], NEW t \in fs.temps, t.name = n,
                 fs'.file[n] = t.value
          PROVE  fs'.file[n] # first[n] /\ disk'.file[n] # first[n]
      BY <3>1, <3>2, <3>4, Zenon
    <3> QED BY <1>0, <3>3, <3>4, Zenon
  <2>2. ASSUME NEW t \in fs'.temps \cup disk'.temps, t.name \in Files
        PROVE  t.value # first[t.name]
    <3>1. CASE t \in fs.temps \cup disk.temps BY <1>4, <2>2, <3>1, Zenon DEF Lost
    <3>2. CASE t.value = draws + 1 BY <1>1, <1>2, <2>2, <3>2
    <3> QED BY <2>2, <3>1, <3>2, Zenon DEF Gentle
  <2> QED BY <2>1, <2>2, Zenon DEF Lost
<1>5. Intact \/ Lost BY Zenon DEF InstallationInv, FirstIsKnown
<1>6. \/ forgotten
      \/ /\ fs.installation \in {None, Torn, ManifestOf(first)}
         /\ fs.installation \in {None, Torn} => fs.dir /\ Intact
  BY Zenon DEF InstallationInv, FirstIsKnown
<1>7. fs.dir => fs'.dir BY Zenon DEF Gentle
<1> QED BY <1>3, <1>4, <1>5, <1>6, <1>7, Zenon


LEMMA GoFacts ==
    ASSUME InstallationInv, NEW p \in Processes, NEW l \in Labels, Go(p, l)
    PROVE  /\ pc' \in [Processes -> Labels] /\ pc'[p] = l
           /\ \A q \in Processes \ {p} : pc'[q] = pc[q]
BY Zenon DEF InstallationInv, TypeOK, Go

(* Dropping the locks of p leaves the others theirs.                       *)
LEMMA DropFacts ==
    ASSUME InstallationInv, NEW p \in Processes,
           owner' = IF owner = p THEN None ELSE owner,
           keyLock' = IF keyLock = p THEN None ELSE keyLock
    PROVE  /\ owner' \in Nodes \cup {None} /\ keyLock' \in Processes \cup {None}
           /\ \A q \in Processes \ {p} : (owner = q => owner' = q) /\ (keyLock = q => keyLock' = q)
BY Zenon DEF InstallationInv, TypeOK

LEMMA Assemble ==
    ASSUME InstallationInv, NEW p \in Processes, Gentle(p), TypeOK', Sound(p)',
           LinksAreDurable', DiskIsBehind', FirstIsKnown'
    PROVE  InstallationInv'
<1>1. draws' \in Nat BY DEF InstallationInv, Gentle
<1>2. \A q \in Processes : Sound(q)' BY OthersKept, Zenon
<1> QED BY <1>1, <1>2, Zenon DEF InstallationInv

(* A step that leaves the file system and the history alone.               *)
LEMMA QuietStep ==
    ASSUME InstallationInv, NEW p \in Processes,
           UNCHANGED <<fs, disk, draws, first, forgotten>>,
           \A q \in Processes \ {p} :
               /\ pc'[q] = pc[q] /\ item'[q] = item[q] /\ bundle'[q] = bundle[q]
               /\ (owner = q => owner' = q) /\ (keyLock = q => keyLock' = q),
           TypeOK', Sound(p)'
    PROVE  InstallationInv'
<1>1. Gentle(p) BY Zenon DEF Gentle
<1>2. LinksAreDurable' /\ DiskIsBehind' /\ FirstIsKnown'
  BY Zenon DEF InstallationInv, LinksAreDurable, DiskIsBehind, FirstIsKnown, Intact, Lost
<1> QED BY <1>1, <1>2, Assemble, Zenon

(* A process that holds and has loaded nothing.                            *)
LEMMA IdleSound ==
    ASSUME NEW p \in Processes,
           pc'[p] \in {"off", "refused"} \/ (p \in Nodes /\ pc'[p] \in {"restrict", "lock"})
    PROVE  Sound(p)'
<1>1. /\ pc'[p] \notin {"fresh", "prepare", "complete", "fill", "existing", "clear", "vault",
                        "restrict_vault", "running", "done", "unmark", "cleared"}
      /\ pc'[p] \notin Minting /\ pc'[p] \notin Finishing /\ pc'[p] \notin Publishing
      /\ pc'[p] \notin Locked /\ pc'[p] \in {"off", "refused", "restrict", "lock"}
  BY Zenon DEF Minting, Locked, Publishing, Finishing
<1>2. pc'[p] \notin {"publish", "settle", "sync", "unlink", "link"} BY <1>1, Zenon DEF Publishing
<1>3. p \in Nodes => p \notin Callers BY Zenon
<1>4. ~Loaded(p)' /\ ~Used(p)' BY <1>1, Zenon DEF Loaded, Used
<1>5. HoldsLocks(p)' BY <1>1, <1>3, Zenon DEF HoldsLocks
<1>6. Publishes(p)' BY <1>1, <1>2, Zenon DEF Publishes
<1> QED BY <1>1, <1>4, <1>5, <1>6, Zenon DEF Sound, Relies, Installs

(* A start that is refused, or a process that ends.                        *)
LEMMA RefuseKept ==
    ASSUME InstallationInv, NEW p \in Processes, Refuse(p),
           UNCHANGED <<dirs, store, local, draws, history>>
    PROVE  InstallationInv'
<1>1. /\ pc' \in [Processes -> Labels] /\ pc'[p] = "refused"
      /\ \A q \in Processes \ {p} : pc'[q] = pc[q]
  BY GoFacts, Zenon DEF Refuse, Labels
<1>2. /\ owner' \in Nodes \cup {None} /\ keyLock' \in Processes \cup {None}
      /\ \A q \in Processes \ {p} : (owner = q => owner' = q) /\ (keyLock = q => keyLock' = q)
  BY DropFacts, Zenon DEF Refuse
<1>3. /\ UNCHANGED <<fs, disk, draws, faults, first, forgotten>>
      /\ UNCHANGED <<dataDir, vaultDir, item, bundle>>
  BY Zenon DEF dirs, store, local, history
<1>4. TypeOK' BY <1>1, <1>2, <1>3, Zenon DEF InstallationInv, TypeOK, Identities, FileSystems
<1>5. Sound(p)' BY <1>1, IdleSound, Zenon
<1> QED BY <1>1, <1>2, <1>3, <1>4, <1>5, QuietStep, Zenon

LEMMA GoneKept ==
    ASSUME InstallationInv, NEW p \in Processes, Gone(p), faults' \in 0..MaxFaults,
           UNCHANGED <<dirs, store, draws, first, forgotten>>
    PROVE  InstallationInv'
<1>1. /\ pc' \in [Processes -> Labels] /\ pc'[p] = "off"
      /\ \A q \in Processes \ {p} : pc'[q] = pc[q]
  BY GoFacts, Zenon DEF Gone, Labels
<1>2. /\ owner' \in Nodes \cup {None} /\ keyLock' \in Processes \cup {None}
      /\ \A q \in Processes \ {p} : (owner = q => owner' = q) /\ (keyLock = q => keyLock' = q)
  BY DropFacts, Zenon DEF Gone
<1>3. UNCHANGED <<fs, disk, draws, first, forgotten, dataDir, vaultDir>>
  BY Zenon DEF dirs, store
<1>4. /\ item' \in [Processes -> Entries \cup {None}]
      /\ bundle' \in [Processes -> Identities \cup {None}]
      /\ \A q \in Processes \ {p} : item'[q] = item[q] /\ bundle'[q] = bundle[q]
  BY Zenon DEF InstallationInv, TypeOK, Gone
<1>5. TypeOK'
  BY <1>1, <1>2, <1>3, <1>4, Zenon DEF InstallationInv, TypeOK, Identities, FileSystems
<1>6. Sound(p)' BY <1>1, IdleSound, Zenon
<1> QED BY <1>1, <1>2, <1>3, <1>4, <1>5, <1>6, QuietStep, Zenon


(* A quiet step that only moves p, and may take a lock.                    *)
LEMMA MoveKept ==
    ASSUME InstallationInv, NEW p \in Processes, NEW l \in Labels, Go(p, l),
           {dataDir, vaultDir}' \subseteq {"absent", "open", "private"},
           owner' = owner \/ (owner = None /\ owner' = p /\ p \in Nodes),
           UNCHANGED <<fs, disk, item, bundle, keyLock, draws, faults, first, forgotten>>,
           pc'[p] = l => Sound(p)'
    PROVE  InstallationInv'
<1>1. /\ pc' \in [Processes -> Labels] /\ pc'[p] = l
      /\ \A q \in Processes \ {p} : pc'[q] = pc[q]
  BY GoFacts, Zenon
<1>2. /\ owner' \in Nodes \cup {None}
      /\ \A q \in Processes \ {p} : owner = q => owner' = q
  BY Zenon DEF InstallationInv, TypeOK, Processes
<1>3. TypeOK' BY <1>1, <1>2, Zenon DEF InstallationInv, TypeOK, Identities, FileSystems
<1> QED BY <1>1, <1>2, <1>3, QuietStep, Zenon

LEMMA AcquireKept ==
    ASSUME InstallationInv, NEW p \in Processes,
           AcquireCreates(p) \/ AcquireRestricts(p) \/ AcquireFinds(p) \/ TryLock(p)
    PROVE  InstallationInv'
<1>1. Sound(p) BY Zenon DEF InstallationInv
<1>2. {dataDir, vaultDir} \subseteq {"absent", "open", "private"}
  BY Zenon DEF InstallationInv, TypeOK
<1>3. pc[p] \in {"restrict", "lock"} => p \in Nodes
  <2>1. p \in Callers => pc[p] \in {"off", "prepare", "done", "refused"} \cup Minting
    BY <1>1, Zenon DEF Sound, HoldsLocks
  <2>2. {"restrict", "lock"} \cap ({"off", "prepare", "done", "refused"} \cup Minting) = {}
    BY Zenon DEF Minting, Locked, Publishing
  <2> QED BY <2>1, <2>2, Zenon DEF Processes
<1>4. {"off", "restrict", "lock", "begin"} \subseteq Labels BY Zenon DEF Labels
<1>5. CASE AcquireCreates(p)
  <2>1. /\ Go(p, "restrict") /\ p \in Nodes
        /\ UNCHANGED <<fs, disk, item, bundle, owner, keyLock, draws, faults, first, forgotten>>
        /\ {dataDir, vaultDir}' \subseteq {"absent", "open", "private"}
    BY <1>2, <1>5, Zenon DEF AcquireCreates, store, local, locks, history
  <2>2. pc'[p] = "restrict" => Sound(p)' BY <2>1, IdleSound, Zenon
  <2> QED BY <1>4, <2>1, <2>2, MoveKept, Zenon
<1>6. CASE AcquireRestricts(p)
  <2>1. /\ Go(p, "lock") /\ p \in Nodes
        /\ UNCHANGED <<fs, disk, item, bundle, owner, keyLock, draws, faults, first, forgotten>>
        /\ {dataDir, vaultDir}' \subseteq {"absent", "open", "private"}
    BY <1>2, <1>3, <1>6, Zenon DEF AcquireRestricts, store, local, locks, history
  <2>2. pc'[p] = "lock" => Sound(p)' BY <2>1, IdleSound, Zenon
  <2> QED BY <1>4, <2>1, <2>2, MoveKept, Zenon
<1>7. CASE AcquireFinds(p)
  <2>1. CASE dataDir = "private"
    <3>1. /\ Go(p, "lock") /\ p \in Nodes
          /\ UNCHANGED <<fs, disk, item, bundle, owner, keyLock, draws, faults, first, forgotten>>
          /\ {dataDir, vaultDir}' \subseteq {"absent", "open", "private"}
      BY <1>2, <1>7, <2>1, Zenon DEF AcquireFinds, dirs, store, local, locks, history
    <3>2. pc'[p] = "lock" => Sound(p)' BY <3>1, IdleSound, Zenon
    <3> QED BY <1>4, <3>1, <3>2, MoveKept, Zenon
  <2>2. CASE dataDir # "private" BY <1>7, <2>2, RefuseKept, Zenon DEF AcquireFinds
  <2> QED BY <2>1, <2>2, Zenon
<1>8. CASE TryLock(p)
  <2>1. /\ UNCHANGED <<fs, disk, item, bundle, keyLock, draws, faults, first, forgotten>>
        /\ {dataDir, vaultDir}' \subseteq {"absent", "open", "private"} /\ p \in Nodes
    BY <1>2, <1>3, <1>8, Zenon DEF TryLock, dirs, store, local, history
  <2>2. CASE owner = None
    <3>1. Go(p, "begin") /\ owner' = p BY <1>8, <2>2, Zenon DEF TryLock
    <3>2. ASSUME pc'[p] = "begin" PROVE Sound(p)'
      <4>1. /\ pc'[p] \notin {"fresh", "prepare", "complete", "fill", "existing", "clear",
                              "vault", "restrict_vault", "running", "done", "unmark", "cleared"}
            /\ pc'[p] \notin Minting /\ pc'[p] \notin Finishing /\ pc'[p] \notin Publishing
            /\ pc'[p] \notin Locked
        BY <3>2, Zenon DEF Minting, Locked, Publishing, Finishing
      <4>2. pc'[p] \notin {"publish", "settle", "sync", "unlink", "link"}
        BY <4>1, Zenon DEF Publishing
      <4>3. ~Loaded(p)' /\ ~Used(p)' BY <4>1, Zenon DEF Loaded, Used
      <4>4. p \notin Callers BY <2>1, Zenon
      <4>5. HoldsLocks(p)' BY <3>1, <4>1, <4>4, Zenon DEF HoldsLocks
      <4>6. Publishes(p)' BY <4>1, <4>2, Zenon DEF Publishes
      <4> QED BY <4>1, <4>3, <4>5, <4>6, Zenon DEF Sound, Relies, Installs
    <3> QED BY <1>4, <2>1, <2>2, <3>1, <3>2, MoveKept, Zenon
  <2>3. CASE owner # None
    <3>1. Go(p, "off") /\ owner' = owner BY <1>8, <2>3, Zenon DEF TryLock
    <3>2. pc'[p] = "off" => Sound(p)' BY IdleSound, Zenon
    <3> QED BY <1>4, <2>1, <3>1, <3>2, MoveKept, Zenon
  <2> QED BY <2>2, <2>3, Zenon
<1> QED BY <1>5, <1>6, <1>7, <1>8, Zenon

(* The labels before the identity directory is there.                      *)
LEMMA EarlySound ==
    ASSUME NEW p \in Processes, p \in Nodes => owner' = p,
           \/ pc'[p] = "prepare" /\ (p \in Nodes => fs'.installation = None)
           \/ p \in Nodes /\ pc'[p] = "fresh" /\ fs'.installation = None
           \/ p \in Nodes /\ pc'[p] = "existing" /\ fs'.installation \notin {None, Torn}
    PROVE  Sound(p)'
<1>1. /\ pc'[p] \notin {"complete", "fill", "clear", "vault", "restrict_vault", "running",
                        "done", "unmark", "cleared"}
      /\ pc'[p] \notin Minting /\ pc'[p] \notin Finishing /\ pc'[p] \notin Publishing
      /\ pc'[p] \notin Locked
  BY Zenon DEF Minting, Locked, Publishing, Finishing
<1>2. pc'[p] \notin {"publish", "settle", "sync", "unlink", "link"} BY <1>1, Zenon DEF Publishing
<1>3. ~Loaded(p)' /\ ~Used(p)' BY <1>1, Zenon DEF Loaded, Used
<1>4. p \in Nodes => p \notin Callers BY Zenon
<1>5. HoldsLocks(p)' BY <1>1, <1>4, Zenon DEF HoldsLocks
<1>6. Publishes(p)' BY <1>1, <1>2, Zenon DEF Publishes
<1>7. Installs(p)' BY <1>1, <1>3, Zenon DEF Installs
<1> QED BY <1>3, <1>5, <1>6, <1>7, Zenon DEF Sound, Relies

LEMMA BeginKept ==
    ASSUME InstallationInv, NEW p \in Processes, Begin(p) \/ Call(p)
    PROVE  InstallationInv'
<1>1. Sound(p) BY Zenon DEF InstallationInv
<1>2. {dataDir, vaultDir} \subseteq {"absent", "open", "private"}
  BY Zenon DEF InstallationInv, TypeOK
<1>3. {"fresh", "prepare", "existing"} \subseteq Labels BY Zenon DEF Labels
<1>4. ASSUME Begin(p) PROVE InstallationInv'
  <2>1. p \in Nodes
    <3>1. p \in Callers => pc[p] \in {"off", "prepare", "done", "refused"} \cup Minting
      BY <1>1, Zenon DEF Sound, HoldsLocks
    <3>2. "begin" \notin {"off", "prepare", "done", "refused"} \cup Minting
      BY Zenon DEF Minting, Locked, Publishing
    <3> QED BY <1>4, <3>1, <3>2, Zenon DEF Processes, Begin
  <2>2. owner = p
    <3>1. pc[p] \notin {"off", "restrict", "lock", "refused"} BY <1>4, Zenon DEF Begin
    <3> QED BY <1>1, <2>1, <3>1, Zenon DEF Sound, HoldsLocks
  <2>3. CASE Refuse(p) BY <1>4, <2>3, RefuseKept, Zenon DEF Begin
  <2>4. ASSUME ~Refuse(p)
        PROVE  \E l \in {"fresh", "prepare", "existing"} :
                  /\ Go(p, l) /\ UNCHANGED locks
                  /\ IF l = "existing" THEN fs.installation \notin {None, Torn}
                     ELSE fs.installation = None
    <3>1. CASE Phase = "fresh"
      <4>1. fs.installation = None BY <3>1, Zenon DEF Phase
      <4> QED BY <1>4, <2>4, <3>1, <4>1, Zenon DEF Begin
    <3>2. CASE Phase = "initializing"
      <4>1. fs.installation = None BY <3>2, Zenon DEF Phase
      <4> QED BY <1>4, <2>4, <3>2, <4>1, Zenon DEF Begin
    <3>3. CASE Phase = "established"
      <4>1. fs.installation \notin {None, Torn} BY <3>3, Zenon DEF Phase
      <4> QED BY <1>4, <2>4, <3>3, <4>1, Zenon DEF Begin
    <3> QED BY <1>4, <2>4, <3>1, <3>2, <3>3, Zenon DEF Begin
  <2>5. ASSUME NEW l \in {"fresh", "prepare", "existing"}, Go(p, l), UNCHANGED locks,
               IF l = "existing" THEN fs.installation \notin {None, Torn}
               ELSE fs.installation = None
        PROVE  InstallationInv'
    <3>1. /\ UNCHANGED <<fs, disk, item, bundle, owner, keyLock, draws, faults, first, forgotten>>
          /\ {dataDir, vaultDir}' \subseteq {"absent", "open", "private"}
      BY <1>2, <1>4, <2>5, Zenon DEF Begin, dirs, store, local, locks, history
    <3>2. \/ l = "existing" /\ fs'.installation \notin {None, Torn}
          \/ l \in {"fresh", "prepare"} /\ fs'.installation = None
      BY <2>5, <3>1, Zenon
    <3>3. pc'[p] = l => Sound(p)' BY <2>1, <2>2, <3>1, <3>2, EarlySound, Zenon
    <3> QED BY <1>3, <2>5, <3>1, <3>3, MoveKept, Zenon
  <2> QED BY <2>3, <2>4, <2>5, Zenon
<1>5. ASSUME Call(p) PROVE InstallationInv'
  <2>1. /\ Go(p, "prepare") /\ p \notin Nodes
        /\ UNCHANGED <<fs, disk, item, bundle, owner, keyLock, draws, faults, first, forgotten>>
        /\ {dataDir, vaultDir}' \subseteq {"absent", "open", "private"}
    BY <1>2, <1>5, Zenon DEF Call, dirs, store, local, locks, history
  <2>2. pc'[p] = "prepare" => Sound(p)' BY <2>1, EarlySound, Zenon
  <2> QED BY <1>3, <2>1, <2>2, MoveKept, Zenon
<1> QED BY <1>4, <1>5, Zenon


-------------------------------------------------------------------------------
(* The steps that change the directory, the pending marker or the          *)
(* installation manifest.                                                  *)

LEMMA OutlineStep ==
    ASSUME InstallationInv, NEW p \in Processes, NEW l \in Labels, Go(p, l),
           UNCHANGED <<dataDir, vaultDir, item, bundle, owner, keyLock, draws, faults, first,
                       forgotten>>,
           fs' \in FileSystems, disk' \in FileSystems,
           fs'.file = fs.file, fs'.temps = fs.temps,
           disk'.file = disk.file, disk'.temps = disk.temps,
           fs.dir => fs'.dir, disk'.dir => fs'.dir,
           \/ fs'.installation = fs.installation /\ disk'.installation = disk.installation
           \/ /\ owner = p /\ disk'.installation = None
              /\ first # None /\ ~forgotten =>
                    /\ fs'.installation \in {Torn, ManifestOf(first)}
                    /\ fs'.installation \in {None, Torn} =>
                          fs.installation \in {None, Torn} \/ (fs.dir /\ Intact),
           pc'[p] = l => Sound(p)'
    PROVE  InstallationInv'
<1>1. /\ pc' \in [Processes -> Labels] /\ pc'[p] = l
      /\ \A q \in Processes \ {p} : pc'[q] = pc[q]
  BY GoFacts, Zenon
<1>2. FileSystems' = FileSystems /\ Identities' = Identities
  BY Zenon DEF FileSystems, Identities
<1>3. TypeOK' BY <1>1, <1>2, Zenon DEF InstallationInv, TypeOK
<1>4. Gentle(p) BY <1>1, Zenon DEF Gentle
<1>5. LinksAreDurable' BY Zenon DEF InstallationInv, LinksAreDurable
<1>6. DiskIsBehind' BY Zenon DEF InstallationInv, DiskIsBehind
<1>7. FirstIsKnown' BY <1>4, FirstKept, Zenon
<1> QED BY <1>1, <1>3, <1>4, <1>5, <1>6, <1>7, Assemble, Zenon

(* A process on the way to the key store's lock.                           *)
LEMMA MintSound ==
    ASSUME NEW p \in Processes, pc'[p] \in {"parent", "wait"}, fs'.dir,
           p \in Nodes => owner' = p /\ fs'.installation = None
    PROVE  Sound(p)'
<1>1. /\ pc'[p] \notin {"fresh", "prepare", "existing", "running", "done", "unmark", "cleared"}
      /\ pc'[p] \notin {"complete", "fill", "clear", "vault", "restrict_vault"}
      /\ pc'[p] \notin {"publish", "settle", "sync", "unlink", "link"}
      /\ pc'[p] \in Minting /\ pc'[p] \notin Finishing /\ pc'[p] \notin Publishing
      /\ pc'[p] \notin Locked
  BY Zenon DEF Minting, Locked, Publishing, Finishing
<1>2. ~Loaded(p)' /\ ~Used(p)' BY <1>1, Zenon DEF Loaded, Used
<1>3. HoldsLocks(p)' BY <1>1, Zenon DEF HoldsLocks
<1>4. Publishes(p)' BY <1>1, Zenon DEF Publishes
<1>5. Installs(p)' BY <1>1, <1>2, Zenon DEF Installs
<1> QED BY <1>2, <1>3, <1>4, <1>5, Zenon DEF Sound, Relies

(* What is known of a process that prepares or mints an identity.          *)
LEMMA MintingFacts ==
    ASSUME InstallationInv, NEW p \in Processes,
           pc[p] \in {"fresh", "prepare", "complete"} \cup Minting
    PROVE  p \in Nodes => owner = p /\ fs.installation = None
<1>1. Sound(p) BY Zenon DEF InstallationInv
<1>2. pc[p] \notin {"off", "restrict", "lock", "refused"}
  BY Zenon DEF Minting, Locked, Publishing
<1> QED BY <1>1, <1>2, Zenon DEF Sound, HoldsLocks, Installs

LEMMA DirectoryKept ==
    ASSUME InstallationInv, NEW p \in Processes,
           StartIdentity(p) \/ PrepareDirectory(p) \/ SyncParent(p)
    PROVE  InstallationInv'
<1>1. fs \in FileSystems /\ disk \in FileSystems /\ DiskIsBehind /\ Sound(p)
  BY Zenon DEF InstallationInv, TypeOK
<1>2. {"prepare", "wait", "parent"} \subseteq Labels BY Zenon DEF Labels
<1>3. CASE StartIdentity(p)
  <2>1. /\ fs' = [fs EXCEPT !.pending = TRUE] /\ Go(p, "prepare") /\ pc[p] = "fresh"
        /\ UNCHANGED <<dataDir, vaultDir, disk, item, bundle, owner, keyLock, draws, faults,
                       first, forgotten>>
    BY <1>3, Zenon DEF StartIdentity, dirs, local, locks, history
  <2>2. /\ fs' \in FileSystems /\ fs'.dir = fs.dir /\ fs'.file = fs.file
        /\ fs'.temps = fs.temps /\ fs'.installation = fs.installation
    BY <1>1, <2>1, Zenon DEF FileSystems
  <2>3. p \in Nodes => owner = p /\ fs.installation = None BY <2>1, MintingFacts, Zenon
  <2>4. pc'[p] = "prepare" => Sound(p)' BY <2>1, <2>2, <2>3, EarlySound, Zenon
  <2>5. disk'.dir => fs'.dir BY <1>1, <2>1, <2>2, Zenon DEF DiskIsBehind
  <2> QED BY <1>1, <1>2, <2>1, <2>2, <2>4, <2>5, OutlineStep, Zenon
<1>4. CASE PrepareDirectory(p)
  <2>1. /\ fs' = [fs EXCEPT !.dir = TRUE] /\ pc[p] = "prepare"
        /\ \E l \in {"wait", "parent"} : Go(p, l)
        /\ UNCHANGED <<dataDir, vaultDir, disk, item, bundle, owner, keyLock, draws, faults,
                       first, forgotten>>
    BY <1>4, Zenon DEF PrepareDirectory, dirs, local, locks, history
  <2>2. /\ fs' \in FileSystems /\ fs'.dir /\ fs'.file = fs.file
        /\ fs'.temps = fs.temps /\ fs'.installation = fs.installation
    BY <1>1, <2>1, Zenon DEF FileSystems
  <2>3. p \in Nodes => owner = p /\ fs.installation = None BY <2>1, MintingFacts, Zenon
  <2>4. pc'[p] \in {"parent", "wait"} => Sound(p)' BY <2>1, <2>2, <2>3, MintSound, Zenon
  <2> QED BY <1>1, <1>2, <2>1, <2>2, <2>4, OutlineStep, Zenon
<1>5. CASE SyncParent(p)
  <2>1. /\ disk' = [disk EXCEPT !.dir = fs.dir, !.pending = fs.pending] /\ pc[p] = "parent"
        /\ Go(p, "wait")
        /\ UNCHANGED <<dataDir, vaultDir, fs, item, bundle, owner, keyLock, draws, faults,
                       first, forgotten>>
    BY <1>5, Zenon DEF SyncParent, dirs, local, locks, history
  <2>2. /\ disk' \in FileSystems /\ disk'.dir = fs.dir /\ disk'.file = disk.file
        /\ disk'.temps = disk.temps /\ disk'.installation = disk.installation
    BY <1>1, <2>1, Zenon DEF FileSystems
  <2>3. pc[p] \in Minting BY <2>1, Zenon DEF Minting
  <2>4. fs.dir BY <1>1, <2>3, Zenon DEF Sound, Publishes
  <2>5. p \in Nodes => owner = p /\ fs.installation = None BY <2>3, MintingFacts, Zenon
  <2>6. pc'[p] = "wait" => Sound(p)' BY <2>1, <2>2, <2>4, <2>5, MintSound, Zenon
  <2> QED BY <1>1, <1>2, <2>1, <2>2, <2>6, OutlineStep, Zenon
<1> QED BY <1>3, <1>4, <1>5, Zenon

(* A node that has its identity and writes the installation manifest.      *)
LEMMA FinishingFacts ==
    ASSUME InstallationInv, NEW p \in Processes, pc[p] \in Finishing
    PROVE  /\ p \in Nodes /\ owner = p /\ fs.dir /\ Loaded(p) /\ Used(p)
           /\ bundle[p] \in Identities
           /\ \A n \in Files : fs.file[n] = bundle[p][n] /\ disk.file[n] = bundle[p][n]
           /\ first = None \/ forgotten \/ bundle[p] = first
<1>1. Sound(p) BY Zenon DEF InstallationInv
<1>2. p \in Callers => pc[p] \in {"off", "prepare", "done", "refused"} \cup Minting
  BY <1>1, Zenon DEF Sound, HoldsLocks
<1>3. pc[p] \notin {"off", "prepare", "done", "refused"} \cup Minting
      /\ pc[p] \notin {"off", "restrict", "lock", "refused"}
  BY Zenon DEF Finishing, Minting, Locked, Publishing
<1>4. p \in Nodes BY <1>2, <1>3, Zenon DEF Processes
<1>5. owner = p BY <1>1, <1>3, <1>4, Zenon DEF Sound, HoldsLocks
<1>6. Loaded(p) /\ Used(p) BY Zenon DEF Loaded, Used
<1> QED BY <1>1, <1>4, <1>5, <1>6, Zenon DEF Sound, Publishes, Relies, Installs

LEMMA FinishSound ==
    ASSUME InstallationInv, NEW p \in Processes, pc[p] \in Finishing, pc'[p] \in Finishing,
           UNCHANGED <<bundle, owner, draws, first, forgotten>>,
           fs'.dir = fs.dir, fs'.file = fs.file, fs'.temps = fs.temps, disk'.file = disk.file,
           pc'[p] # "complete",
           pc'[p] = "fill" => disk'.installation = None,
           pc'[p] \in {"clear", "vault", "restrict_vault"} =>
               fs'.installation = ManifestOf(bundle[p])
    PROVE  Sound(p)'
<1>1. /\ p \in Nodes /\ owner = p /\ fs.dir /\ Loaded(p) /\ Used(p)
      /\ bundle[p] \in Identities
      /\ \A n \in Files : fs.file[n] = bundle[p][n] /\ disk.file[n] = bundle[p][n]
      /\ first = None \/ forgotten \/ bundle[p] = first
  BY FinishingFacts, Zenon
<1>2. /\ pc'[p] \notin {"fresh", "prepare", "existing", "running", "done", "unmark", "cleared"}
      /\ pc'[p] \notin {"publish", "settle", "sync", "unlink", "link"}
      /\ pc'[p] \notin Minting /\ pc'[p] \notin Publishing /\ pc'[p] \notin Locked
  BY Zenon DEF Minting, Locked, Publishing, Finishing
<1>3. p \notin Callers BY <1>1, Zenon
<1>4. HoldsLocks(p)' BY <1>1, <1>2, <1>3, Zenon DEF HoldsLocks
<1>5. Publishes(p)' BY <1>1, <1>2, Zenon DEF Publishes
<1>6. Relies(p)'
  <2>1. \A t \in fs.temps : t.name \in Files => t.value # bundle[p][t.name]
    BY <1>1, Zenon DEF InstallationInv, Sound, Relies
  <2>2. Identities' = Identities BY Zenon DEF Identities
  <2> QED BY <1>1, <2>1, <2>2, Zenon DEF Relies
<1>7. ManifestOf(bundle[p])' = ManifestOf(bundle[p]) BY Zenon DEF ManifestOf
<1>8. Installs(p)' BY <1>1, <1>2, <1>7, Zenon DEF Installs
<1> QED BY <1>4, <1>5, <1>6, <1>8, Zenon DEF Sound

LEMMA ManifestKept ==
    ASSUME InstallationInv, NEW p \in Processes,
           CreateManifest(p) \/ WriteManifest(p) \/ ClearPending(p)
    PROVE  InstallationInv'
<1>1. fs \in FileSystems /\ disk \in FileSystems /\ DiskIsBehind /\ Sound(p)
  BY Zenon DEF InstallationInv, TypeOK
<1>2. Finishing \subseteq Labels BY Zenon DEF Labels, Finishing
<1>3. pc[p] \in {"complete", "fill", "clear"} /\ pc[p] \in Finishing
  BY Zenon DEF CreateManifest, WriteManifest, ClearPending, Finishing
<1>4. /\ p \in Nodes /\ owner = p /\ fs.dir /\ bundle[p] \in Identities
      /\ \A n \in Files : fs.file[n] = bundle[p][n] /\ disk.file[n] = bundle[p][n]
      /\ first = None \/ forgotten \/ bundle[p] = first
  BY <1>3, FinishingFacts, Zenon
<1>5. UNCHANGED <<dataDir, vaultDir, disk, item, bundle, owner, keyLock, draws, faults,
                  first, forgotten>>
  BY Zenon DEF CreateManifest, WriteManifest, ClearPending, dirs, local, locks, history
<1>6. CASE CreateManifest(p)
  <2>1. fs' = [fs EXCEPT !.installation = Torn] /\ pc[p] = "complete" /\ Go(p, "fill")
    BY <1>6, Zenon DEF CreateManifest
  <2>2. /\ fs' \in FileSystems /\ fs'.dir = fs.dir /\ fs'.file = fs.file
        /\ fs'.temps = fs.temps /\ fs'.installation = Torn
    BY <1>1, <2>1, Zenon DEF FileSystems
  <2>3. fs.installation = None BY <1>1, <1>4, <2>1, Zenon DEF Sound, Installs
  <2>4. disk.installation = None BY <1>1, <2>3, Zenon DEF DiskIsBehind
  <2>5. "fill" \in Finishing /\ "fill" \notin {"complete", "clear", "vault", "restrict_vault"}
    BY Zenon DEF Finishing
  <2>6. pc'[p] = "fill" => Sound(p)' BY <1>3, <1>5, <2>2, <2>4, <2>5, FinishSound, Zenon
  <2> QED BY <1>1, <1>2, <1>4, <1>5, <2>1, <2>2, <2>3, <2>4, <2>5, <2>6, OutlineStep, Zenon
             DEF DiskIsBehind
<1>7. CASE WriteManifest(p)
  <2>1. /\ fs' = [fs EXCEPT !.installation = ManifestOf(bundle[p])]
        /\ pc[p] = "fill" /\ Go(p, "clear")
    BY <1>7, Zenon DEF WriteManifest
  <2>2. ManifestOf(bundle[p]) \in [Range(Keys) -> 1..draws]
    BY <1>4, FilesFacts, Zenon DEF ManifestOf, Identities
  <2>3. /\ fs' \in FileSystems /\ fs'.dir = fs.dir /\ fs'.file = fs.file
        /\ fs'.temps = fs.temps /\ fs'.installation = ManifestOf(bundle[p])
    BY <1>1, <2>1, <2>2, Zenon DEF FileSystems
  <2>4. disk.installation = None BY <1>1, <1>4, <2>1, Zenon DEF Sound, Installs
  <2>5. "clear" \in Finishing /\ "clear" \notin {"complete", "fill"} BY Zenon DEF Finishing
  <2>6. pc'[p] = "clear" => Sound(p)' BY <1>3, <1>5, <2>3, <2>5, FinishSound, Zenon
  <2>7. first # None /\ ~forgotten => fs'.installation = ManifestOf(first) /\ fs.dir /\ Intact
    BY <1>4, <2>3, Zenon DEF Intact
  <2> QED BY <1>1, <1>2, <1>4, <1>5, <2>1, <2>3, <2>4, <2>5, <2>6, <2>7, OutlineStep, Zenon
             DEF DiskIsBehind
<1>8. CASE ClearPending(p)
  <2>1. fs' = [fs EXCEPT !.pending = FALSE] /\ pc[p] = "clear" /\ Go(p, "vault")
    BY <1>8, Zenon DEF ClearPending
  <2>2. /\ fs' \in FileSystems /\ fs'.dir = fs.dir /\ fs'.file = fs.file
        /\ fs'.temps = fs.temps /\ fs'.installation = fs.installation
    BY <1>1, <2>1, Zenon DEF FileSystems
  <2>3. fs.installation = ManifestOf(bundle[p]) BY <1>1, <1>4, <2>1, Zenon DEF Sound, Installs
  <2>4. "vault" \in Finishing /\ "vault" \notin {"complete", "fill"} BY Zenon DEF Finishing
  <2>5. pc'[p] = "vault" => Sound(p)' BY <1>3, <1>5, <2>2, <2>3, <2>4, FinishSound, Zenon
  <2> QED BY <1>1, <1>2, <1>4, <1>5, <2>1, <2>2, <2>4, <2>5, OutlineStep, Zenon DEF DiskIsBehind
<1> QED BY <1>6, <1>7, <1>8, Zenon


-------------------------------------------------------------------------------
(* The vault and the running node.                                         *)

LEMMA VaultKept ==
    ASSUME InstallationInv, NEW p \in Processes,
           VaultCreates(p) \/ VaultRestricts(p) \/ VaultRefuses(p)
    PROVE  InstallationInv'
<1>1. /\ {dataDir, vaultDir} \subseteq {"absent", "open", "private"} /\ Sound(p)
  BY Zenon DEF InstallationInv, TypeOK
<1>2. Finishing \subseteq Labels BY Zenon DEF Labels, Finishing
<1>3. pc[p] \in {"vault", "restrict_vault"} /\ pc[p] \in Finishing
  BY Zenon DEF VaultCreates, VaultRestricts, VaultRefuses, Finishing
<1>4. p \in Nodes BY <1>3, FinishingFacts, Zenon
<1>5. fs.installation = ManifestOf(bundle[p]) BY <1>1, <1>3, <1>4, Zenon DEF Sound, Installs
<1>6. ASSUME VaultCreates(p) \/ VaultRestricts(p) PROVE InstallationInv'
  <2>1. /\ UNCHANGED <<fs, disk, item, bundle, owner, keyLock, draws, faults, first, forgotten>>
        /\ {dataDir, vaultDir}' \subseteq {"absent", "open", "private"}
        /\ \E l \in {"vault", "restrict_vault"} : Go(p, l)
    BY <1>1, <1>6, Zenon DEF VaultCreates, VaultRestricts, store, local, locks, history
  <2>2. {"vault", "restrict_vault"} \subseteq Finishing
        /\ \A l \in {"vault", "restrict_vault"} : l # "complete" /\ l # "fill"
    BY Zenon DEF Finishing
  <2>3. pc'[p] \in {"vault", "restrict_vault"} => Sound(p)'
    BY <1>3, <1>5, <2>1, <2>2, FinishSound, Zenon
  <2> QED BY <1>2, <2>1, <2>2, <2>3, MoveKept, Zenon
<1>7. CASE VaultRefuses(p) BY <1>7, RefuseKept, Zenon DEF VaultRefuses
<1> QED BY <1>6, <1>7, Zenon

LEMMA RunKept ==
    ASSUME InstallationInv, NEW p \in Processes, Run(p)
    PROVE  InstallationInv'
<1>1. /\ pc[p] = "vault" /\ Go(p, "running")
      /\ first' = IF first = None THEN bundle[p] ELSE first
      /\ UNCHANGED <<dataDir, vaultDir, fs, disk, item, bundle, owner, keyLock, draws, faults,
                     forgotten>>
  BY Zenon DEF Run, dirs, store, local, locks
<1>2. "vault" \in Finishing /\ "running" \in Labels BY Zenon DEF Finishing, Labels
<1>3. /\ p \in Nodes /\ owner = p /\ fs.dir /\ Used(p) /\ bundle[p] \in Identities
      /\ \A n \in Files : fs.file[n] = bundle[p][n] /\ disk.file[n] = bundle[p][n]
      /\ first = None \/ forgotten \/ bundle[p] = first
  BY <1>1, <1>2, FinishingFacts, Zenon
<1>4. /\ pc' \in [Processes -> Labels] /\ pc'[p] = "running"
      /\ \A q \in Processes \ {p} : pc'[q] = pc[q]
  BY <1>1, <1>2, GoFacts, Zenon
<1>5. Sound(p) /\ fs.installation = ManifestOf(bundle[p])
  BY <1>1, <1>3, Zenon DEF InstallationInv, Sound, Installs
<1>6. TypeOK'
  <2>1. first' \in Identities \cup {None} BY <1>1, <1>3, Zenon DEF InstallationInv, TypeOK
  <2> QED BY <1>1, <1>4, <2>1, ZenonT(30) DEF InstallationInv, TypeOK, Identities, FileSystems
<1>7. Gentle(p)
  <2>1. \A q \in Processes \ {p} : owner # q BY <1>3, Zenon
  <2> QED BY <1>1, <1>4, <2>1, Zenon DEF Gentle
<1>8. LinksAreDurable' /\ DiskIsBehind'
  BY <1>1, Zenon DEF InstallationInv, LinksAreDurable, DiskIsBehind
<1>9. FirstIsKnown'
  <2>1. CASE first # None
    <3>1. first' = first BY <1>1, <2>1, Zenon
    <3> QED BY <1>1, <1>7, <3>1, FirstKept, Zenon
  <2>2. CASE first = None
    <3>1. first' = bundle[p] BY <1>1, <2>2, Zenon
    <3>2. Intact' BY <1>1, <1>3, <3>1, Zenon DEF Intact
    <3>3. ManifestOf(first)' = ManifestOf(bundle[p]) BY <3>1, Zenon DEF ManifestOf
    <3> QED BY <1>1, <1>3, <1>5, <3>2, <3>3, Zenon DEF FirstIsKnown
  <2> QED BY <2>1, <2>2, Zenon
<1>10. Sound(p)'
  <2>1. /\ pc'[p] \notin {"fresh", "prepare", "existing", "done", "unmark", "cleared",
                          "complete", "fill", "clear", "vault", "restrict_vault"}
        /\ pc'[p] \notin {"publish", "settle", "sync", "unlink", "link"}
        /\ pc'[p] \notin Minting /\ pc'[p] \notin Publishing /\ pc'[p] \notin Locked
        /\ pc'[p] \notin Finishing
    BY <1>4, Zenon DEF Minting, Locked, Publishing, Finishing
  <2>2. ~Loaded(p)' BY <2>1, Zenon DEF Loaded
  <2>3. p \notin Callers BY <1>3, Zenon
  <2>4. HoldsLocks(p)' BY <1>1, <1>3, <2>1, <2>3, Zenon DEF HoldsLocks
  <2>5. Publishes(p)' BY <2>1, Zenon DEF Publishes
  <2>6. Relies(p)'
    <3>1. \A t \in fs.temps : t.name \in Files => t.value # bundle[p][t.name]
      BY <1>3, <1>5, Zenon DEF Sound, Relies
    <3>2. Identities' = Identities BY <1>1, Zenon DEF Identities
    <3> QED BY <1>1, <1>3, <2>2, <3>1, <3>2, Zenon DEF Relies
  <2>7. bundle'[p] = first' \/ forgotten' BY <1>1, <1>3, Zenon
  <2>8. Installs(p)' BY <2>1, <2>2, <2>7, Zenon DEF Installs
  <2> QED BY <2>4, <2>5, <2>6, <2>8, Zenon DEF Sound
<1> QED BY <1>6, <1>7, <1>8, <1>9, <1>10, Assemble, Zenon

LEMMA ExitKept ==
    ASSUME InstallationInv, NEW p \in Processes, Exit(p) \/ Crash(p)
    PROVE  InstallationInv'
<1>1. faults \in 0..MaxFaults BY Zenon DEF InstallationInv, TypeOK
<1>2. CASE Exit(p)
  BY <1>1, <1>2, GoneKept, Zenon DEF Exit, history
<1>3. CASE Crash(p)
  <2>1. faults' \in 0..MaxFaults BY <1>1, <1>3 DEF Crash, MayFault
  <2> QED BY <1>3, <2>1, GoneKept, Zenon DEF Crash
<1> QED BY <1>2, <1>3, Zenon


-------------------------------------------------------------------------------
(* Publishing the files of an identity, under the key store's lock.        *)

LEMMA ManifestIsLast ==
    ASSUME NEW n \in Entries, n \notin {"manifest", "space-id"}
    PROVE  After(n) \in Files /\ After(n) # "manifest"
<1>1. 1 \in DOMAIN Material BY MaterialFacts
<1>2. CASE n = "started"
  <2>1. After(n) = Material[1] BY <1>2, AfterFacts, Zenon
  <2>2. Material[1] \in Files /\ "manifest" \notin Files BY <1>1, FilesFacts, Zenon
  <2> QED BY <2>1, <2>2, Zenon
<1>3. CASE n # "started"
  <2>1. n \in Files BY <1>3, FilesFacts, Zenon
  <2>2. PICK i \in DOMAIN Material : Material[i] = n BY <2>1, FilesFacts, Zenon
  <2>3. i # Len(Material) BY <2>2, MaterialFacts, Zenon
  <2>4. i \in DOMAIN Keys /\ i + 1 \in DOMAIN Material BY <2>2, <2>3, MaterialFacts
  <2>5. After(n) = Material[i + 1] BY <2>2, <2>4, AfterFacts, Zenon
  <2> QED BY <2>4, <2>5, FilesFacts, ZenonT(30)
<1> QED BY <1>2, <1>3, Zenon

(* All the files are there: the bundle read from them is an identity, and  *)
(* the one of the first node, unless that is forgotten.                    *)
LEMMA StoredFacts ==
    ASSUME InstallationInv, \A n \in Files : Has(n)
    PROVE  /\ Stored \in Identities /\ \A n \in Files : fs.file[n] = Stored[n]
           /\ fs.installation = None => first = None \/ forgotten \/ Stored = first
<1>1. \A n \in Files : fs.file[n] \in 1..draws
  BY StoreTypes DEF Has, Absent, Entries
<1>2. Stored \in Identities BY <1>1, Zenon DEF Stored, Identities
<1>3. \A n \in Files : fs.file[n] = Stored[n] BY Zenon DEF Stored
<1>4. ASSUME fs.installation = None, first # None, ~forgotten PROVE Stored = first
  <2>1. Intact BY <1>4, Zenon DEF InstallationInv, FirstIsKnown
  <2>2. first \in Identities BY <1>4, Zenon DEF InstallationInv, TypeOK
  <2>3. first = [n \in Files |-> first[n]] BY <2>2, Zenon DEF Identities
  <2> QED BY <2>1, <2>3, Zenon DEF Intact, Stored
<1> QED BY <1>2, <1>3, <1>4, Zenon

(* What is known of a process publishing an entry.                         *)
LEMMA PublishingFacts ==
    ASSUME InstallationInv, NEW p \in Processes, pc[p] \in Locked
    PROVE  /\ keyLock = p /\ fs.dir /\ pc[p] \in Minting
           /\ p \in Nodes => owner = p /\ fs.installation = None
           /\ pc[p] \in Publishing => item[p] \in Entries /\ \A n \in Before(item[p]) : Has(n)
<1>1. Sound(p) BY Zenon DEF InstallationInv
<1>2. pc[p] \in Minting BY Zenon DEF Minting
<1> QED BY <1>1, <1>2, MintingFacts, Zenon DEF Sound, HoldsLocks, Publishes

(* p stays under the lock at a label of the publication; it has its        *)
(* identity in hand if it publishes the manifest or unmarks.               *)
LEMMA LockedSound ==
    ASSUME NEW p \in Processes, pc'[p] \in Locked, keyLock' = p, fs'.dir,
           p \in Nodes => owner' = p /\ fs'.installation = None,
           Publishes(p)', Relies(p)',
           p \in Nodes /\ Loaded(p)' => (first = None \/ forgotten \/ bundle[p] = first)'
    PROVE  Sound(p)'
<1>1. /\ pc'[p] \notin {"fill", "existing", "clear", "vault", "restrict_vault", "running"}
      /\ pc'[p] \in Minting /\ pc'[p] # "done"
  BY Zenon DEF Minting, Locked, Publishing
<1>2. HoldsLocks(p)' BY <1>1, Zenon DEF HoldsLocks
<1>3. Installs(p)' BY <1>1, Zenon DEF Installs
<1> QED BY <1>2, <1>3, Zenon DEF Sound

LEMMA AdvanceSound ==
    ASSUME InstallationInv, NEW p \in Processes, pc[p] \in {"publish", "settle"}, Has(item[p]),
           Advance(p, item[p]), fs' = fs, \A n \in Files : disk'.file[n] = fs.file[n],
           disk'.installation = disk.installation,
           UNCHANGED <<owner, keyLock, draws, first, forgotten>>
    PROVE  /\ Sound(p)' /\ pc' \in [Processes -> Labels]
           /\ item' \in [Processes -> Entries \cup {None}]
           /\ bundle' \in [Processes -> Identities \cup {None}]
           /\ \A q \in Processes \ {p} :
                 pc'[q] = pc[q] /\ item'[q] = item[q] /\ bundle'[q] = bundle[q]
<1> DEFINE n == item[p]
<1>1. pc[p] \in Publishing /\ pc[p] \in Locked /\ {"publish", "unmark"} \subseteq Locked
      /\ {"publish", "unmark"} \subseteq Labels
  BY Zenon DEF Locked, Publishing, Labels
<1>2. /\ keyLock = p /\ fs.dir /\ n \in Entries /\ \A m \in Before(n) : Has(m)
      /\ p \in Nodes => owner = p /\ fs.installation = None
  BY <1>1, PublishingFacts, Zenon
<1>3. fs.temps = {} BY Zenon DEF InstallationInv, Sound, Publishes
<1>4. /\ item' = [item EXCEPT ![p] = After(n)]
      /\ bundle' = IF n = "space-id" THEN [bundle EXCEPT ![p] = Stored] ELSE bundle
      /\ Go(p, IF n = "manifest" THEN "unmark" ELSE "publish")
  BY Zenon DEF Advance
<1>5. /\ item \in [Processes -> Entries \cup {None}]
      /\ bundle \in [Processes -> Identities \cup {None}]
  BY Zenon DEF InstallationInv, TypeOK
<1> HIDE DEF n
<1>6. item'[p] = After(n) /\ \A q \in Processes \ {p} : item'[q] = item[q]
  BY <1>4, <1>5, Zenon
<1>7. item' \in [Processes -> Entries \cup {None}]
  <2>1. After(n) \in Entries \cup {None} BY <1>2, AfterFacts, BeforeAfter, Zenon
  <2> QED BY <1>4, <1>5, <2>1, Zenon
<1>8. \A m \in Before(n) \cup {n} : Has(m) BY <1>2, Zenon DEF n
<1>9. \A m : Has(m)' <=> Has(m) BY Zenon DEF Has
<1>10. Identities' = Identities BY Zenon DEF Identities
<1>11. CASE n = "manifest"
  <2>1. /\ pc' \in [Processes -> Labels] /\ pc'[p] = "unmark"
        /\ \A q \in Processes \ {p} : pc'[q] = pc[q]
    BY <1>1, <1>4, <1>11, GoFacts, Zenon
  <2>2. bundle' = bundle BY <1>4, <1>11, Zenon
  <2>3. Loaded(p) /\ Used(p) BY <1>1, <1>11, Zenon DEF Loaded, Used, n
  <2>4. /\ bundle[p] \in Identities /\ \A m \in Files : fs.file[m] = bundle[p][m]
        /\ p \in Nodes => first = None \/ forgotten \/ bundle[p] = first
    BY <2>3, Zenon DEF InstallationInv, Sound, Relies, Installs
  <2>5. pc'[p] \in Locked /\ pc'[p] \in Minting /\ pc'[p] \notin Publishing
        /\ pc'[p] \notin {"link", "sync", "unlink", "settle", "publish"}
    BY <2>1, Zenon DEF Locked, Minting, Publishing
  <2>6. Publishes(p)' BY <1>2, <1>3, <2>5, Zenon DEF Publishes
  <2>7. Relies(p)' BY <1>3, <1>10, <2>2, <2>4, Zenon DEF Relies
  <2>8. Sound(p)' BY <1>2, <2>2, <2>4, <2>5, <2>6, <2>7, LockedSound, Zenon
  <2> QED BY <1>5, <1>6, <1>7, <2>1, <2>2, <2>8, Zenon
<1>12. CASE n # "manifest"
  <2>1. /\ pc' \in [Processes -> Labels] /\ pc'[p] = "publish"
        /\ \A q \in Processes \ {p} : pc'[q] = pc[q]
    BY <1>1, <1>4, <1>12, GoFacts, Zenon
  <2>2. After(n) \in Entries /\ Before(After(n)) \subseteq Before(n) \cup {n}
    BY <1>2, <1>12, BeforeAfter, Zenon
  <2>3. pc'[p] \in Locked /\ pc'[p] \in Publishing
        /\ pc'[p] \notin {"link", "sync", "unlink"} /\ pc'[p] # "settle"
    BY <2>1, Zenon DEF Locked, Publishing
  <2>4. Publishes(p)'
    <3>1. \A m \in Before(item'[p]) : Has(m)' BY <1>6, <1>8, <1>9, <2>2, Zenon
    <3>2. Before(item[p])' = Before(item'[p]) BY Zenon DEF Before
    <3> QED BY <1>2, <1>3, <1>6, <2>2, <2>3, <3>1, <3>2, Zenon DEF Publishes
  <2>5. CASE n = "space-id"
    <3>1. item'[p] = "manifest" BY <1>6, <2>5, AfterFacts, Zenon
    <3>2. \A m \in Files : Has(m)
      <4>1. "manifest" # "started" BY Zenon
      <4>2. Before("manifest") = Files BY <4>1, Zenon DEF Before
      <4>3. After(n) = "manifest" BY <2>5, AfterFacts, Zenon
      <4> QED BY <1>8, <2>2, <4>2, <4>3, Zenon
    <3>3. /\ Stored \in Identities /\ \A m \in Files : fs.file[m] = Stored[m]
          /\ fs.installation = None => first = None \/ forgotten \/ Stored = first
      BY <3>2, StoredFacts, Zenon
    <3>4. bundle' = [bundle EXCEPT ![p] = Stored] BY <1>4, <2>5, Zenon
    <3>5. /\ bundle' \in [Processes -> Identities \cup {None}] /\ bundle'[p] = Stored
          /\ \A q \in Processes \ {p} : bundle'[q] = bundle[q]
      BY <1>5, <3>3, <3>4, Zenon
    <3>6. Relies(p)' BY <1>3, <1>10, <3>3, <3>5, Zenon DEF Relies
    <3>7. Sound(p)' BY <1>2, <2>3, <2>4, <3>3, <3>5, <3>6, LockedSound, Zenon
    <3> QED BY <1>6, <1>7, <2>1, <3>5, <3>7, Zenon
  <2>6. CASE n # "space-id"
    <3>1. item'[p] # "manifest" BY <1>2, <1>6, <1>12, <2>6, ManifestIsLast, Zenon
    <3>2. bundle' = bundle BY <1>4, <2>6, Zenon
    <3>3. pc'[p] \notin {"unmark", "cleared"} \cup Finishing /\ pc'[p] \notin {"running", "done"}
      BY <2>1, Zenon DEF Finishing
    <3>4. ~Loaded(p)' /\ ~Used(p)' BY <3>1, <3>3, Zenon DEF Loaded, Used
    <3>5. Relies(p)' BY <3>4, Zenon DEF Relies
    <3>6. Sound(p)' BY <1>2, <2>3, <2>4, <3>4, <3>5, LockedSound, Zenon
    <3> QED BY <1>5, <1>6, <1>7, <2>1, <3>2, <3>6, Zenon
  <2> QED BY <2>5, <2>6, Zenon
<1> QED BY <1>11, <1>12, Zenon


(* A step on the identity directory by the holder of its lock, or by a     *)
(* process that takes it.                                                  *)
LEMMA StoreStep ==
    ASSUME InstallationInv, NEW p \in Processes, keyLock \in {None, p},
           TypeOK', Sound(p)', LinksAreDurable',
           draws' \in {draws, draws + 1}, first' = first, forgotten' = forgotten,
           fs'.dir = fs.dir, fs'.installation = fs.installation,
           disk'.dir = disk.dir, disk'.installation = disk.installation,
           \A q \in Processes \ {p} :
               /\ pc'[q] = pc[q] /\ item'[q] = item[q] /\ bundle'[q] = bundle[q]
               /\ owner = q => owner' = q,
           \A n \in Files :
              \/ fs'.file[n] = fs.file[n] /\ disk'.file[n] \in {disk.file[n], fs.file[n]}
              \/ /\ fs.file[n] = Absent /\ disk'.file[n] = disk.file[n]
                 /\ \E t \in fs.temps : t.name = n /\ fs'.file[n] = t.value,
           \A t \in fs'.temps : t \in fs.temps \/ t.value = draws + 1,
           \A t \in disk'.temps : t \in fs.temps \cup disk.temps
    PROVE  InstallationInv'
<1>0. None \notin Processes BY Zenon DEF Processes
<1>1. \A q \in Processes \ {p} : keyLock # q BY <1>0
<1>2. Gentle(p) BY <1>1, Zenon DEF Gentle
<1>3. DiskIsBehind' BY Zenon DEF InstallationInv, DiskIsBehind
<1>4. FirstIsKnown' BY <1>2, FirstKept, Zenon
<1> QED BY <1>2, <1>3, <1>4, Assemble, Zenon

LEMMA SyncedFacts ==
    ASSUME NEW d \in FileSystems, NEW f \in FileSystems
    PROVE  /\ Synced(d, f) \in FileSystems
           /\ Synced(d, f).file = f.file /\ Synced(d, f).temps = f.temps
           /\ Synced(d, f).dir = d.dir /\ Synced(d, f).installation = d.installation
BY Zenon DEF Synced, FileSystems

LEMMA KeepKept ==
    ASSUME InstallationInv, NEW p \in Processes, Keep(p)
    PROVE  InstallationInv'
<1>1. /\ pc[p] \in {"publish", "settle"} /\ pc[p] = "publish" /\ Has(item[p])
      /\ Advance(p, item[p])
      /\ UNCHANGED <<dataDir, vaultDir, fs, disk, owner, keyLock, draws, faults, first, forgotten>>
  BY Zenon DEF Keep, dirs, store, locks, history
<1>2. fs.temps = {} BY <1>1, Zenon DEF InstallationInv, Sound, Publishes
<1>3. \A n \in Files : disk'.file[n] = fs.file[n]
  BY <1>1, <1>2, Zenon DEF InstallationInv, LinksAreDurable
<1>4. /\ Sound(p)' /\ pc' \in [Processes -> Labels]
      /\ item' \in [Processes -> Entries \cup {None}]
      /\ bundle' \in [Processes -> Identities \cup {None}]
      /\ \A q \in Processes \ {p} :
            pc'[q] = pc[q] /\ item'[q] = item[q] /\ bundle'[q] = bundle[q]
  BY <1>1, <1>3, AdvanceSound, Zenon
<1>5. TypeOK' BY <1>1, <1>4, ZenonT(30) DEF InstallationInv, TypeOK, Identities, FileSystems
<1> QED BY <1>1, <1>4, <1>5, QuietStep, Zenon

LEMMA SettleKept ==
    ASSUME InstallationInv, NEW p \in Processes, Settle(p)
    PROVE  InstallationInv'
<1>1. /\ pc[p] \in {"publish", "settle"} /\ pc[p] = "settle"
      /\ Advance(p, item[p]) /\ disk' = Synced(disk, fs)
      /\ UNCHANGED <<dataDir, vaultDir, fs, owner, keyLock, draws, faults, first, forgotten>>
  BY Zenon DEF Settle, dirs, locks, history
<1>2. /\ disk' \in FileSystems /\ disk'.file = fs.file /\ disk'.temps = fs.temps
      /\ disk'.dir = disk.dir /\ disk'.installation = disk.installation
  BY <1>1, StoreTypes, SyncedFacts, Zenon
<1>3. Has(item[p]) /\ keyLock = p
  <2>1. pc[p] \in {"sync", "unlink", "settle"} /\ pc[p] \in Locked
    BY <1>1, Zenon DEF Locked, Publishing
  <2> QED BY <2>1, Zenon DEF InstallationInv, Sound, Publishes, HoldsLocks
<1>4. /\ Sound(p)' /\ pc' \in [Processes -> Labels]
      /\ item' \in [Processes -> Entries \cup {None}]
      /\ bundle' \in [Processes -> Identities \cup {None}]
      /\ \A q \in Processes \ {p} :
            pc'[q] = pc[q] /\ item'[q] = item[q] /\ bundle'[q] = bundle[q]
  BY <1>1, <1>2, <1>3, AdvanceSound, Zenon
<1>5. Identities' = Identities /\ FileSystems' = FileSystems
  BY <1>1, Zenon DEF Identities, FileSystems
<1>6. TypeOK' BY <1>1, <1>2, <1>4, <1>5, Zenon DEF InstallationInv, TypeOK
<1>7. LinksAreDurable' BY <1>1, <1>2, Zenon DEF LinksAreDurable
<1> QED BY <1>1, <1>2, <1>3, <1>4, <1>6, <1>7, StoreStep, Zenon

(* The steps that publish one file, which leave the identity in hand as it *)
(* is.                                                                     *)
LEMMA OneFileSound ==
    ASSUME InstallationInv, NEW p \in Processes, pc[p] \in Publishing, pc'[p] \in Publishing,
           UNCHANGED <<item, bundle, owner, keyLock, first, forgotten>>,
           draws' \in {draws, draws + 1},
           fs'.dir = fs.dir, fs'.installation = fs.installation,
           \A n \in Files \ {item[p]} : fs'.file[n] = fs.file[n],
           \A n \in Files : fs'.file[n] = fs.file[n] => disk'.file[n] \in {disk.file[n], fs.file[n]},
           \A t \in fs'.temps : t \in fs.temps \/ t.name = item[p],
           Publishes(p)'
    PROVE  Sound(p)'
<1>1. pc[p] \in Locked /\ pc'[p] \in Locked BY Zenon DEF Locked
<1>2. /\ keyLock = p /\ fs.dir
      /\ p \in Nodes => owner = p /\ fs.installation = None
  BY <1>1, PublishingFacts, Zenon
<1>3. pc'[p] \notin {"unmark", "cleared"} \cup Finishing /\ pc'[p] \notin {"running", "done"}
  BY Zenon DEF Publishing, Finishing
<1>4. Used(p)' => Loaded(p)' BY <1>3, Zenon DEF Used
<1>5. Loaded(p)' => Loaded(p) /\ Used(p) /\ item[p] = "manifest"
  BY <1>3, Zenon DEF Loaded, Used
<1>6. ASSUME Loaded(p)'
      PROVE  /\ Relies(p)'
             /\ p \in Nodes => (first = None \/ forgotten \/ bundle[p] = first)'
  <2>1. /\ bundle[p] \in Identities /\ \A n \in Files : fs.file[n] = bundle[p][n]
        /\ \A n \in Files : disk.file[n] = bundle[p][n]
        /\ \A t \in fs.temps : t.name \in Files => t.value # bundle[p][t.name]
        /\ p \in Nodes => first = None \/ forgotten \/ bundle[p] = first
    BY <1>5, <1>6, Zenon DEF InstallationInv, Sound, Relies, Installs
  <2>2. item[p] \notin Files BY <1>5, <1>6, FilesFacts, Zenon
  <2>3. \A n \in Files : fs'.file[n] = bundle[p][n] BY <2>1, <2>2, Zenon
  <2>4. \A n \in Files : disk'.file[n] = bundle[p][n] BY <2>1, <2>2, Zenon
  <2>5. \A t \in fs'.temps : t.name \in Files => t.value # bundle[p][t.name]
    BY <2>1, <2>2, Zenon
  <2>6. bundle[p] \in Identities'
    BY <2>1, IdentitiesGrow, Zenon DEF InstallationInv
  <2> QED BY <2>1, <2>3, <2>4, <2>5, <2>6, Zenon DEF Relies
<1>7. Relies(p)' BY <1>4, <1>6, Zenon DEF Relies
<1> QED BY <1>1, <1>2, <1>6, <1>7, LockedSound, Zenon


LEMMA WriteTemporaryKept ==
    ASSUME InstallationInv, NEW p \in Processes, WriteTemporary(p)
    PROVE  InstallationInv'
<1> DEFINE t == [name |-> item[p], value |-> draws + 1]
<1>1. /\ pc[p] = "publish" /\ ~Has(item[p]) /\ draws' = draws + 1 /\ Go(p, "link")
      /\ fs' = [fs EXCEPT !.temps = @ \cup {t}]
      /\ UNCHANGED <<dataDir, vaultDir, disk, item, bundle, owner, keyLock, faults, first, forgotten>>
  BY Zenon DEF WriteTemporary, dirs, local, locks, history
<1>2. /\ pc[p] \in Publishing /\ pc[p] \in Locked /\ "link" \in Labels /\ "link" \in Publishing
      /\ "link" \in Minting /\ "link" \notin {"publish", "settle", "unmark", "cleared"}
      /\ "link" \notin {"sync", "unlink", "settle"}
  BY <1>1, Zenon DEF Publishing, Locked, Labels, Minting
<1>3. /\ keyLock = p /\ fs.dir /\ item[p] \in Entries /\ \A n \in Before(item[p]) : Has(n)
  BY <1>2, PublishingFacts, Zenon
<1>4. t.name = item[p] /\ t.value = draws + 1 BY Zenon
<1> HIDE DEF t
<1>5. /\ fs'.dir = fs.dir /\ fs'.file = fs.file /\ fs'.installation = fs.installation
      /\ fs'.temps = fs.temps \cup {t}
  BY <1>1, StoreTypes, Zenon DEF FileSystems
<1>6. draws \in Nat /\ draws' \in {draws, draws + 1} BY <1>1, Zenon DEF InstallationInv
<1>7. FileSystems \subseteq FileSystems' /\ Identities \subseteq Identities'
  <2>1. 0..draws \subseteq 0..draws' /\ 1..draws \subseteq 1..draws' BY <1>1, <1>6
  <2>2. Identities \subseteq Identities' BY <1>6, IdentitiesGrow, Zenon
  <2>3. [Entries -> 0..draws] \subseteq [Entries -> 0..draws'] BY <2>1, Zenon
  <2>4. [name : Entries, value : 1..draws] \subseteq [name : Entries, value : 1..draws']
    BY <2>1, Zenon
  <2>5. [Range(Keys) -> 1..draws] \subseteq [Range(Keys) -> 1..draws'] BY <2>1, Zenon
  <2>6. ASSUME NEW f \in FileSystems PROVE f \in FileSystems'
    <3> DEFINE A == [Entries -> 0..draws]
               A2 == [Entries -> 0..draws']
               B == [name : Entries, value : 1..draws]
               B2 == [name : Entries, value : 1..draws']
               C == [Range(Keys) -> 1..draws]
               C2 == [Range(Keys) -> 1..draws']
    <3>1. f \in [dir : BOOLEAN, file : A, temps : SUBSET B, pending : BOOLEAN,
                 installation : {None, Torn} \cup C]
      BY Zenon DEF FileSystems
    <3>2. A \subseteq A2 /\ B \subseteq B2 /\ C \subseteq C2 BY <2>3, <2>4, <2>5, Zenon
    <3> HIDE DEF A, A2, B, B2, C, C2
    <3>3. f \in [dir : BOOLEAN, file : A2, temps : SUBSET B2, pending : BOOLEAN,
                 installation : {None, Torn} \cup C2]
      BY <3>1, <3>2, Zenon
    <3> QED BY <3>3, Zenon DEF FileSystems, A2, B2, C2
  <2> QED BY <2>2, <2>6, Zenon
<1>8. fs' \in FileSystems' /\ disk' \in FileSystems'
  <2>1. fs \in FileSystems' /\ disk \in FileSystems' BY <1>7, StoreTypes, Zenon
  <2>2. t \in [name : Entries, value : 1..draws'] BY <1>1, <1>3, <1>6 DEF t
  <2>3. fs' \in FileSystems' BY <1>1, <2>1, <2>2, Zenon DEF FileSystems
  <2> QED BY <1>1, <2>1, <2>3, Zenon
<1>9. /\ pc' \in [Processes -> Labels] /\ pc'[p] = "link"
      /\ \A q \in Processes \ {p} : pc'[q] = pc[q]
  BY <1>1, <1>2, GoFacts, Zenon
<1>10. TypeOK'
  <2>1. bundle \in [Processes -> Identities' \cup {None}] /\ first \in Identities' \cup {None}
    BY <1>7, Zenon DEF InstallationInv, TypeOK
  <2> QED BY <1>1, <1>8, <1>9, <2>1, Zenon DEF InstallationInv, TypeOK
<1>11. Publishes(p)'
  <2>1. \A n : Has(n)' <=> Has(n) BY <1>5, Zenon DEF Has
  <2>2. Before(item[p])' = Before(item[p]) BY <1>1, Zenon DEF Before
  <2>3. Has(item[p])' <=> Has(item[p]) BY <1>1, <1>5, Zenon DEF Has
  <2> QED BY <1>1, <1>2, <1>3, <1>5, <1>9, <2>1, <2>2, <2>3, Zenon DEF Publishes
<1>12. Sound(p)' BY <1>1, <1>2, <1>4, <1>5, <1>6, <1>9, <1>11, OneFileSound, Zenon
<1>13. LinksAreDurable' BY <1>5, Zenon DEF LinksAreDurable
<1> QED BY <1>1, <1>3, <1>4, <1>5, <1>9, <1>10, <1>12, <1>13, StoreStep, Zenon

LEMMA LinkKept ==
    ASSUME InstallationInv, NEW p \in Processes, Link(p)
    PROVE  InstallationInv'
<1>1. /\ pc[p] = "link" /\ Go(p, "sync")
      /\ UNCHANGED <<dataDir, vaultDir, disk, item, bundle, owner, keyLock, draws, faults, first,
                     forgotten>>
  BY Zenon DEF Link, dirs, local, locks, history
<1>2. PICK t \in fs.temps : t.name = item[p] /\ fs' = [fs EXCEPT !.file[item[p]] = t.value]
  BY Zenon DEF Link
<1>3. /\ pc[p] \in Publishing /\ pc[p] \in Locked /\ "sync" \in Labels /\ "sync" \in Publishing
      /\ "sync" \in Minting /\ "sync" \notin {"publish", "settle", "unmark", "cleared"}
      /\ "sync" \notin {"link", "unlink"}
  BY <1>1, Zenon DEF Publishing, Locked, Labels, Minting
<1>4. /\ keyLock = p /\ fs.dir /\ item[p] \in Entries /\ \A n \in Before(item[p]) : Has(n)
  BY <1>3, PublishingFacts, Zenon
<1>5. fs.file[item[p]] = Absent BY <1>1, Zenon DEF InstallationInv, Sound, Publishes, Has
<1>6. t.value \in Nat /\ 1 <= t.value /\ t.value <= draws /\ t.value # Absent
  BY <1>2, StoreTypes DEF Absent
<1>7. /\ fs' \in FileSystems /\ fs'.dir = fs.dir /\ fs'.installation = fs.installation
      /\ fs'.temps = fs.temps /\ fs'.file = [fs.file EXCEPT ![item[p]] = t.value]
  <2>1. fs.file \in [Entries -> 0..draws] /\ fs \in FileSystems BY StoreTypes, Zenon DEF FileSystems
  <2>2. [fs.file EXCEPT ![item[p]] = t.value] \in [Entries -> 0..draws]
    BY <1>4, <1>6, <2>1, StoreTypes
  <2> QED BY <1>2, <2>1, <2>2, Zenon DEF FileSystems
<1>8. /\ fs'.file[item[p]] = t.value
      /\ \A n \in Entries \ {item[p]} : fs'.file[n] = fs.file[n]
  BY <1>4, <1>7, StoreTypes
<1>9. /\ pc' \in [Processes -> Labels] /\ pc'[p] = "sync"
      /\ \A q \in Processes \ {p} : pc'[q] = pc[q]
  BY <1>1, <1>3, GoFacts, Zenon
<1>10. Identities' = Identities /\ FileSystems' = FileSystems
  BY <1>1, Zenon DEF Identities, FileSystems
<1>11. TypeOK' BY <1>1, <1>7, <1>9, <1>10, Zenon DEF InstallationInv, TypeOK
<1>12. Publishes(p)'
  <2>1. Before(item[p])' = Before(item[p]) BY <1>1, Zenon DEF Before
  <2>2. Has(item[p])' BY <1>1, <1>6, <1>8, Zenon DEF Has
  <2>3. \A n \in Before(item[p]) : n \in Entries
    <3>1. \A n \in Entries : Before(n) \subseteq Files BY FilesFacts DEF Before
    <3> QED BY <1>4, <3>1, Zenon DEF Entries
  <2>4. \A n \in Before(item[p]) : Has(n)' BY <1>4, <1>6, <1>8, <2>3, Zenon DEF Has
  <2> QED BY <1>1, <1>3, <1>4, <1>7, <1>9, <2>1, <2>2, <2>4, Zenon DEF Publishes
<1>13. \A n \in Files : n \in Entries BY Zenon DEF Entries
<1>14. Sound(p)'
  BY <1>1, <1>3, <1>7, <1>8, <1>9, <1>12, <1>13, OneFileSound, Zenon
<1>15. LinksAreDurable' BY <1>2, <1>7, Zenon DEF LinksAreDurable
<1>16. ASSUME NEW n \in Files
       PROVE  \/ fs'.file[n] = fs.file[n] /\ disk'.file[n] \in {disk.file[n], fs.file[n]}
              \/ /\ fs.file[n] = Absent /\ disk'.file[n] = disk.file[n]
                 /\ \E s \in fs.temps : s.name = n /\ fs'.file[n] = s.value
  <2>1. CASE n = item[p] BY <1>1, <1>2, <1>5, <1>8, <2>1, Zenon
  <2>2. CASE n # item[p] BY <1>1, <1>8, <1>13, <2>2, Zenon
  <2> QED BY <2>1, <2>2, Zenon
<1> QED BY <1>1, <1>4, <1>7, <1>9, <1>11, <1>14, <1>15, <1>16, StoreStep, Zenon


LEMMA SyncLinkKept ==
    ASSUME InstallationInv, NEW p \in Processes, SyncLink(p)
    PROVE  InstallationInv'
<1>1. /\ pc[p] = "sync" /\ Go(p, "unlink") /\ disk' = Synced(disk, fs)
      /\ UNCHANGED <<dataDir, vaultDir, fs, item, bundle, owner, keyLock, draws, faults, first,
                     forgotten>>
  BY Zenon DEF SyncLink, dirs, local, locks, history
<1>2. /\ disk' \in FileSystems /\ disk'.file = fs.file /\ disk'.temps = fs.temps
      /\ disk'.dir = disk.dir /\ disk'.installation = disk.installation
  BY <1>1, StoreTypes, SyncedFacts, Zenon
<1>3. /\ pc[p] \in Publishing /\ pc[p] \in Locked /\ "unlink" \in Labels
      /\ "unlink" \in Publishing /\ pc[p] \in {"sync", "unlink", "settle"}
      /\ "unlink" \notin {"publish", "settle", "unmark", "cleared"} /\ "unlink" # "link"
  BY <1>1, Zenon DEF Publishing, Locked, Labels
<1>4. /\ keyLock = p /\ fs.dir /\ item[p] \in Entries /\ \A n \in Before(item[p]) : Has(n)
      /\ Has(item[p])
  BY <1>3, PublishingFacts, Zenon DEF InstallationInv, Sound, Publishes
<1>5. /\ pc' \in [Processes -> Labels] /\ pc'[p] = "unlink"
      /\ \A q \in Processes \ {p} : pc'[q] = pc[q]
  BY <1>1, <1>3, GoFacts, Zenon
<1>6. Identities' = Identities /\ FileSystems' = FileSystems
  BY <1>1, Zenon DEF Identities, FileSystems
<1>7. TypeOK' BY <1>1, <1>2, <1>5, <1>6, Zenon DEF InstallationInv, TypeOK
<1>8. Publishes(p)'
  <2>1. Before(item[p])' = Before(item[p]) BY <1>1, Zenon DEF Before
  <2>2. Has(item[p])' /\ \A n \in Before(item[p]) : Has(n)' BY <1>1, <1>4, Zenon DEF Has
  <2> QED BY <1>1, <1>2, <1>3, <1>4, <1>5, <2>1, <2>2, Zenon DEF Publishes
<1>9. Sound(p)' BY <1>1, <1>2, <1>3, <1>5, <1>8, OneFileSound, Zenon
<1>10. LinksAreDurable' BY <1>1, <1>2, Zenon DEF LinksAreDurable
<1> QED BY <1>1, <1>2, <1>4, <1>5, <1>7, <1>9, <1>10, StoreStep, Zenon

LEMMA UnlinkKept ==
    ASSUME InstallationInv, NEW p \in Processes, Unlink(p)
    PROVE  InstallationInv'
<1>1. /\ pc[p] = "unlink" /\ Go(p, "settle") /\ fs' = [fs EXCEPT !.temps = {}]
      /\ UNCHANGED <<dataDir, vaultDir, disk, item, bundle, owner, keyLock, draws, faults, first,
                     forgotten>>
  BY Zenon DEF Unlink, dirs, local, locks, history
<1>2. /\ fs' \in FileSystems /\ fs'.file = fs.file /\ fs'.temps = {}
      /\ fs'.dir = fs.dir /\ fs'.installation = fs.installation
  BY <1>1, StoreTypes, Zenon DEF FileSystems
<1>3. /\ pc[p] \in Publishing /\ pc[p] \in Locked /\ "settle" \in Labels
      /\ "settle" \in Publishing /\ pc[p] \in {"sync", "unlink", "settle"}
      /\ "settle" \notin {"link", "unlink"}
  BY <1>1, Zenon DEF Publishing, Locked, Labels
<1>4. /\ keyLock = p /\ fs.dir /\ item[p] \in Entries /\ \A n \in Before(item[p]) : Has(n)
      /\ Has(item[p]) /\ \A n \in Files : disk.file[n] = fs.file[n]
  BY <1>1, <1>3, PublishingFacts, Zenon DEF InstallationInv, Sound, Publishes
<1>5. /\ pc' \in [Processes -> Labels] /\ pc'[p] = "settle"
      /\ \A q \in Processes \ {p} : pc'[q] = pc[q]
  BY <1>1, <1>3, GoFacts, Zenon
<1>6. Identities' = Identities /\ FileSystems' = FileSystems
  BY <1>1, Zenon DEF Identities, FileSystems
<1>7. TypeOK' BY <1>1, <1>2, <1>5, <1>6, Zenon DEF InstallationInv, TypeOK
<1>8. Publishes(p)'
  <2>1. Before(item[p])' = Before(item[p]) BY <1>1, Zenon DEF Before
  <2>2. Has(item[p])' /\ \A n \in Before(item[p]) : Has(n)' BY <1>1, <1>2, <1>4, Zenon DEF Has
  <2> QED BY <1>1, <1>2, <1>3, <1>4, <1>5, <2>1, <2>2, Zenon DEF Publishes
<1>9. Sound(p)' BY <1>1, <1>2, <1>3, <1>5, <1>8, OneFileSound, Zenon
<1>10. LinksAreDurable' BY <1>1, <1>2, <1>4, Zenon DEF LinksAreDurable
<1> QED BY <1>1, <1>2, <1>4, <1>5, <1>7, <1>9, <1>10, StoreStep, Zenon

(* A process under the lock that has its identity and publishes no more.   *)
LEMMA UnmarkingFacts ==
    ASSUME InstallationInv, NEW p \in Processes, pc[p] \in {"unmark", "cleared"}
    PROVE  /\ keyLock = p /\ fs.dir /\ fs.temps = {}
           /\ p \in Nodes => owner = p /\ fs.installation = None
           /\ bundle[p] \in Identities
           /\ \A n \in Files : fs.file[n] = bundle[p][n] /\ disk.file[n] = bundle[p][n]
           /\ p \in Nodes => first = None \/ forgotten \/ bundle[p] = first
<1>1. pc[p] \in Locked BY Zenon DEF Locked
<1>2. Loaded(p) /\ Used(p) BY Zenon DEF Loaded, Used
<1>3. pc[p] \in {"publish", "settle", "unmark", "cleared"} BY Zenon
<1>4. Sound(p) BY Zenon DEF InstallationInv
<1> QED BY <1>1, <1>2, <1>3, <1>4, PublishingFacts, Zenon DEF Sound, Publishes, Relies, Installs

LEMMA UnmarkSound ==
    ASSUME InstallationInv, NEW p \in Processes, pc[p] \in {"unmark", "cleared"},
           UNCHANGED <<bundle, owner, draws, first, forgotten>>,
           fs'.dir = fs.dir, fs'.temps = fs.temps, fs'.installation = fs.installation,
           \A n \in Files : fs'.file[n] = fs.file[n] /\ disk'.file[n] = fs.file[n],
           \/ pc'[p] = "cleared" /\ keyLock' = p
           \/ pc'[p] = "complete" /\ p \in Nodes
           \/ pc'[p] = "done" /\ p \notin Nodes
    PROVE  Sound(p)'
<1>1. /\ keyLock = p /\ fs.dir /\ fs.temps = {}
      /\ p \in Nodes => owner = p /\ fs.installation = None
      /\ bundle[p] \in Identities
      /\ \A n \in Files : fs.file[n] = bundle[p][n] /\ disk.file[n] = bundle[p][n]
      /\ p \in Nodes => first = None \/ forgotten \/ bundle[p] = first
  BY UnmarkingFacts, Zenon
<1>2. Relies(p)'
  <2>1. Identities' = Identities BY Zenon DEF Identities
  <2>2. \A n \in Files : fs'.file[n] = bundle[p][n] /\ disk'.file[n] = bundle[p][n]
    BY <1>1, Zenon
  <2> QED BY <1>1, <2>1, <2>2, Zenon DEF Relies
<1>3. /\ pc'[p] \notin {"fresh", "prepare", "existing", "running", "unmark"}
      /\ pc'[p] \notin {"fill", "clear", "vault", "restrict_vault"}
      /\ pc'[p] \notin {"publish", "settle", "sync", "unlink", "link"}
      /\ pc'[p] \notin Publishing /\ pc'[p] \notin {"off", "restrict", "lock", "refused"}
      /\ pc'[p] \in Locked => pc'[p] = "cleared"
      /\ pc'[p] = "cleared" => pc'[p] \in Minting
  BY Zenon DEF Minting, Locked, Publishing, Finishing
<1>4. HoldsLocks(p)'
  <2>1. p \notin Nodes => p \in Callers BY Zenon DEF Processes
  <2>2. p \in Nodes => p \notin Callers BY Zenon
  <2>3. pc'[p] \in {"cleared", "complete", "done"} BY Zenon
  <2>4. "cleared" # "done" /\ "complete" # "done" /\ "cleared" # "complete" BY Zenon
  <2>5. p \in Nodes => owner' = p BY <1>1, Zenon
  <2> QED BY <1>3, <2>1, <2>2, <2>3, <2>4, <2>5, Zenon DEF HoldsLocks
<1>5. Publishes(p)' BY <1>1, <1>3, Zenon DEF Publishes
<1>6. Installs(p)' BY <1>1, <1>3, Zenon DEF Installs
<1> QED BY <1>2, <1>4, <1>5, <1>6, Zenon DEF Sound

LEMMA UnmarkKept ==
    ASSUME InstallationInv, NEW p \in Processes, Unmark(p) \/ SyncUnmark(p)
    PROVE  InstallationInv'
<1>1. /\ pc[p] \in {"unmark", "cleared"}
      /\ UNCHANGED <<dataDir, vaultDir, item, bundle, owner, draws, faults, first, forgotten>>
  BY Zenon DEF Unmark, SyncUnmark, dirs, local, history
<1>2. /\ keyLock = p /\ fs.temps = {} /\ \A n \in Files : fs.file[n] = disk.file[n]
  BY <1>1, UnmarkingFacts, Zenon
<1>3. PICK l \in {"cleared", "complete", "done"} :
         /\ Go(p, l)
         /\ \/ l = "cleared" /\ keyLock' = p
            \/ l = "complete" /\ p \in Nodes /\ keyLock' = None
            \/ l = "done" /\ p \notin Nodes /\ keyLock' = None
  <2>1. CASE p \in Nodes BY <1>2, <2>1, Zenon DEF Unmark, SyncUnmark
  <2>2. CASE p \notin Nodes BY <1>2, <2>2, Zenon DEF Unmark, SyncUnmark
  <2> QED BY <2>1, <2>2, Zenon
<1>4. l \in Labels BY Zenon DEF Labels
<1>5. /\ pc' \in [Processes -> Labels] /\ pc'[p] = l
      /\ \A q \in Processes \ {p} : pc'[q] = pc[q]
  BY <1>3, <1>4, GoFacts, Zenon
<1>6. /\ fs' \in FileSystems /\ disk' \in FileSystems
      /\ fs'.dir = fs.dir /\ fs'.temps = fs.temps /\ fs'.installation = fs.installation
      /\ disk'.dir = disk.dir /\ disk'.installation = disk.installation
      /\ \A n \in Files : fs'.file[n] = fs.file[n] /\ disk'.file[n] = fs.file[n]
      /\ \A t \in disk'.temps : t \in fs.temps \cup disk.temps
  <2>1. CASE Unmark(p)
    <3>1. fs' = [fs EXCEPT !.file["started"] = Absent] /\ disk' = disk
      BY <2>1, Zenon DEF Unmark
    <3>2. fs.file \in [Entries -> 0..draws] /\ fs \in FileSystems
      BY StoreTypes, Zenon DEF FileSystems
    <3>3. [fs.file EXCEPT !["started"] = Absent] \in [Entries -> 0..draws]
      <4>1. Absent \in 0..draws BY StoreTypes DEF Absent
      <4> QED BY <3>2, <4>1, Zenon
    <3>4. /\ fs' \in FileSystems /\ fs'.dir = fs.dir /\ fs'.temps = fs.temps
          /\ fs'.installation = fs.installation
          /\ fs'.file = [fs.file EXCEPT !["started"] = Absent]
      BY <3>1, <3>2, <3>3, Zenon DEF FileSystems
    <3>5. \A n \in Files : fs'.file[n] = fs.file[n]
      BY <3>2, <3>4, FilesFacts, Zenon
    <3> QED BY <1>2, <3>1, <3>4, <3>5, StoreTypes, Zenon
  <2>2. CASE SyncUnmark(p)
    <3>1. fs' = fs /\ disk' = Synced(disk, fs) BY <2>2, Zenon DEF SyncUnmark
    <3>2. /\ disk' \in FileSystems /\ disk'.file = fs.file /\ disk'.temps = fs.temps
          /\ disk'.dir = disk.dir /\ disk'.installation = disk.installation
      BY <3>1, StoreTypes, SyncedFacts, Zenon
    <3> QED BY <3>1, <3>2, StoreTypes, Zenon
  <2> QED BY <2>1, <2>2, Zenon
<1>7. Identities' = Identities /\ FileSystems' = FileSystems
  BY <1>1, Zenon DEF Identities, FileSystems
<1>8. TypeOK'
  <2>1. keyLock' \in Processes \cup {None} BY <1>3, Zenon
  <2> QED BY <1>1, <1>5, <1>6, <1>7, <2>1, Zenon DEF InstallationInv, TypeOK
<1>9. Sound(p)' BY <1>1, <1>3, <1>5, <1>6, UnmarkSound, Zenon
<1>10. LinksAreDurable' BY <1>6, Zenon DEF LinksAreDurable
<1>11. \A n \in Files :
          fs'.file[n] = fs.file[n] /\ disk'.file[n] \in {disk.file[n], fs.file[n]}
  BY <1>6, Zenon
<1> QED BY <1>1, <1>2, <1>5, <1>6, <1>8, <1>9, <1>10, <1>11, StoreStep, Zenon


-------------------------------------------------------------------------------
(* Taking the key store's lock, and loading an established identity.       *)

(* The temporary files of an interrupted publication are removed.          *)
LEMMA CleanFacts ==
    ASSUME InstallationInv, fs' = Clean,
           disk' = IF fs.temps = {} THEN disk ELSE Synced(disk, Clean)
    PROVE  /\ fs' \in FileSystems /\ disk' \in FileSystems
           /\ fs'.dir = fs.dir /\ fs'.file = fs.file /\ fs'.temps = {}
           /\ fs'.installation = fs.installation
           /\ disk'.dir = disk.dir /\ disk'.installation = disk.installation
           /\ \A n \in Files : disk'.file[n] = fs.file[n]
           /\ \A t \in disk'.temps : t \in fs.temps \cup disk.temps
           /\ LinksAreDurable'
<1>1. /\ fs' \in FileSystems /\ fs'.dir = fs.dir /\ fs'.file = fs.file /\ fs'.temps = {}
      /\ fs'.installation = fs.installation
  BY StoreTypes, Zenon DEF Clean, FileSystems
<1>2. /\ disk' \in FileSystems /\ disk'.dir = disk.dir
      /\ disk'.installation = disk.installation
      /\ \A n \in Files : disk'.file[n] = fs.file[n]
      /\ \A t \in disk'.temps : t \in fs.temps \cup disk.temps
  <2>1. CASE fs.temps = {}
    <3>1. disk' = disk BY <2>1, Zenon
    <3> QED BY <2>1, <3>1, StoreTypes, Zenon DEF InstallationInv, LinksAreDurable
  <2>2. CASE fs.temps # {}
    <3>1. disk' = Synced(disk, Clean) BY <2>2, Zenon
    <3>2. /\ disk' \in FileSystems /\ disk'.file = Clean.file /\ disk'.temps = Clean.temps
          /\ disk'.dir = disk.dir /\ disk'.installation = disk.installation
      <4>1. Clean \in FileSystems BY <1>1, Zenon
      <4>2. disk \in FileSystems BY StoreTypes, Zenon
      <4>3. /\ Synced(disk, Clean) \in FileSystems
            /\ Synced(disk, Clean).file = Clean.file /\ Synced(disk, Clean).temps = Clean.temps
            /\ Synced(disk, Clean).dir = disk.dir
            /\ Synced(disk, Clean).installation = disk.installation
        BY <4>1, <4>2, SyncedFacts, Zenon
      <4> QED BY <3>1, <4>3, Zenon
    <3> QED BY <1>1, <3>2, Zenon
  <2> QED BY <2>1, <2>2, Zenon
<1>3. LinksAreDurable' BY <1>1, <1>2, Zenon DEF LinksAreDurable
<1> QED BY <1>1, <1>2, <1>3, Zenon

LEMMA LoadableFacts ==
    ASSUME InstallationInv, Loadable(Clean)
    PROVE  \A n \in Files : Has(n)
<1>1. Clean.file = fs.file BY StoreTypes, Zenon DEF Clean, FileSystems
<1> QED BY <1>1, Zenon DEF Loadable, Readable, Has

LEMMA RecoverKept ==
    ASSUME InstallationInv, NEW p \in Processes, Recover(p)
    PROVE  InstallationInv'
<1>1. /\ pc[p] = "wait" /\ keyLock = None /\ fs' = Clean
      /\ disk' = IF fs.temps = {} THEN disk ELSE Synced(disk, Clean)
      /\ UNCHANGED <<dataDir, vaultDir, draws, faults, first, forgotten>>
  BY Zenon DEF Recover, dirs, history
<1>2. /\ fs' \in FileSystems /\ disk' \in FileSystems
      /\ fs'.dir = fs.dir /\ fs'.file = fs.file /\ fs'.temps = {}
      /\ fs'.installation = fs.installation
      /\ disk'.dir = disk.dir /\ disk'.installation = disk.installation
      /\ \A n \in Files : disk'.file[n] = fs.file[n]
      /\ \A t \in disk'.temps : t \in fs.temps \cup disk.temps
      /\ LinksAreDurable'
  BY <1>1, CleanFacts, Zenon
<1>3. Identities' = Identities /\ FileSystems' = FileSystems
  BY <1>1, Zenon DEF Identities, FileSystems
<1>4. pc[p] \in Minting BY <1>1, Zenon DEF Minting
<1>6. fs.dir BY <1>4, Zenon DEF InstallationInv, Sound, Publishes
<1>7. p \in Nodes => owner = p /\ fs.installation = None BY <1>4, MintingFacts, Zenon
<1>8. /\ item \in [Processes -> Entries \cup {None}]
      /\ bundle \in [Processes -> Identities \cup {None}]
  BY Zenon DEF InstallationInv, TypeOK
<1>9. CASE Refuse(p) /\ UNCHANGED local
  <2>1. /\ pc' \in [Processes -> Labels] /\ pc'[p] = "refused"
        /\ \A q \in Processes \ {p} : pc'[q] = pc[q]
    BY <1>9, GoFacts, Zenon DEF Refuse, Labels
  <2>2. /\ owner' \in Nodes \cup {None} /\ keyLock' \in Processes \cup {None}
        /\ \A q \in Processes \ {p} : (owner = q => owner' = q)
    BY <1>9, DropFacts, Zenon DEF Refuse
  <2>3. UNCHANGED <<item, bundle>> BY <1>9, Zenon DEF local
  <2>4. TypeOK' BY <1>1, <1>2, <1>3, <2>1, <2>2, <2>3, Zenon DEF InstallationInv, TypeOK
  <2>5. Sound(p)' BY <2>1, IdleSound, Zenon
  <2> QED BY <1>1, <1>2, <2>1, <2>2, <2>3, <2>4, <2>5, StoreStep, Zenon
<1>10. CASE Has("manifest") /\ Loadable(Clean) /\ ~(Refuse(p) /\ UNCHANGED local)
  <2>1. /\ keyLock' = p /\ bundle' = [bundle EXCEPT ![p] = Stored]
        /\ item' = [item EXCEPT ![p] = None] /\ Go(p, "unmark") /\ owner' = owner
    BY <1>10, Zenon DEF Recover
  <2>2. "unmark" \in Labels BY Zenon DEF Labels
  <2>3. /\ pc' \in [Processes -> Labels] /\ pc'[p] = "unmark"
        /\ \A q \in Processes \ {p} : pc'[q] = pc[q]
    BY <2>1, <2>2, GoFacts, Zenon
  <2>4. /\ Stored \in Identities /\ \A n \in Files : fs.file[n] = Stored[n]
        /\ fs.installation = None => first = None \/ forgotten \/ Stored = first
    BY <1>10, LoadableFacts, StoredFacts, Zenon
  <2>5. /\ item' \in [Processes -> Entries \cup {None}]
        /\ bundle' \in [Processes -> Identities \cup {None}] /\ bundle'[p] = Stored
        /\ \A q \in Processes \ {p} : item'[q] = item[q] /\ bundle'[q] = bundle[q]
    BY <1>8, <2>1, <2>4, Zenon
  <2>6. TypeOK' BY <1>1, <1>2, <1>3, <2>1, <2>3, <2>5, Zenon DEF InstallationInv, TypeOK
  <2>7. /\ pc'[p] \in Locked /\ pc'[p] \notin Publishing
        /\ pc'[p] \notin {"publish", "settle", "sync", "unlink", "link"}
    BY <2>3, Zenon DEF Locked, Publishing
  <2>8. Publishes(p)' BY <1>2, <1>6, <2>7, Zenon DEF Publishes
  <2>9. Relies(p)' BY <1>2, <1>3, <2>4, <2>5, Zenon DEF Relies
  <2>10. Sound(p)'
    BY <1>1, <1>2, <1>6, <1>7, <2>1, <2>4, <2>5, <2>7, <2>8, <2>9, LockedSound, ZenonT(30)
  <2> QED BY <1>1, <1>2, <2>1, <2>3, <2>5, <2>6, <2>10, StoreStep, Zenon
<1>11. CASE ~Has("manifest") /\ ~(Refuse(p) /\ UNCHANGED local)
  <2> DEFINE m == IF Has("started") THEN Material[1] ELSE "started"
  <2>1. /\ keyLock' = p /\ bundle' = [bundle EXCEPT ![p] = None]
        /\ item' = [item EXCEPT ![p] = m] /\ Go(p, "publish") /\ owner' = owner
    BY <1>11, Zenon DEF Recover
  <2>2. "publish" \in Labels BY Zenon DEF Labels
  <2>3. /\ pc' \in [Processes -> Labels] /\ pc'[p] = "publish"
        /\ \A q \in Processes \ {p} : pc'[q] = pc[q]
    BY <2>1, <2>2, GoFacts, Zenon
  <2>4. m \in Entries /\ m # "manifest" /\ \A n \in Before(m) : Has(n)
    <3>1. Before("started") = {} BY Zenon DEF Before
    <3>2. "started" \in Entries /\ "started" \notin {"manifest", "space-id"}
      BY Zenon DEF Entries
    <3>3. CASE Has("started")
      <4>1. m = After("started") BY <3>3, AfterFacts, Zenon
      <4>2. /\ After("started") \in Entries /\ After("started") # "manifest"
            /\ Before(After("started")) \subseteq Before("started") \cup {"started"}
        BY <3>2, BeforeAfter, ManifestIsLast, Zenon
      <4> HIDE DEF m
      <4> QED BY <3>1, <3>3, <4>1, <4>2, Zenon
    <3>4. CASE ~Has("started")
      <4>1. m = "started" BY <3>4, Zenon
      <4> HIDE DEF m
      <4> QED BY <3>1, <3>2, <4>1, Zenon
    <3> QED BY <3>3, <3>4, Zenon
  <2> HIDE DEF m
  <2>5. /\ item' \in [Processes -> Entries \cup {None}] /\ item'[p] = m
        /\ bundle' \in [Processes -> Identities \cup {None}]
        /\ \A q \in Processes \ {p} : item'[q] = item[q] /\ bundle'[q] = bundle[q]
    BY <1>8, <2>1, <2>4, Zenon
  <2>6. TypeOK' BY <1>1, <1>2, <1>3, <2>1, <2>3, <2>5, Zenon DEF InstallationInv, TypeOK
  <2>7. /\ pc'[p] \in Locked /\ pc'[p] \notin {"unmark", "cleared"} \cup Finishing
        /\ pc'[p] \notin {"running", "done"} /\ pc'[p] \notin {"sync", "unlink", "settle", "link"}
    BY <2>3, Zenon DEF Locked, Publishing, Finishing
  <2>8. Publishes(p)'
    <3>1. Before(item[p])' = Before(item'[p]) BY Zenon DEF Before
    <3>2. \A n : Has(n)' <=> Has(n) BY <1>2, Zenon DEF Has
    <3> QED BY <1>2, <1>6, <2>4, <2>5, <2>7, <3>1, <3>2, Zenon DEF Publishes
  <2>9. ~Loaded(p)' /\ ~Used(p)' BY <2>4, <2>5, <2>7, Zenon DEF Loaded, Used
  <2>10. Relies(p)' BY <2>9, Zenon DEF Relies
  <2>11. Sound(p)' BY <1>2, <1>6, <1>7, <2>1, <2>7, <2>8, <2>9, <2>10, LockedSound, Zenon
  <2> QED BY <1>1, <1>2, <2>1, <2>3, <2>5, <2>6, <2>11, StoreStep, Zenon
<1>12. CASE Has("manifest") /\ ~Loadable(Clean) BY <1>9, <1>12, Zenon DEF Recover
<1> QED BY <1>9, <1>10, <1>11, <1>12, Zenon

LEMMA LoadExistingKept ==
    ASSUME InstallationInv, NEW p \in Processes, LoadExisting(p)
    PROVE  InstallationInv'
<1>1. /\ pc[p] = "existing" /\ keyLock = None /\ fs' = Clean
      /\ disk' = IF fs.temps = {} THEN disk ELSE Synced(disk, Clean)
      /\ UNCHANGED <<dataDir, vaultDir, item, draws, faults, first, forgotten>>
  BY Zenon DEF LoadExisting, dirs, history
<1>2. /\ fs' \in FileSystems /\ disk' \in FileSystems
      /\ fs'.dir = fs.dir /\ fs'.file = fs.file /\ fs'.temps = {}
      /\ fs'.installation = fs.installation
      /\ disk'.dir = disk.dir /\ disk'.installation = disk.installation
      /\ \A n \in Files : disk'.file[n] = fs.file[n]
      /\ \A t \in disk'.temps : t \in fs.temps \cup disk.temps
      /\ LinksAreDurable'
  BY <1>1, CleanFacts, Zenon
<1>3. Identities' = Identities /\ FileSystems' = FileSystems
  BY <1>1, Zenon DEF Identities, FileSystems
<1>4. bundle \in [Processes -> Identities \cup {None}] BY Zenon DEF InstallationInv, TypeOK
<1>5. CASE Refuse(p) /\ UNCHANGED bundle
  <2>1. /\ pc' \in [Processes -> Labels] /\ pc'[p] = "refused"
        /\ \A q \in Processes \ {p} : pc'[q] = pc[q]
    BY <1>5, GoFacts, Zenon DEF Refuse, Labels
  <2>2. /\ owner' \in Nodes \cup {None} /\ keyLock' \in Processes \cup {None}
        /\ \A q \in Processes \ {p} : (owner = q => owner' = q)
    BY <1>5, DropFacts, Zenon DEF Refuse
  <2>3. TypeOK' BY <1>1, <1>2, <1>3, <1>5, <2>1, <2>2, Zenon DEF InstallationInv, TypeOK
  <2>4. Sound(p)' BY <2>1, IdleSound, Zenon
  <2> QED BY <1>1, <1>2, <1>5, <2>1, <2>2, <2>3, <2>4, StoreStep, Zenon
<1>6. CASE ~(Refuse(p) /\ UNCHANGED bundle)
  <2>1. /\ fs.dir /\ Loadable(Clean) /\ ManifestOf(Stored) = fs.installation
        /\ bundle' = [bundle EXCEPT ![p] = Stored] /\ Go(p, "vault")
        /\ owner' = owner /\ keyLock' = keyLock
    BY <1>6, Zenon DEF LoadExisting, locks
  <2>2. "vault" \in Labels /\ "vault" \in Finishing BY Zenon DEF Labels, Finishing
  <2>3. /\ pc' \in [Processes -> Labels] /\ pc'[p] = "vault"
        /\ \A q \in Processes \ {p} : pc'[q] = pc[q]
    BY <2>1, <2>2, GoFacts, Zenon
  <2>4. /\ Stored \in Identities /\ \A n \in Files : fs.file[n] = Stored[n]
    BY <2>1, LoadableFacts, StoredFacts, Zenon
  <2>5. /\ bundle' \in [Processes -> Identities \cup {None}] /\ bundle'[p] = Stored
        /\ \A q \in Processes \ {p} : bundle'[q] = bundle[q]
    BY <1>4, <2>1, <2>4, Zenon
  <2>6. TypeOK' BY <1>1, <1>2, <1>3, <2>1, <2>3, <2>5, Zenon DEF InstallationInv, TypeOK
  <2>7. Sound(p) BY Zenon DEF InstallationInv
  <2>8. p \in Nodes
    <3>1. p \in Callers => pc[p] \in {"off", "prepare", "done", "refused"} \cup Minting
      BY <2>7, Zenon DEF Sound, HoldsLocks
    <3>2. "existing" \notin {"off", "prepare", "done", "refused"} \cup Minting
      BY Zenon DEF Minting, Locked, Publishing
    <3> QED BY <1>1, <3>1, <3>2, Zenon DEF Processes
  <2>9. owner = p /\ fs.installation \notin {None, Torn}
    <3>1. pc[p] \notin {"off", "restrict", "lock", "refused"} BY <1>1, Zenon
    <3> QED BY <1>1, <2>7, <2>8, <3>1, Zenon DEF Sound, HoldsLocks, Installs
  <2>10. ASSUME first # None, ~forgotten PROVE Stored = first
    <3>1. fs.installation = ManifestOf(first) /\ (Intact \/ Lost)
      BY <2>9, <2>10, Zenon DEF InstallationInv, FirstIsKnown
    <3>2. Keys[1] \in Range(Keys) /\ Keys[1] \in Files BY FilesFacts, Zenon
    <3>3. ManifestOf(Stored)[Keys[1]] = Stored[Keys[1]]
          /\ ManifestOf(first)[Keys[1]] = first[Keys[1]]
      BY <3>2, Zenon DEF ManifestOf
    <3>4. fs.file[Keys[1]] = first[Keys[1]] BY <2>1, <2>4, <3>1, <3>2, <3>3, Zenon
    <3>5. Intact BY <3>1, <3>2, <3>4, Zenon DEF Lost
    <3>6. first \in Identities BY <2>10, Zenon DEF InstallationInv, TypeOK
    <3>7. first = [n \in Files |-> first[n]] BY <3>6, Zenon DEF Identities
    <3> QED BY <3>5, <3>7, Zenon DEF Intact, Stored
  <2>11. /\ pc'[p] \notin {"fresh", "prepare", "existing", "running", "done", "unmark", "cleared",
                           "complete", "fill"}
         /\ pc'[p] \notin {"publish", "settle", "sync", "unlink", "link"}
         /\ pc'[p] \notin Minting /\ pc'[p] \notin Publishing /\ pc'[p] \notin Locked
    BY <2>3, Zenon DEF Minting, Locked, Publishing
  <2>12. Sound(p)'
    <3>1. p \notin Callers BY <2>8, Zenon
    <3>2. HoldsLocks(p)' BY <2>1, <2>9, <2>11, <3>1, Zenon DEF HoldsLocks
    <3>3. Publishes(p)' BY <1>2, <2>1, <2>11, Zenon DEF Publishes
    <3>4. Relies(p)' BY <1>2, <1>3, <2>4, <2>5, Zenon DEF Relies
    <3>5. ManifestOf(bundle[p])' = ManifestOf(Stored) BY <2>5, Zenon DEF ManifestOf
    <3>6. Installs(p)' BY <1>1, <1>2, <2>1, <2>5, <2>10, <2>11, <3>5, Zenon DEF Installs
    <3> QED BY <3>2, <3>3, <3>4, <3>6, Zenon DEF Sound
  <2> QED BY <1>1, <1>2, <2>1, <2>3, <2>5, <2>6, <2>12, StoreStep, Zenon
<1> QED BY <1>5, <1>6, Zenon


-------------------------------------------------------------------------------
(* Loss of power, and removal of the identity directory.                   *)

LEMMA SurvivorFacts ==
    ASSUME InstallationInv, NEW s \in Survivors
    PROVE  /\ s \in FileSystems
           /\ s.dir \in {disk.dir, fs.dir}
           /\ s.installation \in {disk.installation, Torn, fs.installation}
           /\ s.dir => /\ \A n \in Files : s.file[n] \in {fs.file[n], disk.file[n]}
                       /\ s.temps \in {disk.temps, fs.temps}
           /\ ~s.dir => s.file = Empty /\ s.temps = {}
<1> DEFINE I == IF fs.installation = disk.installation THEN {fs.installation}
                ELSE {disk.installation, Torn, fs.installation}
           Diff == {n \in Entries : fs.file[n] # disk.file[n]}
           F == {[n \in Entries |-> IF n \in kept THEN fs.file[n] ELSE disk.file[n]] :
                   kept \in SUBSET Diff}
           R(d, q, i, f, t) ==
              [dir |-> d, pending |-> q, installation |-> i,
               file |-> IF d THEN f ELSE Empty, temps |-> IF d THEN t ELSE {}]
<1>0. Survivors = {R(d, q, i, f, t) : d \in {disk.dir, fs.dir}, q \in {disk.pending, fs.pending},
                     i \in I, f \in F, t \in {disk.temps, fs.temps}}
  BY DEF Survivors
<1> HIDE DEF I, F, R
<1>1a. PICK d \in {disk.dir, fs.dir}, q \in {disk.pending, fs.pending}, i \in I, f \in F,
           t \in {disk.temps, fs.temps} : s = R(d, q, i, f, t)
  BY <1>0
<1> USE DEF I, F
<1>1. s = [dir |-> d, pending |-> q, installation |-> i,
           file |-> IF d THEN f ELSE Empty, temps |-> IF d THEN t ELSE {}]
  BY <1>1a, Zenon DEF R
<1>2. i \in {disk.installation, Torn, fs.installation} BY Zenon
<1>3. PICK kept \in SUBSET Diff :
         f = [n \in Entries |-> IF n \in kept THEN fs.file[n] ELSE disk.file[n]]
  BY Zenon
<1> HIDE DEF I, Diff, F
<1>4. f \in [Entries -> 0..draws] /\ \A n \in Entries : f[n] \in {fs.file[n], disk.file[n]}
  <2>1. \A n \in Entries : fs.file[n] \in 0..draws /\ disk.file[n] \in 0..draws
    BY StoreTypes
  <2> QED BY <1>3, <2>1, Zenon
<1>5. Empty \in [Entries -> 0..draws] BY StoreTypes DEF Empty, Absent
<1>6. /\ d \in BOOLEAN /\ q \in BOOLEAN
      /\ i \in {None, Torn} \cup [Range(Keys) -> 1..draws]
      /\ t \in SUBSET [name : Entries, value : 1..draws]
  BY <1>2, StoreTypes, Zenon DEF FileSystems
<1>7. CASE d = TRUE
  <2>1. s = [dir |-> TRUE, pending |-> q, installation |-> i, file |-> f, temps |-> t]
    BY <1>1, <1>7, Zenon
  <2>2. s \in FileSystems BY <1>4, <1>6, <2>1, Zenon DEF FileSystems
  <2>3. s.dir = TRUE /\ s.installation = i /\ s.file = f /\ s.temps = t BY <2>1, Zenon
  <2>4. \A n \in Files : s.file[n] \in {fs.file[n], disk.file[n]} BY <1>4, <2>3, Zenon DEF Entries
  <2>5. s.dir \in {disk.dir, fs.dir} BY <1>1, <1>7, <2>3, Zenon
  <2> QED BY <1>1, <1>2, <2>2, <2>3, <2>4, <2>5, Zenon
<1>8. CASE d = FALSE
  <2>1. s = [dir |-> FALSE, pending |-> q, installation |-> i, file |-> Empty, temps |-> {}]
    BY <1>1, <1>8, Zenon
  <2>2. s \in FileSystems BY <1>5, <1>6, <2>1, Zenon DEF FileSystems
  <2>3. s.dir = FALSE /\ s.installation = i /\ s.file = Empty /\ s.temps = {} BY <2>1, Zenon
  <2>4. s.dir \in {disk.dir, fs.dir} BY <1>1, <1>8, <2>3, Zenon
  <2> QED BY <1>2, <2>2, <2>3, <2>4, Zenon
<1> QED BY <1>6, <1>7, <1>8, ZenonT(30)

LEMMA EmptyFacts ==
    ASSUME InstallationInv, first # None
    PROVE  \A n \in Files : Empty[n] # first[n]
<1>1. first \in Identities /\ draws \in Nat BY Zenon DEF InstallationInv, TypeOK
<1>2. \A n \in Files : first[n] # Absent BY <1>1, IdentityValues, Zenon
<1>3. \A n \in Files : Empty[n] = Absent BY Zenon DEF Empty, Entries
<1> QED BY <1>2, <1>3, Zenon

LEMMA PowerLossKept ==
    ASSUME InstallationInv, PowerLoss
    PROVE  InstallationInv'
<1>1. PICK s \in Survivors :
         fs' = s /\ disk' = s /\ forgotten' = (forgotten \/ (Forgets(s) /\ ~Remembers(disk)))
  BY Zenon DEF PowerLoss
<1>2. /\ pc' = [p \in Processes |-> "off"] /\ item' = [p \in Processes |-> None]
      /\ bundle' = [p \in Processes |-> None] /\ owner' = None /\ keyLock' = None
      /\ UNCHANGED <<dataDir, vaultDir, draws, first>>
  BY Zenon DEF PowerLoss, dirs
<1>3. /\ s \in FileSystems /\ s.dir \in {disk.dir, fs.dir}
      /\ s.installation \in {disk.installation, Torn, fs.installation}
      /\ s.dir => /\ \A n \in Files : s.file[n] \in {fs.file[n], disk.file[n]}
                  /\ s.temps \in {disk.temps, fs.temps}
      /\ ~s.dir => s.file = Empty /\ s.temps = {}
  BY SurvivorFacts, Zenon
<1>4. TypeOK'
  <2>1. Identities' = Identities /\ FileSystems' = FileSystems
    BY <1>2, Zenon DEF Identities, FileSystems
  <2>2. faults' \in 0..MaxFaults
    BY DEF InstallationInv, TypeOK, PowerLoss, MayFault
  <2>3. pc' \in [Processes -> Labels] BY <1>2, Zenon DEF Labels
  <2>4. /\ item' \in [Processes -> Entries \cup {None}]
        /\ bundle' \in [Processes -> Identities \cup {None}]
    BY <1>2, Zenon
  <2>5. forgotten' \in BOOLEAN BY <1>1, Zenon DEF InstallationInv, TypeOK
  <2> QED BY <1>1, <1>2, <1>3, <2>1, <2>2, <2>3, <2>4, <2>5, Zenon DEF InstallationInv, TypeOK
<1>5. \A p \in Processes : Sound(p)'
  <2> TAKE p \in Processes
  <2>1. pc'[p] = "off" BY <1>2, Zenon
  <2> QED BY <2>1, IdleSound, Zenon
<1>6. LinksAreDurable' /\ DiskIsBehind' BY <1>1, Zenon DEF LinksAreDurable, DiskIsBehind
<1>7. ASSUME first # None PROVE FirstIsKnown'
  <2>1. Intact \/ Lost BY <1>7, Zenon DEF InstallationInv, FirstIsKnown
  <2>2. Intact /\ s.dir => Intact' BY <1>1, <1>2, <1>3, Zenon DEF Intact
  <2>3. Lost /\ s.dir => Lost'
    <3> SUFFICES ASSUME Lost, s.dir PROVE Lost' BY Zenon
    <3>1. \A n \in Files : s.file[n] # first[n] BY <1>3, Zenon DEF Lost
    <3>2. \A t \in s.temps : t \in fs.temps \cup disk.temps BY <1>3, Zenon
    <3> QED BY <1>1, <1>2, <3>1, <3>2, Zenon DEF Lost
  <2>4. ~s.dir => Lost'
    <3> SUFFICES ASSUME ~s.dir PROVE Lost' BY Zenon
    <3>1. s.file = Empty /\ s.temps = {} BY <1>3, Zenon
    <3>2. \A n \in Files : s.file[n] # first[n] BY <1>7, <3>1, EmptyFacts, Zenon
    <3> QED BY <1>1, <1>2, <3>1, <3>2, Zenon DEF Lost
  <2>5. ASSUME ~forgotten'
        PROVE  /\ s.installation \in {None, Torn, ManifestOf(first)}
               /\ s.installation \in {None, Torn} => s.dir /\ Intact'
    <3>1. ~forgotten /\ (~Forgets(s) \/ Remembers(disk)) BY <1>1, <2>5, Zenon
    <3>2. fs.installation \in {None, Torn, ManifestOf(first)}
      BY <1>7, <3>1, Zenon DEF InstallationInv, FirstIsKnown
    <3>3. disk.installation = None \/ disk.installation = fs.installation
      BY Zenon DEF InstallationInv, DiskIsBehind
    <3>4. s.installation \in {None, Torn, ManifestOf(first)} BY <1>3, <3>2, <3>3, Zenon
    <3>5. ASSUME s.installation \in {None, Torn} PROVE s.dir /\ Intact'
      <4>1. CASE ~Forgets(s)
        <5>1. s.dir /\ [n \in Files |-> s.file[n]] = first
          BY <1>7, <3>5, <4>1, Zenon DEF Forgets, Remembers
        <5>2. \A n \in Files : s.file[n] = first[n] BY <5>1, Zenon
        <5> QED BY <1>1, <1>2, <5>1, <5>2, Zenon DEF Intact
      <4>2. CASE Remembers(disk)
        <5>1. disk.dir /\ [n \in Files |-> disk.file[n]] = first BY <4>2, Zenon DEF Remembers
        <5>2. \A n \in Files : disk.file[n] = first[n] BY <5>1, Zenon
        <5>3. "space-id" \in Files BY FilesFacts, Zenon
        <5>4. Intact BY <2>1, <5>2, <5>3, Zenon DEF Lost
        <5>5. fs.dir BY <5>1, Zenon DEF InstallationInv, DiskIsBehind
        <5>6. s.dir BY <1>3, <5>1, <5>5, Zenon
        <5> QED BY <2>2, <5>4, <5>6, Zenon
      <4> QED BY <3>1, <4>1, <4>2, Zenon
    <3> QED BY <3>4, <3>5, Zenon
  <2>6. ManifestOf(first)' = ManifestOf(first) BY <1>2, Zenon DEF ManifestOf
  <2>7. (Intact \/ Lost)' BY <2>1, <2>2, <2>3, <2>4, Zenon
  <2> QED BY <1>1, <2>5, <2>6, <2>7, Zenon DEF FirstIsKnown
<1>8. first = None => FirstIsKnown' BY <1>2, Zenon DEF FirstIsKnown
<1>9. draws' \in Nat BY <1>2, Zenon DEF InstallationInv
<1> QED BY <1>4, <1>5, <1>6, <1>7, <1>8, <1>9, Zenon DEF InstallationInv

LEMMA RemoveIdentityKept ==
    ASSUME InstallationInv, RemoveIdentity
    PROVE  InstallationInv'
<1> DEFINE gone == [fs EXCEPT !.dir = FALSE, !.file = Empty, !.temps = {}]
<1>1. /\ \A p \in Processes : pc[p] \in {"off", "running", "refused", "done"}
      /\ fs' = gone /\ disk' = [disk EXCEPT !.dir = FALSE, !.file = Empty, !.temps = {}]
      /\ forgotten' = (forgotten \/ Forgets(gone))
      /\ UNCHANGED <<dataDir, vaultDir, pc, item, bundle, owner, keyLock, draws, first>>
  BY Zenon DEF RemoveIdentity, dirs, local, locks
<1>2. Empty \in [Entries -> 0..draws] BY StoreTypes DEF Empty, Absent
<1>3. /\ fs' \in FileSystems /\ disk' \in FileSystems
      /\ fs'.dir = FALSE /\ fs'.file = Empty /\ fs'.temps = {}
      /\ disk'.dir = FALSE /\ disk'.file = Empty /\ disk'.temps = {}
      /\ fs'.installation = fs.installation /\ disk'.installation = disk.installation
  BY <1>1, <1>2, StoreTypes, Zenon DEF FileSystems
<1> HIDE DEF gone
<1>4. Identities' = Identities /\ FileSystems' = FileSystems
  BY <1>1, Zenon DEF Identities, FileSystems
<1>5. TypeOK'
  <2>1. faults' \in 0..MaxFaults
    BY DEF InstallationInv, TypeOK, RemoveIdentity, MayFault
  <2>2. forgotten' \in BOOLEAN BY <1>1, Zenon DEF InstallationInv, TypeOK
  <2> QED BY <1>1, <1>3, <1>4, <2>1, <2>2, Zenon DEF InstallationInv, TypeOK
<1>6. ASSUME NEW p \in Processes PROVE Sound(p)'
  <2>1. Sound(p) BY Zenon DEF InstallationInv
  <2>2. /\ pc'[p] \notin {"fresh", "prepare", "existing", "complete", "fill", "clear", "vault",
                          "restrict_vault", "unmark", "cleared"}
        /\ pc'[p] \notin {"publish", "settle", "sync", "unlink", "link"}
        /\ pc'[p] \notin Minting /\ pc'[p] \notin Finishing /\ pc'[p] \notin Publishing
        /\ pc'[p] \notin Locked
    BY <1>1, Zenon DEF Minting, Locked, Publishing, Finishing
  <2>3. ~Loaded(p)' /\ (Used(p)' => Used(p)) BY <1>1, <2>2, Zenon DEF Loaded, Used
  <2>4. HoldsLocks(p)' BY <1>1, <2>1, Zenon DEF Sound, HoldsLocks
  <2>5. Publishes(p)' BY <2>2, Zenon DEF Publishes
  <2>6. Relies(p)'
    <3>1. ASSUME Used(p) PROVE bundle[p] \in Identities /\ \A n \in Files : Empty[n] # bundle[p][n]
      <4>1. bundle[p] \in Identities BY <2>1, <3>1, Zenon DEF Sound, Relies
      <4>2. \A n \in Files : bundle[p][n] # Absent
        BY <4>1, IdentityValues, Zenon DEF InstallationInv
      <4>3. \A n \in Files : Empty[n] = Absent BY Zenon DEF Empty, Entries
      <4> QED BY <4>1, <4>2, <4>3, Zenon
    <3> QED BY <1>1, <1>3, <1>4, <2>3, <3>1, Zenon DEF Relies
  <2>7. Installs(p)' BY <1>1, <2>1, <2>2, <2>3, Zenon DEF Sound, Installs
  <2> QED BY <2>4, <2>5, <2>6, <2>7, Zenon DEF Sound
<1>7. LinksAreDurable' BY <1>3, Zenon DEF LinksAreDurable
<1>8. DiskIsBehind' BY <1>3, Zenon DEF InstallationInv, DiskIsBehind
<1>9. ASSUME first # None PROVE FirstIsKnown'
  <2>1. Lost'
    <3>1. \A n \in Files : Empty[n] # first[n] BY <1>9, EmptyFacts, Zenon
    <3> QED BY <1>1, <1>3, <3>1, Zenon DEF Lost
  <2>2. ASSUME ~forgotten'
        PROVE  fs.installation = ManifestOf(first) /\ fs.installation \notin {None, Torn}
    <3>1. ~forgotten /\ ~Forgets(gone) BY <1>1, <2>2, Zenon
    <3>2. ~Remembers(gone) BY <1>1, <1>3, Zenon DEF Remembers
    <3>3. fs.installation \notin {None, Torn} BY <1>1, <1>3, <1>9, <3>1, <3>2, Zenon DEF Forgets
    <3> QED BY <1>9, <3>1, <3>3, Zenon DEF InstallationInv, FirstIsKnown
  <2>3. ManifestOf(first)' = ManifestOf(first) BY <1>1, Zenon DEF ManifestOf
  <2> QED BY <1>3, <2>1, <2>2, <2>3, Zenon DEF FirstIsKnown
<1>10. first = None => FirstIsKnown' BY <1>1, Zenon DEF FirstIsKnown
<1>11. draws' \in Nat BY <1>1, Zenon DEF InstallationInv
<1> QED BY <1>5, <1>6, <1>7, <1>8, <1>9, <1>10, <1>11, Zenon DEF InstallationInv

-------------------------------------------------------------------------------
(* The theorems.                                                           *)

LEMMA InitHolds == Init => InstallationInv
<1> SUFFICES ASSUME Init PROVE InstallationInv BY Zenon
<1> USE DEF Init
<1>1. draws = 0 /\ 0 \in 0..draws OBVIOUS
<1>2. Empty \in [Entries -> 0..draws] BY <1>1, Zenon DEF Empty, Absent
<1>3. Blank \in FileSystems BY <1>2, Zenon DEF Blank, FileSystems
<1>4. pc \in [Processes -> Labels] BY Zenon DEF Labels
<1>5. TypeOK
  <2>1. faults \in 0..MaxFaults OBVIOUS
  <2> QED BY <1>3, <1>4, <2>1, Zenon DEF TypeOK
<1>6. ASSUME NEW p \in Processes PROVE Sound(p)
  <2>1. pc[p] = "off" BY Zenon
  <2>2. /\ pc[p] \notin {"fresh", "prepare", "complete", "fill", "existing", "clear", "vault",
                         "restrict_vault", "running", "done", "unmark", "cleared"}
        /\ pc[p] \notin Minting /\ pc[p] \notin Finishing /\ pc[p] \notin Publishing
        /\ pc[p] \notin Locked /\ pc[p] \in {"off", "refused", "restrict", "lock"}
        /\ pc[p] \in {"off", "prepare", "done", "refused"} \cup Minting
        /\ pc[p] \notin {"publish", "settle", "sync", "unlink", "link"}
    BY <2>1, Zenon DEF Minting, Locked, Publishing, Finishing
  <2>3. ~Loaded(p) /\ ~Used(p) BY <2>2, Zenon DEF Loaded, Used
  <2>4. HoldsLocks(p) BY <2>2, Zenon DEF HoldsLocks
  <2>5. Publishes(p) BY <2>2, Zenon DEF Publishes
  <2> QED BY <2>2, <2>3, <2>4, <2>5, Zenon DEF Sound, Relies, Installs
<1>7. LinksAreDurable /\ DiskIsBehind /\ FirstIsKnown
  BY Zenon DEF LinksAreDurable, DiskIsBehind, FirstIsKnown
<1> QED BY <1>1, <1>5, <1>6, <1>7 DEF InstallationInv

LEMMA StutterKept == InstallationInv /\ UNCHANGED vars => InstallationInv'
<1> SUFFICES ASSUME InstallationInv, UNCHANGED vars PROVE InstallationInv' BY Zenon
<1>1. UNCHANGED <<dataDir, vaultDir, fs, disk, pc, item, bundle, owner, keyLock, draws, faults,
                  first, forgotten>>
  BY Zenon DEF vars, dirs, store, local, locks, history
<1>2. TypeOK' /\ draws' \in Nat
  BY <1>1, ZenonT(30) DEF InstallationInv, TypeOK, Identities, FileSystems
<1>3. ASSUME NEW p \in Processes PROVE Sound(p)'
  <2>1. Sound(p) BY Zenon DEF InstallationInv
  <2>2. HoldsLocks(p)' BY <1>1, <2>1, Zenon DEF Sound, HoldsLocks
  <2>3. Publishes(p)' BY <1>1, <2>1, Zenon DEF Sound, Publishes, Has, Before
  <2>4. (Loaded(p)' <=> Loaded(p)) /\ (Used(p)' <=> Used(p)) BY <1>1, Zenon DEF Loaded, Used
  <2>5. Relies(p)' BY <1>1, <2>1, <2>4, Zenon DEF Sound, Relies, Identities
  <2>6. Installs(p)' BY <1>1, <2>1, <2>4, Zenon DEF Sound, Installs, ManifestOf
  <2> QED BY <2>2, <2>3, <2>5, <2>6, Zenon DEF Sound
<1>4. LinksAreDurable' /\ DiskIsBehind' /\ FirstIsKnown'
  BY <1>1, Zenon DEF InstallationInv, LinksAreDurable, DiskIsBehind, FirstIsKnown, Intact, Lost,
     ManifestOf
<1> QED BY <1>2, <1>3, <1>4, Zenon DEF InstallationInv

LEMMA NextKept == InstallationInv /\ [Next]_vars => InstallationInv'
<1> SUFFICES ASSUME InstallationInv, [Next]_vars PROVE InstallationInv' BY Zenon
<1>1. ASSUME NEW p \in Processes, Step(p) PROVE InstallationInv'
  BY <1>1, AcquireKept, BeginKept, DirectoryKept, RecoverKept, LoadExistingKept, KeepKept,
     WriteTemporaryKept, LinkKept, SyncLinkKept, UnlinkKept, SettleKept, UnmarkKept, ManifestKept,
     VaultKept, RunKept, Zenon DEF Step, Publish
<1>2. ASSUME NEW p \in Processes, Exit(p) \/ Crash(p) PROVE InstallationInv'
  BY <1>2, ExitKept, Zenon
<1>3. CASE PowerLoss BY <1>3, PowerLossKept, Zenon
<1>4. CASE RemoveIdentity BY <1>4, RemoveIdentityKept, Zenon
<1>5. CASE UNCHANGED vars BY <1>5, StutterKept, Zenon
<1> QED BY <1>1, <1>2, <1>3, <1>4, <1>5, Zenon DEF Next

(* What every reachable state of the installation satisfies: who holds     *)
(* which lock, what each process has published or loaded, and what is left *)
(* of the first identity, across crashes, losses of power and removals of  *)
(* the identity directory.                                                 *)
THEOREM InstallationInvariant == Spec => []InstallationInv
<1>1. Init => InstallationInv BY InitHolds, Zenon
<1>2. InstallationInv /\ [Next]_vars => InstallationInv' BY NextKept, Zenon
<1> QED BY <1>1, <1>2, PTL DEF Spec

(* The shape of the state is kept by every step of main, of the key store  *)
(* and of the faults.                                                      *)
THEOREM InstallationTypes == Spec => []TypeOK
<1>1. InstallationInv => TypeOK BY Zenon DEF InstallationInv
<1> QED BY <1>1, InstallationInvariant, PTL

(* prepare_installation_identity: whatever starts race, crash or lose      *)
(* power, a node runs with the identity the first node ran with, unless no *)
(* trace of that identity was left on disk.                                *)
THEOREM IdentityStaysStable == Spec => []IdentityIsStable
<1>1. InstallationInv => IdentityIsStable
  BY Zenon DEF InstallationInv, Sound, Installs, IdentityIsStable, Processes
<1> QED BY <1>1, InstallationInvariant, PTL

(* publish_new_file and bootstrap: the files of an identity in use are     *)
(* durable, so the next start after a loss of power loads the same one.    *)
THEOREM UsedIdentitiesAreDurable == Spec => []UsedIdentityIsDurable
<1>1. InstallationInv => UsedIdentityIsDurable
  <2> SUFFICES ASSUME InstallationInv, NEW p \in Processes,
                      pc[p] \in {"complete", "fill", "clear", "vault", "running", "done"},
                      fs.dir, Stored = bundle[p]
               PROVE  [n \in Files |-> disk.file[n]] = bundle[p]
    BY Zenon DEF UsedIdentityIsDurable
  <2>1. Used(p) BY Zenon DEF Used, Loaded, Finishing
  <2>2. \A n \in Files : fs.file[n] = bundle[p][n] => disk.file[n] = bundle[p][n]
    BY <2>1, Zenon DEF InstallationInv, Sound, Relies
  <2>3. \A n \in Files : fs.file[n] = bundle[p][n] BY Zenon DEF Stored
  <2>4. \A n \in Files : disk.file[n] = fs.file[n] BY <2>2, <2>3, Zenon
  <2> QED BY <2>4, Zenon DEF Stored
<1> QED BY <1>1, InstallationInvariant, PTL
===============================================================================
