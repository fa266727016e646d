------------------------------- MODULE Desktop -------------------------------
(***************************************************************************)
(* The desktop shell (apps/desktop): one launch after another, each        *)
(* supervising a node process of its own, handing its endpoint to the user *)
(* interface and running a client against it; and the reset of the local   *)
(* installation, which is requested in one launch and applied by the next. *)
(*                                                                         *)
(* Within a launch three tasks run concurrently: the readiness task that   *)
(* waits for the endpoint and starts the client, the task that handles the *)
(* node's exit, and the handler of the application's exit.  A step is what *)
(* a task does under one lock; the client lock is held by the readiness    *)
(* task across several steps.                                              *)
(***************************************************************************)
EXTENDS Naturals, FiniteSets

CONSTANTS
    MaxLaunches,   \* bound on launches of the application
    MaxAttempts    \* CONNECTION_WAIT_ATTEMPTS

ASSUME DesktopAssumption == MaxLaunches \in Nat /\ MaxAttempts \in Nat

Launches == 1..MaxLaunches

VARIABLES
    launch,      \* number of the current or last launch
    app,         \* the application process: off, setup, up or refused
    node,        \* the node process of each launch
    readyFile,   \* node.ready exists; the port in it is fixed (DESKTOP_NODE_BIND)
    marker,      \* the reset marker: absent, torn (no bytes yet) or set
    nodeData,    \* generation of the node directory, 0 when removed
    clientData,  \* generation of the client directory
    child, connection, client, clientError,   \* the fields of NodeSidecar
    clientLock,  \* the readiness task holds the client lock
    childLock,   \* the exit handler holds the child lock
    readiness,   \* where the readiness task is
    attempts,    \* polls it has made
    exitTask,    \* where the task handling the node's exit is
    closing,     \* where the exit handler of the application is
    live         \* history: a client runtime was started and not asked to stop

sidecar == <<child, connection, client, clientError, clientLock, childLock>>
tasks == <<readiness, attempts, exitTask, closing>>
files == <<readyFile, marker, nodeData, clientData>>
desktopVars == <<launch, app, node, files, sidecar, tasks, live>>

DesktopInit ==
    /\ launch = 0 /\ app = "off"
    /\ node = [l \in Launches |-> "none"]
    /\ readyFile = FALSE /\ marker = "absent"
    /\ nodeData = 0 /\ clientData = 0
    /\ child = FALSE /\ connection = FALSE /\ client = FALSE /\ clientError = FALSE
    /\ clientLock = FALSE /\ childLock = FALSE
    /\ readiness = "none" /\ attempts = 0 /\ exitTask = "none" /\ closing = "none"
    /\ live = FALSE

-----------------------------------------------------------------------------
(* setup: the pending reset, the directories, the node process.            *)

Launch ==
    /\ app = "off" /\ launch < MaxLaunches
    /\ launch' = launch + 1
    /\ app' = IF marker = "torn" THEN "refused" ELSE "setup"
    /\ UNCHANGED <<node, files, sidecar, tasks, live>>

\* apply_pending_local_reset removes the two directories, then the marker.
ResetNode ==
    /\ app = "setup" /\ marker = "set" /\ nodeData # 0
    /\ nodeData' = 0
    /\ UNCHANGED <<launch, app, node, readyFile, marker, clientData, sidecar, tasks,
                   live>>

ResetClient ==
    /\ app = "setup" /\ marker = "set" /\ nodeData = 0 /\ clientData # 0
    /\ clientData' = 0
    /\ UNCHANGED <<launch, app, node, readyFile, marker, nodeData, sidecar, tasks,
                   live>>

\* Mutant: the marker is removed before the client's directory.
ResetDone_Early ==
    /\ app = "setup" /\ marker = "set" /\ nodeData = 0
    /\ marker' = "absent"
    /\ UNCHANGED <<launch, app, node, readyFile, nodeData, clientData, sidecar, tasks,
                   live>>

ResetDone ==
    /\ app = "setup" /\ marker = "set" /\ nodeData = 0 /\ clientData = 0
    /\ marker' = "absent"
    /\ UNCHANGED <<launch, app, node, readyFile, nodeData, clientData, sidecar, tasks,
                   live>>

\* The rest of setup: missing directories are created, the ready file of an
\* earlier launch is removed, the node and the two tasks are started.
Spawn ==
    LET created(d) == IF d = 0 THEN launch ELSE d
    IN  /\ app = "setup" /\ marker = "absent"
        /\ app' = "up"
        /\ nodeData' = created(nodeData) /\ clientData' = created(clientData)
        /\ readyFile' = FALSE
        /\ node' = [node EXCEPT ![launch] = "starting"]
        /\ child' = TRUE
        /\ readiness' = "poll" /\ attempts' = 0
        /\ exitTask' = "wait"
        /\ UNCHANGED <<launch, marker, connection, client, clientError, clientLock,
                       childLock, closing, live>>

-----------------------------------------------------------------------------
(* The node process.                                                       *)

\* node.lock admits one node to the data directory.
NodeReady(l) ==
    /\ node[l] = "starting"
    /\ \A m \in Launches : node[m] # "ready"
    /\ node' = [node EXCEPT ![l] = "ready"]
    /\ readyFile' = TRUE
    /\ UNCHANGED <<launch, app, marker, nodeData, clientData, sidecar, tasks, live>>

\* A start that fails (AlreadyRunning among the reasons) and a crash leave the
\* ready file as it is.
NodeDies(l) ==
    /\ node[l] \in {"starting", "ready"}
    /\ node' = [node EXCEPT ![l] = "dead"]
    /\ UNCHANGED <<launch, app, files, sidecar, tasks, live>>

\* shutdown_signal: the node notices that its parent has gone and stops, removing
\* its ready file.
OrphanStops(l) ==
    /\ node[l] = "ready" /\ (l # launch \/ app \in {"off", "refused"})
    /\ node' = [node EXCEPT ![l] = "dead"]
    /\ readyFile' = FALSE
    /\ UNCHANGED <<launch, app, marker, nodeData, clientData, sidecar, tasks, live>>

-----------------------------------------------------------------------------
(* The readiness task.                                                     *)

PollFinds ==
    /\ readiness = "poll" /\ attempts < MaxAttempts /\ readyFile
    /\ connection' = TRUE
    /\ readiness' = "bootstrap"
    /\ UNCHANGED <<launch, app, node, files, child, client, clientError, clientLock,
                   childLock, attempts, exitTask, closing, live>>

PollMisses ==
    /\ readiness = "poll" /\ attempts < MaxAttempts /\ ~readyFile
    /\ attempts' = attempts + 1
    /\ UNCHANGED <<launch, app, node, files, sidecar, readiness, exitTask, closing,
                   live>>

\* Mutant: giving up is not reported.
PollGivesUp_Silent ==
    /\ readiness = "poll" /\ attempts = MaxAttempts
    /\ readiness' = "done"
    /\ UNCHANGED <<launch, app, node, files, sidecar, attempts, exitTask, closing, live>>

PollGivesUp ==
    /\ readiness = "poll" /\ attempts = MaxAttempts
    /\ clientError' = TRUE
    /\ readiness' = "done"
    /\ UNCHANGED <<launch, app, node, files, child, connection, client, clientLock,
                   childLock, attempts, exitTask, closing, live>>

\* bootstrap_supervised returns a runtime: whichever node wrote the ready file,
\* only the one of this launch accepts this launch's token.
Bootstrapped ==
    /\ readiness = "bootstrap" /\ node[launch] = "ready"
    /\ readiness' = "install"
    /\ live' = TRUE
    /\ UNCHANGED <<launch, app, node, files, sidecar, attempts, exitTask, closing>>

BootstrapFails ==
    /\ readiness = "bootstrap"
    /\ clientError' = TRUE
    /\ readiness' = "done"
    /\ UNCHANGED <<launch, app, node, files, child, connection, client, clientLock,
                   childLock, attempts, exitTask, closing, live>>

\* Under the client lock: is the child still there?
CheckChild ==
    /\ readiness = "install" /\ ~clientLock /\ ~childLock
    /\ clientLock' = TRUE
    /\ readiness' = IF child THEN "keep" ELSE "drop"
    /\ UNCHANGED <<launch, app, node, files, child, connection, client, clientError,
                   childLock, attempts, exitTask, closing, live>>

KeepRuntime ==
    /\ readiness = "keep"
    /\ client' = TRUE
    /\ readiness' = "clear"
    /\ UNCHANGED <<launch, app, node, files, child, connection, clientError, clientLock,
                   childLock, attempts, exitTask, closing, live>>

ClearError ==
    /\ readiness = "clear"
    /\ clientError' = FALSE
    /\ clientLock' = FALSE
    /\ readiness' = "done"
    /\ UNCHANGED <<launch, app, node, files, child, connection, client, childLock,
                   attempts, exitTask, closing, live>>

\* Mutant: the runtime is dropped without being asked to stop.
DropRuntime_Running ==
    /\ readiness = "drop"
    /\ clientLock' = FALSE
    /\ readiness' = "done"
    /\ UNCHANGED <<launch, app, node, files, child, connection, client, clientError,
                   childLock, attempts, exitTask, closing, live>>

DropRuntime ==
    /\ readiness = "drop"
    /\ live' = FALSE
    /\ clientLock' = FALSE
    /\ readiness' = "done"
    /\ UNCHANGED <<launch, app, node, files, child, connection, client, clientError,
                   childLock, attempts, exitTask, closing>>

-----------------------------------------------------------------------------
(* The node has exited: CommandEvent::Terminated.                          *)

\* The client is taken out and asked to stop.
ExitTakesClient ==
    /\ exitTask = "wait" /\ node[launch] = "dead" /\ ~clientLock
    /\ live' = IF client THEN FALSE ELSE live
    /\ client' = FALSE
    /\ exitTask' = "connection"
    /\ UNCHANGED <<launch, app, node, files, child, connection, clientError, clientLock,
                   childLock, readiness, attempts, closing>>

ExitClearsConnection ==
    /\ exitTask = "connection"
    /\ connection' = FALSE
    /\ exitTask' = "error"
    /\ UNCHANGED <<launch, app, node, files, child, client, clientError, clientLock,
                   childLock, readiness, attempts, closing, live>>

ExitSetsError ==
    /\ exitTask = "error"
    /\ clientError' = TRUE
    /\ exitTask' = "child"
    /\ UNCHANGED <<launch, app, node, files, child, connection, client, clientLock,
                   childLock, readiness, attempts, closing, live>>

ExitClearsChild ==
    /\ exitTask = "child" /\ ~childLock
    /\ child' = FALSE
    /\ exitTask' = "done"
    /\ UNCHANGED <<launch, app, node, files, connection, client, clientError, clientLock,
                   childLock, readiness, attempts, closing, live>>

-----------------------------------------------------------------------------
(* The application exits: stop_sidecar; or it is killed.                   *)

CloseTakesClient ==
    /\ app = "up" /\ closing = "none" /\ ~clientLock
    /\ live' = IF client THEN FALSE ELSE live
    /\ client' = FALSE
    /\ closing' = "connection"
    /\ UNCHANGED <<launch, app, node, files, child, connection, clientError, clientLock,
                   childLock, readiness, attempts, exitTask>>

CloseClearsHandoff ==
    /\ closing = "connection"
    /\ connection' = FALSE
    /\ readyFile' = FALSE
    /\ closing' = "child"
    /\ UNCHANGED <<launch, app, node, marker, nodeData, clientData, child, client,
                   clientError, clientLock, childLock, readiness, attempts, exitTask, live>>

\* terminate_child runs with the child lock held: SIGTERM, then a kill.
CloseTakesChild ==
    /\ closing = "child" /\ ~childLock
    /\ childLock' = child
    /\ child' = FALSE
    /\ closing' = IF child THEN "terminate" ELSE "exit"
    /\ UNCHANGED <<launch, app, node, files, connection, client, clientError, clientLock,
                   readiness, attempts, exitTask, live>>

CloseTerminates ==
    /\ closing = "terminate"
    /\ node' = [node EXCEPT ![launch] = "dead"]
    /\ readyFile' = IF node[launch] = "ready" THEN FALSE ELSE readyFile
    /\ childLock' = FALSE
    /\ closing' = "exit"
    /\ UNCHANGED <<launch, app, marker, nodeData, clientData, child, connection, client,
                   clientError, clientLock, readiness, attempts, exitTask, live>>

\* The process ends with everything it kept in memory.
Over ==
    /\ app' = "off"
    /\ child' = FALSE /\ connection' = FALSE /\ client' = FALSE /\ clientError' = FALSE
    /\ clientLock' = FALSE /\ childLock' = FALSE
    /\ readiness' = "none" /\ attempts' = 0 /\ exitTask' = "none" /\ closing' = "none"
    /\ live' = FALSE
    /\ UNCHANGED <<launch, node, readyFile, nodeData, clientData>>

AppExit == (closing = "exit" \/ app = "refused") /\ Over /\ UNCHANGED marker

\* The application is killed at any point, writing the reset marker included.
Kill ==
    /\ app \in {"setup", "up"}
    /\ Over
    /\ UNCHANGED marker

-----------------------------------------------------------------------------
(* client_reset_local_installation: publish_reset_marker creates the file, *)
(* writes it and synchronizes it; then the application restarts.           *)

CreateMarker ==
    /\ app = "up" /\ closing = "none" /\ marker = "absent"
    /\ marker' = "torn"
    /\ UNCHANGED <<launch, app, node, readyFile, nodeData, clientData, sidecar, tasks, live>>

WriteMarker ==
    /\ app = "up" /\ marker = "torn"
    /\ marker' = "set"
    /\ UNCHANGED <<launch, app, node, readyFile, nodeData, clientData, sidecar, tasks, live>>

\* What client_status shows.
Status == IF client THEN "ready" ELSE IF clientError THEN "failed" ELSE "starting"

-----------------------------------------------------------------------------
Setup == ResetNode \/ ResetClient \/ ResetDone \/ Spawn
Readiness == PollFinds \/ PollMisses \/ PollGivesUp \/ Bootstrapped \/ BootstrapFails
             \/ CheckChild \/ KeepRuntime \/ ClearError \/ DropRuntime
NodeExit == ExitTakesClient \/ ExitClearsConnection \/ ExitSetsError \/ ExitClearsChild
Close == CloseClearsHandoff \/ CloseTakesChild \/ CloseTerminates \/ AppExit

DesktopNext ==
    \/ Launch \/ Setup \/ Readiness \/ NodeExit \/ CloseTakesClient \/ Close \/ Kill
    \/ CreateMarker \/ WriteMarker
    \/ \E l \in Launches : NodeReady(l) \/ NodeDies(l) \/ OrphanStops(l)

DesktopSpec == DesktopInit /\ [][DesktopNext]_desktopVars

\* The tasks of a running application are scheduled, and a command in progress goes
\* on; nobody has to launch the application again or to close it.
FairDesktopSpec ==
    /\ DesktopSpec
    /\ WF_desktopVars(Setup) /\ WF_desktopVars(Readiness) /\ WF_desktopVars(NodeExit)
    /\ WF_desktopVars(Close) /\ WF_desktopVars(WriteMarker)

-----------------------------------------------------------------------------
(* Properties.                                                             *)

(* The shape of the state. *)
DesktopTypeOK ==
    /\ launch \in 0..MaxLaunches /\ app \in {"off", "setup", "up", "refused"}
    /\ node \in [Launches -> {"none", "starting", "ready", "dead"}]
    /\ marker \in {"absent", "torn", "set"}
    /\ {nodeData, clientData} \subseteq 0..MaxLaunches
    /\ {readyFile, child, connection, client, clientError, clientLock, childLock, live}
         \subseteq BOOLEAN
    /\ readiness \in {"none", "poll", "bootstrap", "install", "keep", "clear", "drop", "done"}
    /\ attempts \in 0..MaxAttempts
    /\ exitTask \in {"none", "wait", "connection", "error", "child", "done"}
    /\ closing \in {"none", "connection", "child", "terminate", "exit"}

(* No launch runs a new node on the client data of the installation that was *)
(* reset, or the other way round, wherever the launch applying the reset was *)
(* killed: apply_pending_local_reset removes the marker last.                *)
ResetIsWhole == app = "up" => nodeData = clientData

(* A client runtime is in the slot where the exit handlers find it, or still *)
(* in the hands of the readiness task, or has been asked to stop: none is    *)
(* left working for a shell that no longer knows of it.                      *)
RuntimesAreTracked == live => client \/ readiness \in {"install", "keep", "drop"}

(* client_status does not say "starting" for ever, and the callers who wait  *)
(* for the client or an error get one of the two: the tasks never wait for   *)
(* each other's locks and never end without an outcome.  When the node exits *)
(* after the readiness task has finished, the client is removed and the      *)
(* error shown, and both stay so.                                            *)
OutcomeIsShown ==
    /\ app = "up" ~> (Status # "starting" \/ app # "up")
    /\ [](readiness = "done" /\ exitTask = "wait" /\ node[launch] = "dead" =>
          <>(app # "up" \/ closing # "none" \/ (exitTask = "done" /\ Status = "failed")))
=============================================================================
