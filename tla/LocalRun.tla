------------------------------- MODULE LocalRun -------------------------------
(***************************************************************************)
(* An attached Docker run (local_execution.py, local_control.py,           *)
(* docker_lifecycle.py, engines/docker.py).  The owner process runs Harbor *)
(* in an event loop.  Other commands ask it to stop, report on it and      *)
(* remove what it left; they meet it only in files of the output directory *)
(* and in the lock of execution.lock, which a killed owner loses.          *)
(*                                                                         *)
(* Compose clients are children of the owner that can outlive it; the      *)
(* Docker daemon can go on creating a container for a client that was      *)
(* killed ("pending").  After an orderly stop of Harbor a client may still *)
(* run, but nothing is pending: Harbor waits for the commands it started.  *)
(***************************************************************************)
EXTENDS RunNamespace

CONSTANTS Canceller,   \* cancel commands
          Observer,    \* status commands
          Container    \* containers of the run

Command == Canceller \cup Observer

ASSUME LocalAssumption ==
    /\ Canceller \cap Observer = {}
    /\ {NoProc, Owner} \cap Command = {}
    /\ Namer \cap Command = {}

VARIABLES owner,       \* pc of the owner and the flags of OwnerCancellation
          lock,        \* who holds the lock of execution.lock
          files,       \* records in the output directory
          execution,   \* execution.json, the owner's own observation
          result,      \* Harbor's result.json
          client,      \* the Compose client: "none", "up" or "pending"
          containers,  \* containers that exist
          command,     \* pc and locals of cancel and status
          turn         \* who holds the lock that cancels take in turn

Idle == [pc |-> "idle", remove |-> FALSE, round |-> 0, listed |-> {},
         closed |-> FALSE, clean |-> FALSE, state |-> "none"]

outputVars == <<lock, files, execution, result, client, containers>>
localVars  == <<owner, outputVars, command, turn>>
vars       == <<namespaceVars, localVars>>

LocalInit ==
    /\ owner = [pc |-> "new", signalled |-> FALSE, cancelled |-> FALSE]
    /\ lock = NoProc /\ files = {} /\ execution = "none" /\ result = "none"
    /\ client = "none" /\ containers = {} /\ turn = NoProc
    /\ command = [p \in Command \cup {Owner} |-> Idle]

(* The phases in which Harbor's coroutine runs: OwnerCancellation._active. *)
Active == {"working", "teardown"}

-----------------------------------------------------------------------------
(* The owner, up to Harbor (run_prepared_local). *)

Gone == [pc |-> "gone", signalled |-> FALSE, cancelled |-> FALSE]

OwnerAt(l) == owner.pc = l
OwnerTo(l) == owner' = IF l = "gone" THEN Gone ELSE [owner EXCEPT !.pc = l]

(* The id is checked once before the slow validation of the tasks.         *)
OwnerChecks ==
    /\ OwnerAt("new") /\ OwnerTo("checked")
    /\ held = NoProc /\ Admits(DockerRequest, TRUE, FALSE, FALSE)
    /\ UNCHANGED <<namespaceVars, outputVars, command, turn>>

(* It is checked again under the lock, which covers the creation of the    *)
(* output directory and the publication of the reference.                  *)
OwnerReserves ==
    /\ OwnerAt("checked") /\ OwnerTo("reserved")
    /\ Acquire(Owner) /\ Admits(DockerRequest, TRUE, FALSE, FALSE)
    /\ UNCHANGED <<reference, receipt, admitted, claimed, spawned, namer,
                   outputVars, command, turn>>

(* execution_owner: the lock file is new and locked by its creator.        *)
OwnerLocks ==
    /\ OwnerAt("reserved") /\ OwnerTo("locked")
    /\ lock = NoProc /\ lock' = Owner
    /\ UNCHANGED <<namespaceVars, files, execution, result, client, containers,
                   command, turn>>

(* initialize_owner, then RunReferenceStore.create ends the admission.     *)
OwnerInitializes ==
    /\ OwnerAt("locked") /\ OwnerTo("initialized")
    /\ files' = files \cup {"control"}
    /\ UNCHANGED <<namespaceVars, lock, execution, result, client, containers,
                   command, turn>>

OwnerPublishes ==
    /\ OwnerAt("initialized") /\ OwnerTo("published")
    /\ CreateReference(DockerRequest) /\ Release(Owner)
    /\ UNCHANGED <<receipt, admitted, claimed, spawned, namer,
                   outputVars, command, turn>>

OwnerRecordsRunning ==
    /\ OwnerAt("published") /\ OwnerTo("prepared")
    /\ execution' = "running"
    /\ UNCHANGED <<namespaceVars, lock, files, result, client, containers,
                   command, turn>>

-----------------------------------------------------------------------------
(* OwnerCancellation: one asynchronous cancellation for Ctrl-C and for     *)
(* published requests.                                                     *)

Asked == owner.signalled \/ "request" \in files

(* run, _run: the handler is installed and the task is active.  A request  *)
(* that is already there keeps the operation from starting.  bind_docker   *)
(* precedes Job.create, and nothing can cancel the task in between.        *)
LoopStarts ==
    /\ OwnerAt("prepared")
    /\ IF Asked
       THEN /\ owner' = [owner EXCEPT !.pc = "interrupted", !.cancelled = TRUE]
            /\ files' \in {files, files \cup {"observed"}}
       ELSE \/ OwnerTo("working") /\ files' = files \cup {"binding"}
            \/ OwnerTo("failed") /\ UNCHANGED files
    /\ UNCHANGED <<namespaceVars, lock, execution, result, client, containers,
                   command, turn>>

(* Faulty variant of CancelOnce: only Ctrl-C reaches the task. *)
CancelOnSignal ==
    /\ OwnerAt("working") /\ owner.signalled
    /\ owner' = [owner EXCEPT !.cancelled = TRUE, !.pc = "teardown"]
    /\ files' \in {files, files \cup {"observed"}}
    /\ UNCHANGED <<namespaceVars, lock, execution, result, client, containers,
                   command, turn>>

(* _watch and the callback of the signal handler: the first of them        *)
(* cancels the task, and no other disturbs the teardown.                   *)
CancelOnce ==
    /\ OwnerAt("working") /\ Asked
    /\ owner' = [owner EXCEPT !.cancelled = TRUE, !.pc = "teardown"]
    /\ files' \in {files, files \cup {"observed"}}
    /\ UNCHANGED <<namespaceVars, lock, execution, result, client, containers,
                   command, turn>>

(* Ctrl-C.  In the loop it only asks; elsewhere it interrupts the owner    *)
(* wherever it is, also while it records an end or unwinds.  A step that   *)
(* raises ends the admission and unwinds in the same way.                  *)
InterruptedAt(l) ==
    CASE l \in {"reserved", "locked", "initialized", "published", "interrupted"}
             -> "unwinding"
      [] l \in {"prepared", "finished", "failed"} -> "interrupted"
      [] l \in {"succeeding", "closing", "unwinding", "unlocking"} -> "unlocking"
      [] OTHER -> "gone"

Signal ==
    /\ owner.pc # "gone"
    /\ IF owner.pc \in Active
       THEN owner' = [owner EXCEPT !.signalled = TRUE] /\ UNCHANGED <<command, lock>>
       ELSE /\ OwnerTo(InterruptedAt(owner.pc))
            /\ command' = [command EXCEPT ![Owner] = Idle]
            /\ lock' = IF owner.pc = "reporting" /\ lock = Owner THEN NoProc ELSE lock
    /\ held' = IF held = Owner THEN NoProc ELSE held
    /\ UNCHANGED <<reference, receipt, admitted, claimed, spawned, namer,
                   files, execution, result, client, containers, turn>>

(* The owner is killed.  Its locks are free, and nothing else is tidied.   *)
OwnerDies ==
    /\ owner.pc # "gone" /\ OwnerTo("gone")
    /\ lock' = IF lock = Owner THEN NoProc ELSE lock
    /\ held' = IF held = Owner THEN NoProc ELSE held
    /\ command' = [command EXCEPT ![Owner] = Idle]
    /\ UNCHANGED <<reference, receipt, admitted, claimed, spawned, namer,
                   files, execution, result, client, containers, turn>>

-----------------------------------------------------------------------------
(* Harbor and Docker, as the owner uses them. *)

ComposeStarts ==
    /\ owner.pc \in Active /\ client = "none" /\ client' = "up"
    /\ UNCHANGED <<namespaceVars, owner, lock, files, execution, result,
                   containers, command, turn>>

ComposeCreates ==
    /\ client # "none"
    /\ \E k \in Container \ containers : containers' = containers \cup {k}
    /\ UNCHANGED <<namespaceVars, owner, lock, files, execution, result, client,
                   command, turn>>

(* A client may be killed with its owner; its request may survive it.      *)
ComposeEnds ==
    /\ client # "none"
    /\ \/ client' = "none"
       \/ client = "up" /\ OwnerAt("gone") /\ "stopped" \notin files
            /\ client' = "pending"
    /\ UNCHANGED <<namespaceVars, owner, lock, files, execution, result,
                   containers, command, turn>>

(* Harbor returns or raises after a teardown that may be incomplete; the   *)
(* own cancellation is reported as an interrupt.                           *)
HarborEnds ==
    /\ owner.pc \in Active
    /\ containers' \in SUBSET containers
    /\ \/ OwnerAt("working") /\ OwnerTo("finished") /\ result' = "finished"
       \/ OwnerTo("failed") /\ result' \in {"none", "finished", "invalid"}
       \/ /\ owner.cancelled /\ OwnerTo("interrupted")
          /\ result' \in {"none", "finished", "invalid"}
    /\ UNCHANGED <<namespaceVars, lock, files, execution, client, command, turn>>

-----------------------------------------------------------------------------
(* The owner, after Harbor. *)

(* Its last observation; a summary or a record that cannot be      *)
(* written makes it "failed".                                              *)
OwnerRecordsEnd ==
    /\ \/ /\ OwnerAt("finished")
          /\ \/ OwnerTo("succeeding") /\ execution' = "terminal"
             \/ OwnerTo("failed") /\ UNCHANGED execution
       \/ OwnerAt("failed") /\ OwnerTo("unwinding") /\ execution' \in {execution, "failed"}
       \/ OwnerAt("interrupted") /\ OwnerTo("unwinding")
            /\ execution' \in {execution, "interrupted"}
    /\ UNCHANGED <<namespaceVars, lock, files, result, client, containers,
                   command, turn>>

(* execution_owner, on the way out: only an orderly unwinding writes the   *)
(* witness, and only then the lock is given up.                            *)
OwnerWitnesses ==
    /\ owner.pc \in {"succeeding", "unwinding"}
    /\ OwnerTo(IF OwnerAt("succeeding") THEN "closing" ELSE "unlocking")
    /\ files' \in IF "control" \in files /\ lock = Owner
                  THEN {files, files \cup {"stopped"}} ELSE {files}
    /\ UNCHANGED <<namespaceVars, lock, execution, result, client, containers,
                   command, turn>>

OwnerUnlocks ==
    /\ owner.pc \in {"closing", "unlocking"}
    /\ \/ OwnerAt("closing") /\ OwnerTo("reporting")
          /\ command' = [command EXCEPT ![Owner] = [Idle EXCEPT !.pc = "clean"]]
       \/ OwnerAt("unlocking") /\ OwnerTo("gone") /\ UNCHANGED command
    /\ lock' = IF lock = Owner THEN NoProc ELSE lock
    /\ UNCHANGED <<namespaceVars, files, execution, result, client, containers, turn>>

OwnerReported ==
    /\ OwnerAt("reporting") /\ command[Owner].pc = "idle" /\ OwnerTo("gone")
    /\ UNCHANGED <<namespaceVars, outputVars, command, turn>>

OwnerStep ==
    \/ OwnerChecks \/ OwnerReserves \/ OwnerLocks \/ OwnerInitializes
    \/ OwnerPublishes \/ OwnerRecordsRunning \/ LoopStarts \/ CancelOnce
    \/ OwnerRecordsEnd \/ OwnerWitnesses \/ OwnerUnlocks \/ OwnerReported

-----------------------------------------------------------------------------
(* The commands (DockerEngine.cancel, status).  Their lock probes are      *)
(* exclusive locks themselves, so a command may take another command for   *)
(* the owner; it never takes a live owner for a dead one.                  *)

Probing == {"ask", "queue", "wait", "probe"}
Busy(p) == lock # NoProc \/ \E q \in Command \ {p} : command[q].pc \in Probing
Idling  == lock = NoProc

Local(p, l)   == command[p].pc = l
Becomes(p, c) == command' = [command EXCEPT ![p] = c]
Goes(p, l)    == Becomes(p, [command[p] EXCEPT !.pc = l])

Intent == "request" \in files \/ "observed" \in files

Quiet == UNCHANGED <<namespaceVars, owner, execution, result, client>>

(* cancel: the identities are verified, and the owner is asked in turn.    *)
CancelBegins(p) ==
    /\ p \in Canceller /\ Local(p, "idle")
    /\ reference = Bound(DockerRequest) /\ turn = NoProc /\ turn' = p
    /\ Becomes(p, [Idle EXCEPT !.pc = "ask", !.remove = TRUE])
    /\ Quiet /\ UNCHANGED <<lock, files, containers>>

CancelAsks(p) ==
    /\ Local(p, "ask")
    /\ \/ Busy(p) /\ Goes(p, "queue") /\ UNCHANGED turn
       \/ Idling /\ Goes(p, "wait") /\ turn' = NoProc
    /\ Quiet /\ UNCHANGED <<lock, files, containers>>

(* _queue_cancellation: the process is the recorded one, still active, and *)
(* nobody has asked yet.  A vanished process ends the question or raises.  *)
CancelQueues(p) ==
    /\ Local(p, "queue")
    /\ \/ /\ ~OwnerAt("gone") /\ Busy(p) /\ "request" \notin files
          /\ Goes(p, "publish") /\ UNCHANGED turn
       \/ /\ ~OwnerAt("gone") /\ Busy(p) => "request" \in files
          /\ OwnerAt("gone") => Idling
          /\ Goes(p, "wait") /\ turn' = NoProc
    /\ Quiet /\ UNCHANGED <<lock, files, containers>>

CancelPublishes(p) ==
    /\ Local(p, "publish") /\ Goes(p, "wait")
    /\ files' = files \cup {"request"} /\ turn' = NoProc
    /\ Quiet /\ UNCHANGED <<lock, containers>>

(* It waits for the owner up to a bound, then reclaims what is left.       *)
CancelWaits(p) ==
    /\ Local(p, "wait") /\ turn = NoProc /\ turn' = p
    /\ Goes(p, "clean")
    /\ Quiet /\ UNCHANGED <<lock, files, containers>>

StatusBegins(p) ==
    /\ p \in Observer /\ Local(p, "idle") /\ reference = Bound(DockerRequest)
    /\ Becomes(p, [Idle EXCEPT !.pc = "read"])
    /\ Quiet /\ UNCHANGED <<lock, files, containers, turn>>

-----------------------------------------------------------------------------
(* cleanup_containers and observe_cleanup. *)

(* A cancel removes first and keeps that verdict; the observation inside   *)
(* its report is not used.                                                 *)
Verdict(p, v) ==
    Becomes(p, [Idle EXCEPT
        !.pc = IF command[p].remove THEN "read" ELSE "report",
        !.clean = IF command[p].remove \/ p \notin Canceller
                  THEN v ELSE command[p].clean,
        !.state = command[p].state])

Leaves(p, v) == Verdict(p, v) /\ lock' = IF lock = p THEN NoProc ELSE lock

(* _stopped_owner: another process has the lock. *)
CleanRefused(p) ==
    /\ Local(p, "clean") /\ Busy(p) /\ Verdict(p, FALSE)
    /\ Quiet /\ UNCHANGED <<lock, files, containers, turn>>

(* What the cleanup of p may begin on: a run that stopped in order, or any *)
(* run whose lock is free when it may remove.                              *)
InScope(remove) ==
    /\ client # "up" /\ "binding" \in files
    /\ remove \/ "stopped" \in files

Enter(p) ==
    /\ IF InScope(command[p].remove)
       THEN /\ lock' = p
            /\ Becomes(p, [command[p] EXCEPT !.pc = "scan",
                                             !.closed = "stopped" \in files])
       ELSE Verdict(p, FALSE) /\ UNCHANGED lock
    /\ Quiet /\ UNCHANGED <<files, containers, turn>>

(* Faulty variant of CleanEnters: the lock of the owner is not asked for.  *)
CleanEntersUnlocked(p) == Local(p, "clean") /\ Enter(p)

(* Faulty variant of CleanEnters: without the witness nothing is removed.  *)
CleanEntersWitnessed(p) ==
    /\ Local(p, "clean") /\ Idling
    /\ IF "stopped" \in files
       THEN Enter(p)
       ELSE /\ Verdict(p, FALSE)
            /\ Quiet /\ UNCHANGED <<lock, files, containers, turn>>

CleanEnters(p) == Local(p, "clean") /\ Idling /\ Enter(p)

NextRound(p) ==
    /\ Becomes(p, [command[p] EXCEPT !.pc = "scan", !.round = @ + 1])
    /\ UNCHANGED lock

(* Faulty variant of Proven: empty inventories are enough. *)
ProvenByInventory(p) == client # "up"

(* Two empty inventories prove the cleanup of a run that stopped in order. *)
Proven(p) == command[p].closed /\ client # "up"

(* One inventory; the third visit is the last look for a client.           *)
CleanScans(p) ==
    /\ Local(p, "scan")
    /\ CASE command[p].round = 2 -> Leaves(p, Proven(p))
         [] command[p].round < 2 /\ client = "up" -> Leaves(p, FALSE)
         [] command[p].round < 2 /\ client # "up" /\ containers = {} -> NextRound(p)
         [] OTHER ->
              IF command[p].remove
              THEN /\ Becomes(p, [command[p] EXCEPT !.pc = "remove", !.listed = containers])
                   /\ UNCHANGED lock
              ELSE Leaves(p, FALSE)
    /\ Quiet /\ UNCHANGED <<files, containers, turn>>

(* One listed container, or the inventory that follows the last of them.   *)
CleanRemoves(p) ==
    /\ Local(p, "remove")
    /\ IF command[p].listed = {}
       THEN /\ IF containers = {} THEN NextRound(p) ELSE Leaves(p, FALSE)
            /\ UNCHANGED containers
       ELSE IF client = "up" THEN Leaves(p, FALSE) /\ UNCHANGED containers
       ELSE \E k \in command[p].listed :
              /\ containers' = containers \ {k}
              /\ Becomes(p, [command[p] EXCEPT !.listed = @ \ {k}])
              /\ UNCHANGED lock
    /\ Quiet /\ UNCHANGED <<files, turn>>

(* observe_cleanup: an inspection that fails proves nothing. *)
ObservationFails(p) ==
    /\ command[p].pc \in {"clean", "scan"} /\ ~command[p].remove
    /\ Leaves(p, FALSE)
    /\ Quiet /\ UNCHANGED <<files, containers, turn>>

CleanStep(p) ==
    CleanRefused(p) \/ CleanEnters(p) \/ CleanScans(p) \/ CleanRemoves(p)
        \/ ObservationFails(p)

-----------------------------------------------------------------------------
(* DockerEngine.status, by itself and at the end of a cancel. *)

Learns(p, l, s) == Becomes(p, [command[p] EXCEPT !.pc = l, !.state = s])

(* _native_result.  An invalid one is not believed while the owner may     *)
(* still be writing it; afterwards status raises, and cancel goes on.      *)
ReadResult(p) ==
    /\ Local(p, "read")
    /\ CASE result = "finished" -> Learns(p, "clean", "terminal")
         [] result = "none"     -> Goes(p, "execution")
         [] result = "invalid"  ->
              \/ Busy(p) /\ Goes(p, "execution")
              \/ Idling /\ p \in Canceller /\ Learns(p, "report", "unknown")
              \/ Idling /\ p \in Observer /\ Becomes(p, Idle)
    /\ Quiet /\ UNCHANGED <<lock, files, containers, turn>>

ReadExecution(p) ==
    /\ Local(p, "execution")
    /\ Learns(p, "probe", IF execution = "none" THEN "unknown" ELSE execution)
    /\ Quiet /\ UNCHANGED <<lock, files, containers, turn>>

ProbeOwner(p) ==
    /\ Local(p, "probe")
    /\ \/ Busy(p) /\ Learns(p, "clean", IF Intent THEN "cancelling" ELSE "running")
       \/ Idling /\ Learns(p, "clean", IF command[p].state \in {"running", "terminal"}
                                       THEN "unknown" ELSE command[p].state)
    /\ Quiet /\ UNCHANGED <<lock, files, containers, turn>>

(* Faulty variant of CancelState: the verdict of the cleanup is not asked. *)
CancelStateUnproven(p) ==
    IF command[p].state # "terminal" /\ Intent THEN "cancelled" ELSE command[p].state

(* What a cancel says of a run without a native result. *)
CancelState(p) ==
    IF command[p].state = "terminal" \/ ~Intent THEN command[p].state
    ELSE IF command[p].clean THEN "cancelled" ELSE "cancelling"

(* The report stays with the command, which is idle until it is run again. *)
ReportIs(p) ==
    /\ Local(p, "report")
    /\ Learns(p, "idle", IF p \in Canceller THEN CancelState(p) ELSE command[p].state)
    /\ turn' = IF turn = p THEN NoProc ELSE turn
    /\ Quiet /\ UNCHANGED <<lock, files, containers>>

(* A command raises or dies; the locks it had are free. *)
CommandFails(p) ==
    /\ p \in Command /\ ~Local(p, "idle") /\ Becomes(p, Idle)
    /\ lock' = IF lock = p THEN NoProc ELSE lock
    /\ turn' = IF turn = p THEN NoProc ELSE turn
    /\ Quiet /\ UNCHANGED <<files, containers>>

CancelStep(p) ==
    CancelBegins(p) \/ CancelAsks(p) \/ CancelQueues(p) \/ CancelPublishes(p)
        \/ CancelWaits(p)

ReportStep(p) ==
    CleanStep(p) \/ ReadResult(p) \/ ReadExecution(p) \/ ProbeOwner(p) \/ ReportIs(p)

-----------------------------------------------------------------------------
NamespaceNext ==
    /\ (\E p \in Namer : NamerStep(p)) \/ AdmissionMoves \/ FileDamaged
    /\ UNCHANGED localVars

LocalNext ==
    \/ OwnerStep \/ Signal \/ OwnerDies
    \/ ComposeStarts \/ ComposeCreates \/ ComposeEnds \/ HarborEnds
    \/ \E p \in Command \cup {Owner} :
          CancelStep(p) \/ StatusBegins(p) \/ ReportStep(p) \/ CommandFails(p)

Init == NamespaceInit /\ LocalInit
Next == NamespaceNext \/ LocalNext

(* The owner runs on, except that nothing makes Harbor finish its work; a  *)
(* teardown and a client of a dead owner end; a cancel is repeated for as  *)
(* long as there is something to reclaim.                                  *)
Fairness ==
    /\ WF_vars(OwnerStep) /\ WF_vars(OwnerAt("teardown") /\ HarborEnds)
    /\ WF_vars(OwnerAt("gone") /\ ComposeEnds)
    /\ \A p \in Canceller : WF_vars(CancelStep(p))
    /\ \A p \in Command \cup {Owner} : WF_vars(ReportStep(p))

Spec == Init /\ [][Next]_vars /\ Fairness

-----------------------------------------------------------------------------
(* Properties. *)

TypeOK ==
    /\ NamespaceTypeOK
    /\ owner.signalled \in BOOLEAN /\ owner.cancelled \in BOOLEAN
    /\ lock \in Command \cup {Owner, NoProc}
    /\ files \subseteq {"control", "binding", "stopped", "request", "observed"}
    /\ execution \in {"none", "running", "terminal", "failed", "interrupted"}
    /\ result \in {"none", "finished", "invalid"}
    /\ client \in {"none", "up", "pending"} /\ containers \subseteq Container
    /\ turn \in Canceller \cup {NoProc}
    /\ \A p \in Command \cup {Owner} :
          command[p].round \in 0..2 /\ command[p].listed \subseteq Container

(* No command removes a container while Harbor can still create children   *)
(* or tears its own down (cleanup_containers, "No container is touched     *)
(* while Harbor may still create children").                               *)
NoRemovalWhileWorking ==
    [][\A p \in Command : Local(p, "remove") /\ containers' # containers
                            /\ command[p].listed # command'[p].listed =>
          owner.pc \notin Active]_vars

(* A report that cleanup is complete stays true: no container of the run   *)
(* exists and none can appear, although the witness, the lock, the client  *)
(* and the daemon were looked at one after the other.                      *)
CompleteIsFinal ==
    \A p \in Command \cup {Owner} :
        Local(p, "idle") /\ command[p].clean => containers = {} /\ client = "none"

(* A run reported "cancelled" has no native result, now or later, and      *)
(* nothing of it is left (DockerEngine.cancel).                            *)
CancelledIsFinal ==
    \A p \in Canceller :
        Local(p, "idle") /\ command[p].state = "cancelled" =>
            result # "finished" /\ containers = {}

(* A published request stops the owner, at whatever step it finds it.      *)
RequestStopsOwner == "request" \in files ~> OwnerAt("gone")

(* Whatever a dead owner left is removed by repeating cancel, once status  *)
(* commands no longer take the lock and no command fails.                  *)
Calm == <>[][\A p \in Command : ~(StatusBegins(p) \/ CommandFails(p))]_vars

ContainersReclaimed == Calm => (OwnerAt("gone") ~> containers = {})
=============================================================================
