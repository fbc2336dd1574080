---------------------------- MODULE CalibrationRun ----------------------------
(***************************************************************************)
(* One paid calibration attempt: the runner (_run_attempt and main, with   *)
(* DockerBrokerSidecar) and its broker.  The runner starts the broker,     *)
(* opens it once Harbor's main container exists, waits for the command     *)
(* line, and states what the attempt spent.  It learns about the broker    *)
(* only from ledger.json and speaks to it only through the control pipe,   *)
(* whose end also tells the broker that its parent is gone.                *)
(***************************************************************************)
EXTENDS CalibrationBroker

VARIABLES pc,          \* the phase of the attempt
          started,     \* the phase broker_activation was started
          confirmed,   \* activation was seen in ledger.json
          drained,     \* the drain was seen in ledger.json
          document,    \* the ledger document the runner holds
          basis,       \* what held when that document was read (history)
          account      \* the attempt record's "spend"

runnerVars == <<pc, started, confirmed, drained, document, basis, account>>
vars       == <<brokerVars, runnerVars>>

Zero == [authority |-> "preactivation_zero", exposure |-> 0]

(* A document speaks for the requests sent before it was read, and for all *)
(* requests if no more could be sent: the broker was drained or gone.      *)
NoBasis == [sent |-> Request, open |-> TRUE]
Basis   == [sent |-> forwarded, open |-> Alive /\ ~file.draining]

Init ==
    /\ BrokerInit
    /\ pc = "start" /\ started = FALSE /\ confirmed = FALSE /\ drained = FALSE
    /\ document = NoFile /\ basis = NoBasis /\ account = Zero

Final == {"failed", "succeeded", "marked", "gone"}

Phase(from, to) == pc = from /\ pc' = to

(* What a phase of the runner leaves alone. *)
Local  == UNCHANGED <<brokerVars, started, confirmed, drained, document, basis, account>>
Engine == <<ledgerVars, gateVars, askVars, fileVars, faults>>

-----------------------------------------------------------------------------
(* Up to activation. *)

(* sidecar_start: the process writes ledger.json before it serves.         *)
StartSidecar ==
    /\ Phase("start", "starting")
    /\ proc' = "up" /\ reading' = TRUE /\ pipeOpen' = TRUE
    /\ Owe(Main)
    /\ UNCHANGED <<ledgerVars, gateVars, askVars, stopping, pipe, beating, agent,
                   faults, started, confirmed, drained, document, basis, account>>

SidecarStarted == Phase("starting", "probing") /\ file.exists /\ Local

(* topology_probe, from a container of its own.                            *)
Probe ==
    /\ Phase("probing", "probed") /\ ConsumeProbe
    /\ UNCHANGED <<started, confirmed, drained, document, basis, account>>

ProbeAnswered ==
    /\ Phase("probed", "spawned") /\ Prober \notin owes
    /\ file.probed /\ file.count = 0 /\ Local

(* cli_spawn, main_discovery, main_config_validation.                      *)
MainDiscovered ==
    /\ Phase("spawned", "inspected") /\ agent' = TRUE
    /\ UNCHANGED <<Engine, procVars, pipe, pipeOpen, beating, started, confirmed,
                   drained, document, basis, account>>

(* Faulty variant of Activate: the phase is marked when it has succeeded.  *)
ActivateUnmarked ==
    /\ Phase("inspected", "activating") /\ UNCHANGED started
    /\ Alive /\ pipe' = "activate"
    /\ UNCHANGED <<Engine, procVars, pipeOpen, beating, agent, confirmed, drained,
                   document, basis, account>>

(* broker_activation: the message is sent, then ledger.json is polled.     *)
Activate ==
    /\ Phase("inspected", "activating") /\ started' = TRUE
    /\ Alive /\ pipe' = "activate"
    /\ UNCHANGED <<Engine, procVars, pipeOpen, beating, agent, confirmed, drained,
                   document, basis, account>>

Activated ==
    /\ Phase("activating", "working") /\ file.active /\ file.activated
    /\ confirmed' = TRUE /\ beating' = TRUE
    /\ UNCHANGED <<Engine, procVars, pipe, pipeOpen, agent, started, drained,
                   document, basis, account>>

(* cli_wait: Harbor removed the main container before the command ended.   *)
CommandEnds ==
    /\ Phase("working", "reading") /\ agent' = FALSE
    /\ UNCHANGED <<Engine, procVars, pipe, pipeOpen, beating, started, confirmed,
                   drained, document, basis, account>>

-----------------------------------------------------------------------------
(* A phase can fail at any time, by timeout or error.  From cli_spawn to   *)
(* cli_wait the attempt's containers are removed then, and a broker that   *)
(* was seen active is drained and its last record waited for.              *)

Failing == {"spawned", "inspected", "activating", "working"}

(* The phase is started before the message is written.                     *)
Starts == started' = (started \/ pc = "inspected")

RemoveContainers ==
    /\ pc \in Failing /\ pc' = IF confirmed THEN "removed" ELSE "closing"
    /\ Starts /\ agent' = FALSE
    /\ UNCHANGED <<Engine, procVars, pipe, pipeOpen, beating, confirmed, drained,
                   document, basis, account>>

RemovalFails ==
    /\ pc \in Failing /\ pc' = "closing"
    /\ Starts /\ faults < FaultCap /\ faults' = faults + 1
    /\ UNCHANGED <<ledgerVars, gateVars, askVars, fileVars, procVars, parentVars,
                   confirmed, drained, document, basis, account>>

(* drain: no heartbeat follows the message.                                *)
Drain ==
    /\ Phase("removed", "draining") /\ Alive
    /\ beating' = FALSE /\ pipe' = "drain"
    /\ UNCHANGED <<Engine, procVars, pipeOpen, agent, started, confirmed, drained,
                   document, basis, account>>

Drained ==
    /\ Phase("draining", "awaiting") /\ ~file.active /\ file.draining
    /\ drained' = TRUE
    /\ UNCHANGED <<brokerVars, started, confirmed, document, basis, account>>

Complete(d) == Cardinality(d.records) = d.count

(* await_final_ledger.                                                     *)
FinalLedger ==
    /\ Phase("awaiting", "closing") /\ Complete(file)
    /\ document' = file /\ basis' = Basis
    /\ UNCHANGED <<brokerVars, started, confirmed, drained, account>>

-----------------------------------------------------------------------------
(* A command that ended well. *)

(* ledger_read: at least one request, a record and no fatal ledger.  The   *)
(* broker is not drained first and requests may still be in flight.        *)
ReadLedger ==
    /\ Phase("reading", "validating")
    /\ file.count >= 1 /\ file.records # {} /\ ~file.fatal
    /\ document' = file /\ basis' = Basis
    /\ UNCHANGED <<brokerVars, started, confirmed, drained, account>>

-----------------------------------------------------------------------------
(* cleanup: the pipe is closed first, then the container is stopped.       *)

ClosePipe(to) ==
    /\ pc' = to /\ beating' = FALSE /\ pipeOpen' = FALSE
    /\ UNCHANGED <<Engine, procVars, pipe, agent, started, confirmed, drained,
                   document, basis, account>>

(* The other phases fail, or drain and await_final_ledger do.              *)
CloseFailed ==
    /\ pc \in {"starting", "probing", "probed", "removed", "draining", "awaiting",
               "reading", "validating", "closing"}
    /\ ClosePipe("cleaning")

(* native_validation passes.                                               *)
CloseValid == pc = "validating" /\ ClosePipe("cleaningValid")

Clean ==
    /\ \/ Phase("cleaning", "accounting") \/ Phase("cleaningValid", "accepting")
    /\ agent' = FALSE /\ Killed
    /\ UNCHANGED <<pipe, pipeOpen, beating, faults, started, confirmed, drained,
                   document, basis, account>>

CleanFails ==
    /\ \/ Phase("cleaning", "accounting") \/ Phase("cleaningValid", "accounting")
    /\ faults < FaultCap /\ faults' = faults + 1
    /\ UNCHANGED <<ledgerVars, gateVars, askVars, fileVars, procVars, parentVars,
                   started, confirmed, drained, document, basis, account>>

-----------------------------------------------------------------------------
(* Accounting. *)

(* _ledger_spend_evidence accepts the document.  The token's digest is in  *)
(* it exactly from activation on.                                          *)
Proves(d) ==
    /\ d.exists /\ Complete(d) /\ d.cost + d.reserved <= Allocation
    /\ IF started THEN d.activated
       ELSE ~d.active /\ ~d.activated /\ d.count = 0 /\ d.cost + d.reserved = 0

Spend(d) == [authority |-> "broker_ledger", exposure |-> d.cost + d.reserved]

(* Faulty variant of Fallback: only a confirmed activation counts.         *)
FallbackConfirmed ==
    IF confirmed
    THEN [authority |-> "conservative_allocation_fallback",
          exposure |-> Allocation]
    ELSE Zero

(* _fallback_attempt_spend.                                                *)
Fallback ==
    IF confirmed \/ started
    THEN [authority |-> "conservative_allocation_fallback",
          exposure |-> Allocation]
    ELSE Zero

(* The failure handler of _run_attempt; without a document it reads the    *)
(* file once more.                                                         *)
AccountFailure ==
    /\ Phase("accounting", "failed")
    /\ LET d == IF document.exists THEN document ELSE file
       IN IF Proves(d)
          THEN /\ account' = Spend(d)
               /\ basis' = IF document.exists THEN basis ELSE Basis
          ELSE account' = Fallback /\ basis' = NoBasis
    /\ document' = NoFile
    /\ UNCHANGED <<brokerVars, started, confirmed, drained>>

AccountSuccess ==
    /\ Phase("accepting", "succeeded") /\ Proves(document)
    /\ account' = Spend(document) /\ document' = NoFile
    /\ UNCHANGED <<brokerVars, started, confirmed, drained, basis>>

(* The same check fails outside the failure handler: main marks the        *)
(* attempt failed and leaves the spend it was started with.                *)
MarkFailed ==
    /\ Phase("accepting", "marked") /\ ~Proves(document) /\ Local

(* sweep_calibration_run, at the end of main.                              *)
Sweep ==
    /\ pc \in Final \ {"gone"} /\ proc # "dead"
    /\ agent' = FALSE /\ Killed
    /\ UNCHANGED <<pipe, pipeOpen, beating, faults, runnerVars>>

(* The runner's process dies, with what it knew; its containers do not.    *)
RunnerDies ==
    /\ pc \notin Final \cup {"start"} /\ pc' = "gone"
    /\ pipeOpen' = FALSE /\ beating' = FALSE
    /\ started' = FALSE /\ confirmed' = FALSE /\ drained' = FALSE
    /\ document' = NoFile /\ basis' = NoBasis /\ account' = Zero
    /\ UNCHANGED <<Engine, procVars, pipe, agent>>

RunnerStep ==
    \/ StartSidecar \/ SidecarStarted \/ Probe \/ ProbeAnswered
    \/ MainDiscovered \/ Activate \/ Activated \/ CommandEnds
    \/ RemoveContainers \/ RemovalFails \/ Drain \/ Drained \/ FinalLedger
    \/ ReadLedger \/ CloseFailed \/ CloseValid \/ Clean \/ CleanFails
    \/ AccountFailure \/ AccountSuccess \/ MarkFailed \/ Sweep \/ RunnerDies

Next == RunnerStep \/ (BrokerStep /\ UNCHANGED runnerVars)

(* The broker's threads run on: as long as one of them can go on by        *)
(* itself, one does.  A request that was sent ends by itself only if its   *)
(* connection was closed; the provider, the lease, the deadline and the    *)
(* runner need not help.                                                   *)
ThreadStep ==
    \/ \E t \in Thread : SnapshotBegins(t)
    \/ SnapshotEnds \/ Control \/ Watch \/ Stop \/ Exit
    \/ \E r \in Request :
          Refuse(r) \/ Release(r) \/ Record(r) \/ (~gate.keyed /\ Retain(r))

Fairness == WF_vars(ThreadStep /\ UNCHANGED runnerVars)

Spec == Init /\ [][Next]_vars /\ Fairness

-----------------------------------------------------------------------------
(* Properties. *)

TypeOK ==
    /\ BrokerTypeOK
    /\ started \in BOOLEAN /\ confirmed \in BOOLEAN /\ drained \in BOOLEAN
    /\ (drained => confirmed) /\ (confirmed => started)
    /\ account \in [authority : {"preactivation_zero", "broker_ledger",
                                 "conservative_allocation_fallback"},
                    exposure : 0..Allocation]
    /\ basis \in [sent : SUBSET Request, open : BOOLEAN]

(* What the provider took for a set of requests. *)
Taken(R) == Total(charge, R)

(* No request cost more than the worst case computed from its body.  A     *)
(* price above the reservation is fatal, and it is in no sum afterwards.   *)
Bounded == \A r \in forwarded : charge[r] <= worst[r]

WithinAllocation == cost + reserved <= Allocation

(* Whatever was forwarded is covered by the ledger, settled or reserved,   *)
(* and the ledger never exceeds the attempt's allocation.                  *)
LedgerCovers ==
    /\ WithinAllocation
    /\ Alive /\ Bounded => Taken(forwarded) <= cost + reserved

(* A ledger.json with a record for every counted request covers whatever   *)
(* was forwarded up to now, although requests settle while it is read.     *)
FileCovers == Bounded /\ Complete(file) => Taken(forwarded) <= file.cost + file.reserved

(* Once the runner has seen the drain, nothing more is forwarded.          *)
DrainIsFinal == [][drained => forwarded' = forwarded]_vars

(* What an accounted attempt states it may have spent is no less than what *)
(* the provider took for everything sent before its ledger document was    *)
(* read, whichever phase failed; and for everything, if the broker was     *)
(* drained or gone by then, or no document was trusted.                    *)
AccountCovers ==
    pc \in {"failed", "succeeded"} /\ Bounded =>
        /\ Taken(basis.sent) <= account.exposure
        /\ basis.open \/ forwarded = basis.sent

(* A broker whose parent closed the pipe or died ends, without help of the *)
(* lease, the deadline or the provider, although its agent goes on asking. *)
BrokerEnds == proc # "none" /\ ~pipeOpen ~> proc = "dead"

(* NOTES.md: "If activation may have started and broker ledger authority   *)
(* is missing, malformed, or unreadable, failure evidence retains the full *)
(* allocation as conservative unknown exposure."                           *)
UnprovenKeepsAllocation ==
    pc \in {"failed", "marked"} /\ started
        /\ account.authority # "broker_ledger" =>
        account.exposure = Allocation
===============================================================================
