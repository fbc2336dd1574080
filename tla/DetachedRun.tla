----------------------------- MODULE DetachedRun -----------------------------
(***************************************************************************)
(* One detached Modal run: submitters, controller calls, recoverers and    *)
(* cancellers of the same run id, working against one admission object.    *)
(***************************************************************************)
EXTENDS Controller, Submission, Recovery, Cancellation

Init ==
    /\ admission = Missing
    /\ terminals = {}
    /\ sandboxes = {}
    /\ attempts = {}
    /\ call = [c \in Call |-> "unspawned"]
    /\ pc = [p \in Proc |-> CASE p \in Call -> "unspawned"
                             [] p \in Submitter -> "unsubmitted"
                             [] OTHER -> "idle"]
    /\ mem = [p \in Proc |-> Fresh]

(* Any command can die, or raise out of any call it makes. *)
OperatorFails(p) ==
    /\ pc[p] \notin Resting \cup {"unsubmitted"}
    /\ Rest(p, "idle")
    /\ UNCHANGED <<admission, terminals, sandboxes, attempts, call>>

Next ==
    \/ \E c \in Call : ControllerStep(c) \/ ModalStep(c)
    \/ \E s \in Submitter : SubmitterStep(s)
    \/ \E r \in Recoverer : RecovererStep(r) \/ Spawn(r)
    \/ \E k \in Canceller : CancellerStep(k)
    \/ \E p \in Operator : OperatorFails(p)

Spec == Init /\ [][Next]_vars

PlaceOf(p) == IF p \in Call THEN ControllerPlace
              ELSE IF p \in Submitter THEN SubmitterPlace
              ELSE IF p \in Recoverer THEN RecovererPlace
              ELSE CancellerPlace

Place == ControllerPlace \cup SubmitterPlace \cup RecovererPlace \cup CancellerPlace

SharedTypeOK ==
    /\ admission \in Admission \cup {Missing}
    /\ terminals \subseteq Call
    /\ sandboxes \subseteq Call
    /\ attempts \subseteq Call
    /\ call \in [Call -> {"unspawned", "running", "stopping", "finished"}]

LocalTypeOK ==
    /\ pc \in [Proc -> Place]
    /\ \A p \in Proc : pc[p] \in PlaceOf(p)
    /\ mem \in [Proc -> Mem]

(* Every object and every local holds what the code can put there, and     *)
(* every process is at a place of its own program.                         *)
TypeOK == SharedTypeOK /\ LocalTypeOK

-----------------------------------------------------------------------------
(* Safety. *)

(* Only the call the admission names is between its claim and the end of   *)
(* its publication, and never while the run is prepared or being recovered *)
(* (claim, _check_cancellation, RecoveryService.recover): hence at most    *)
(* one Harbor execution at a time, whatever spawns, replays and recoveries *)
(* raced.                                                                  *)
OnlyOwnerEngaged ==
    \A c \in Call : pc[c] \in Engaged =>
        /\ admission.owner = c
        /\ admission.state \notin {"prepared", "recovering"}

(* The admission never names a terminal record a reader could not see:     *)
(* terminal proof is published before it is acknowledged.                  *)
AcknowledgedIsVisible ==
    admission.state = "terminal" => admission.digest \in terminals

(* At most one terminal record becomes visible, so no reader reports a     *)
(* conflict, and a run with proof is never handed to a successor: the      *)
(* checks for proof around the recovery writes leave no gap.               *)
ProofIsFinal ==
    /\ ~Conflicting
    /\ terminals # {} => admission.state \notin {"missing", "prepared", "recovering"}

(* A sandbox of a former owner never outlives the recovery that took the   *)
(* run from it (_finish_recovery sweeps before it prepares the run).       *)
NoStaleSandbox ==
    \A c \in sandboxes : admission.owner = c

(* Cancelled with an owner is recorded only over a stopped call, and       *)
(* cancelled without one over work that nobody has started or will start   *)
(* (_finish_running_cancellation, claim).                                  *)
CancelledMeansStopped ==
    admission.state = "cancelled" =>
        IF admission.owner = NoCall
        THEN /\ terminals = {} /\ sandboxes = {}
             /\ \A c \in Call : pc[c] \notin Engaged
        ELSE call[admission.owner] = "finished"

-----------------------------------------------------------------------------
(* Action properties. *)

(* Recorded cancellation intent is never lost: a failing controller or a   *)
(* recovery cannot overwrite it (mark_failed, recover).                    *)
CancellationIntentKept ==
    [][/\ admission.state = "cancelling" =>
             admission'.state \in {"cancelling", "cancelled", "terminal"}
       /\ admission.state = "cancelled" =>
             admission'.state \in {"cancelled", "terminal"}]_vars

(* Ownership is never stolen: the owner changes only when a call claims    *)
(* unowned prepared work for itself, or when a recovery releases an owner  *)
(* that Modal has reported finished (claim, RecoveryService.recover).      *)
OwnershipNeverStolen ==
    [][admission'.owner # admission.owner =>
         \/ /\ admission.owner = NoCall
            /\ admission.state = "prepared"
            /\ pc[admission'.owner] = "claim write"
         \/ /\ admission'.owner = NoCall
            /\ admission.state = "recovering"
            /\ call[admission.owner] = "finished"]_vars

(* The abstract run: its holder is the owner, its proof the terminal       *)
(* record, and it is closed by cancelled and by terminal.                  *)
Ownership == INSTANCE RunOwnership WITH
    holder <- admission.owner,
    proof  <- IF terminals = {} THEN NoCall ELSE CHOOSE d \in terminals : TRUE,
    stage  <- CASE admission.state = "cancelling" -> "stopping"
                [] admission.state \in {"cancelled", "terminal"} -> "closed"
                [] OTHER -> "open"

(* The protocol implements the abstract ownership of RunOwnership.         *)
ImplementsOwnership == Ownership!Spec

-----------------------------------------------------------------------------
(* Statements of the documentation that the code does not keep. *)

(* "prepared work advances directly to cancelled": cancelling prepared     *)
(* work never ends in a rejected revision (CancellationService.cancel).    *)
PreparedIsCancellable == \A k \in Canceller : pc[k] # "invalid"

(* Cancelled is recorded only when the cleanup is complete: no sandbox of  *)
(* the run exists at that write (_finish_running_cancellation).            *)
CancelledLeavesNothing ==
    [][admission.state # "cancelled" /\ admission'.state = "cancelled"
           => sandboxes = {}]_vars

(* A cancellation that reports its cleanup complete leaves no sandbox of   *)
(* the run behind (CancellationService.cancel).                            *)
ReportedCleanupIsReal ==
    [][\A k \in Canceller : pc[k] # "cleaned" /\ pc'[k] = "cleaned"
                               => sandboxes' = {}]_vars

(* Recovery sweeps stale children: it never terminates a sandbox of a call *)
(* that owns the run and is executing it (_finish_recovery).               *)
RecoverySparesLiveOwner ==
    [][\A r \in Recoverer, c \in Call :
          /\ pc[r] = "sweep" /\ pc'[r] # "sweep"
          /\ pc[c] = "harbor" /\ admission.owner = c /\ c \in sandboxes
          => c \in sandboxes']_vars

-----------------------------------------------------------------------------
(* Liveness.  The commands promise that running them again finishes what   *)
(* an earlier one left: operators rerun them, from some time on without    *)
(* interruption, and a provider that is asked again and again sometimes    *)
(* answers that the owner stopped and terminates what it lists.            *)

OperatorStep(p) ==
    \/ p \in Submitter /\ SubmitterStep(p)
    \/ p \in Recoverer /\ (RecovererStep(p) \/ Spawn(p))
    \/ p \in Canceller /\ CancellerStep(p)

(* A command may also end by itself, without a result: that is no          *)
(* interruption, and it may go on happening.                               *)
Interrupted(p) == OperatorFails(p) /\ ~OperatorStep(p)

Uninterrupted == <>[][\A p \in Operator : ~Interrupted(p)]_vars

PersistentCanceller ==
    \A k \in Canceller :
        /\ WF_vars(CancellerStep(k))
        /\ SF_vars(PollOwner(k) /\ mem'[k].facts # {})
        /\ SF_vars(CancelSweep(k) /\ sandboxes' = {})

PersistentRecoverer ==
    \A r \in Recoverer :
        /\ WF_vars(RecovererStep(r) \/ Spawn(r))
        /\ SF_vars(InspectOwner(r) /\ pc'[r] = "settle")
        /\ SF_vars(SweepStale(r) /\ sandboxes' = {})

(* Modal stops a call it was asked to stop, and its container ends. *)
ModalStops ==
    \A c \in Call : /\ WF_vars(call[c] = "stopping" /\ CallFinishes(c))
                    /\ WF_vars(call[c] = "finished" /\ ContainerDies(c))

CancelSpec  == Spec /\ ModalStops /\ Uninterrupted /\ PersistentCanceller
RecoverSpec == Spec /\ ModalStops /\ Uninterrupted /\ PersistentRecoverer

(* Recorded cancellation intent leads to cancelled, or to a proof that was *)
(* already on its way (cancel is resumable).                               *)
CancellationCompletes ==
    admission.state = "cancelling" ~> admission.state = "cancelled" \/ ~NoProof

(* A run whose owner stopped without proof becomes available to a          *)
(* successor (recover is resumable).                                       *)
StoppedRunRecovers ==
    /\ admission.state \in {"running", "failed", "recovering"}
    /\ call[admission.owner] = "finished"
    ~> admission.state = "prepared" \/ ~NoProof
=============================================================================
