---------------------------- MODULE Cancellation ----------------------------
(***************************************************************************)
(* "tetrabench cancel" (lifecycle.CancellationService): cancel prepared    *)
(* work directly; for running work record the intent, stop the owner,      *)
(* sweep its children and only then record cancelled.  A canceller that is *)
(* run again resumes from the recorded intent.                             *)
(***************************************************************************)
EXTENDS RunState

CancellerPlace == Resting \cup
    {"cancel", "cancel read", "cancel prepared", "intent write", "stop owner",
     "poll owner", "cancel sweep", "cancel proof", "cancel reread",
     "cancelled write", "cancel lost", "cancel lost read"}

(* "cleaned" is a result with cleanup_complete, "idle" any other end.      *)
Reported(k) == IF "quiet" \in mem[k].facts THEN "cleaned" ELSE "idle"

Learn(k, fact, l) ==
    Go(k, l) /\ mem' = [mem EXCEPT ![k] =
                          [Fresh EXCEPT !.seen = mem[k].seen,
                                        !.facts = mem[k].facts \cup fact]]

RetryCancellation(k) == Retry(k, "cancel", CancelTries, "idle")

Cancel(k) ==
    /\ pc[k] \in Resting
    /\ Rest(k, "cancel")
    /\ UNCHANGED <<admission, terminals, sandboxes, attempts, call>>

(* A visible proof ends it: reported as terminal with its cleanup done.    *)
CancelProof(k) ==
    /\ pc[k] = "cancel"
    /\ \/ Conflicting /\ Rest(k, "idle")
       \/ ~Conflicting /\ ~NoProof /\ Rest(k, "cleaned")
       \/ NoProof /\ Go(k, "cancel read") /\ UNCHANGED mem
    /\ UNCHANGED <<admission, terminals, sandboxes, attempts, call>>

CancelRead(k) ==
    /\ pc[k] = "cancel read"
    /\ \/ admission.state = "prepared" /\ Remember(k, "cancel prepared")
       \/ admission.state = "running" /\ Remember(k, "intent write")
       \/ admission.state = "cancelling" /\ Remember(k, "stop owner")
       \/ admission.state \in {"cancelled", "terminal"} /\ Rest(k, "cleaned")
       \/ admission.state \in {"missing", "failed", "recovering"} /\ Rest(k, "idle")
    /\ UNCHANGED <<admission, terminals, sandboxes, attempts, call>>

(* prepared -> cancelled has no owner.  The record validator takes an      *)
(* unowned cancelled revision only as revision 1, and raises otherwise.    *)
CancelPrepared(k) ==
    /\ pc[k] = "cancel prepared"
    /\ LET next == NextRevision(mem[k].seen, "cancelled", NoCall, NoCall)
       IN \/ Cas(k, next, Rest(k, "cleaned"), RetryCancellation(k))
          \/ /\ ~Accepted(mem[k].seen, next)
             /\ Rest(k, "invalid")
             /\ UNCHANGED admission
    /\ UNCHANGED <<terminals, sandboxes, attempts, call>>

RecordIntent(k) ==
    /\ pc[k] = "intent write"
    /\ LET next == NextRevision(mem[k].seen, "cancelling", NoCall, NoCall)
       IN Cas(k, next, Wrote(k, next, "stop owner"), RetryCancellation(k))
    /\ UNCHANGED <<terminals, sandboxes, attempts, call>>

-----------------------------------------------------------------------------
(* _finish_running_cancellation *)

(* Faulty variant of StopOwner: it waits for the owner to end by itself.   *)
AwaitOwner(k) ==
    /\ pc[k] = "stop owner"
    /\ Go(k, "poll owner")
    /\ UNCHANGED <<admission, terminals, sandboxes, attempts, call, mem>>

(* FunctionCall.cancel(terminate_containers=True): Modal will stop it.     *)
StopOwner(k) ==
    /\ pc[k] = "stop owner"
    /\ LET owner == mem[k].seen.owner
       IN call' = [call EXCEPT ![owner] = IF @ = "running" THEN "stopping" ELSE @]
    /\ Go(k, "poll owner")
    /\ UNCHANGED <<admission, terminals, sandboxes, attempts, mem>>

(* Faulty variant of PollOwner: having asked for the stop is enough. *)
AssumeStopped(k) ==
    /\ pc[k] = "poll owner"
    /\ Learn(k, {"stopped"}, "cancel sweep")
    /\ UNCHANGED <<admission, terminals, sandboxes, attempts, call>>

(* At most controller_checks inspections; the owner is seen finished, or   *)
(* the checks run out.                                                     *)
PollOwner(k) ==
    /\ pc[k] = "poll owner"
    /\ \/ /\ call[mem[k].seen.owner] = "finished"
          /\ Learn(k, {"stopped"}, "cancel sweep")
       \/ Learn(k, {}, "cancel sweep")
    /\ UNCHANGED <<admission, terminals, sandboxes, attempts, call>>

CancelSweep(k) ==
    /\ pc[k] = "cancel sweep"
    /\ SweepStep(k, "cancel sweep", Learn(k, {"quiet"}, "cancel proof"),
                 Learn(k, {}, "cancel proof"))
    /\ UNCHANGED <<admission, terminals, attempts, call>>

CancelProofAgain(k) ==
    /\ pc[k] = "cancel proof"
    /\ \/ Conflicting /\ Rest(k, "idle")
       \/ ~Conflicting /\ ~NoProof /\ Rest(k, Reported(k))
       \/ NoProof /\ Go(k, "cancel reread") /\ UNCHANGED mem
    /\ UNCHANGED <<admission, terminals, sandboxes, attempts, call>>

(* Finalize only with the owner seen stopped and the sweeps empty;         *)
(* otherwise the command reports failed and can be run again.              *)
CancelReread(k) ==
    /\ pc[k] = "cancel reread"
    /\ \/ admission.state = "cancelled" /\ Rest(k, Reported(k))
       \/ /\ admission.state = "cancelling" /\ mem[k].facts = {"stopped", "quiet"}
          /\ Go(k, "cancelled write")
          /\ mem' = [mem EXCEPT ![k] = [@ EXCEPT !.seen = admission]]
       \/ /\ admission.state # "cancelled"
          /\ ~(admission.state = "cancelling" /\ mem[k].facts = {"stopped", "quiet"})
          /\ Rest(k, "idle")
    /\ UNCHANGED <<admission, terminals, sandboxes, attempts, call>>

RecordCancelled(k) ==
    /\ pc[k] = "cancelled write"
    /\ Cas(k, NextRevision(mem[k].seen, "cancelled", NoCall, NoCall),
           Rest(k, "cleaned"), Go(k, "cancel lost") /\ UNCHANGED mem)
    /\ UNCHANGED <<terminals, sandboxes, attempts, call>>

(* Losing that write to a terminal proof or to another canceller is fine;  *)
(* anything else is raised.                                                *)
CancelLost(k) ==
    /\ pc[k] = "cancel lost"
    /\ \/ Conflicting /\ Rest(k, "idle")
       \/ ~Conflicting /\ ~NoProof /\ Rest(k, Reported(k))
       \/ NoProof /\ Go(k, "cancel lost read") /\ UNCHANGED mem
    /\ UNCHANGED <<admission, terminals, sandboxes, attempts, call>>

CancelLostRead(k) ==
    /\ pc[k] = "cancel lost read"
    /\ \/ admission.state = "cancelled" /\ Rest(k, Reported(k))
       \/ admission.state # "cancelled" /\ Rest(k, "idle")
    /\ UNCHANGED <<admission, terminals, sandboxes, attempts, call>>

CancellerStep(k) ==
    \/ Cancel(k) \/ CancelProof(k) \/ CancelRead(k) \/ CancelPrepared(k)
    \/ RecordIntent(k) \/ StopOwner(k) \/ PollOwner(k) \/ CancelSweep(k)
    \/ CancelProofAgain(k) \/ CancelReread(k) \/ RecordCancelled(k)
    \/ CancelLost(k) \/ CancelLostRead(k)
=============================================================================
