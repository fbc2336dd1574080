------------------------- MODULE OwnershipInvariant -------------------------
(***************************************************************************)
(* Why at most one call works on a run, why its proof is final and why no  *)
(* sandbox of a former owner is left, when a stopped call no longer        *)
(* executes after the settling window of RecoveryService: what the states  *)
(* between a recoverer's look and its write have in common.  Together with *)
(* KnowledgeHolds it is inductive.                                         *)
(***************************************************************************)
EXTENDS AdmissionInvariant

(* Modal is done with the call, and its container is gone. *)
Dead(c) == call[c] = "finished" /\ ~Alive(c)

(* Between the last empty sweep and the write that relies on it. *)
SweptPlaces == {"finish proof", "finish read", "prepare write"}

(* A run is taken away from a dead owner only, and one without proof. *)
TakeoverSound(r) ==
    pc[r] = "recover write" =>
        /\ Dead(mem[r].seen.owner)
        /\ EtagMatches(r) => NoProof

(* While the revision it swept under is stored, nothing has been started.  *)
SweepSound(r) ==
    pc[r] \in SweptPlaces /\ EtagMatches(r) /\ admission.state = "recovering"
        => sandboxes = {}

(* The owner named while the run is being recovered is dead. *)
RecoveredIsDead == admission.state = "recovering" => Dead(admission.owner)

(* A terminal record is the owner's, and the owner stays. *)
ProofIsOwners ==
    ~NoProof => /\ terminals = {admission.owner}
                /\ admission.state \notin {"missing", "prepared", "recovering"}

(* Each recovery acts on what it established before its waits and reads,   *)
(* although controllers, Modal and other operators went on meanwhile       *)
(* (recover, _finish_recovery, _check_cancellation, publish_terminal).     *)
OwnershipHolds ==
    /\ \A r \in Recoverer : TakeoverSound(r) /\ SweepSound(r)
    /\ RecoveredIsDead
    /\ OnlyOwnerEngaged
    /\ ProofIsOwners
    /\ NoStaleSandbox
=============================================================================
