----------------------------- MODULE Submission -----------------------------
(***************************************************************************)
(* "tetrabench submit" (submission.py): publish the request, create or     *)
(* observe prepared admission, spawn a controller call without claiming    *)
(* anything.  The spawn is shared with recovery.                           *)
(***************************************************************************)
EXTENDS RunState

SubmitterPlace == Resting \cup {"unsubmitted", "create", "reread", "spawn"}

(* _submit_locked up to the admission: inputs and request are published    *)
(* first; they are content addressed and the same for every submission.    *)
(* A command submits once: the next one chooses a fresh run id.            *)
Submit(s) ==
    /\ pc[s] = "unsubmitted"
    /\ Rest(s, "create")
    /\ UNCHANGED <<admission, terminals, sandboxes, attempts, call>>

(* PutObject(IfNoneMatch="*"): of several submitters one creates it.  A    *)
(* repeated request can again find its own record and report a conflict.   *)
CreateAdmission(s) ==
    /\ pc[s] = "create"
    /\ \/ /\ admission = Missing
          /\ admission' = NewAdmission
          /\ Rest(s, "spawn") \/ Rest(s, "reread")
       \/ /\ admission # Missing
          /\ Rest(s, "reread")
          /\ UNCHANGED admission
    /\ UNCHANGED <<terminals, sandboxes, attempts, call>>

(* _validate_prepared_admission on the record another submission created. *)
ObserveAdmission(s) ==
    /\ pc[s] = "reread"
    /\ \/ admission.state = "prepared" /\ Rest(s, "spawn")
       \/ admission.state # "prepared" /\ Rest(s, "idle")
    /\ UNCHANGED <<admission, terminals, sandboxes, attempts, call>>

(* ModalControllerClient.spawn returns a fresh call, or raises; either way *)
(* the command is over.  The ids of Call bound how many calls there are.   *)
Spawn(p) ==
    /\ pc[p] = "spawn"
    /\ \/ \E c \in Call :
             /\ pc[c] = "unspawned"
             /\ call' = [call EXCEPT ![c] = "running"]
             /\ pc' = [pc EXCEPT ![p] = "idle", ![c] = "queued"]
             /\ mem' = [mem EXCEPT ![p] = Fresh]
       \/ Rest(p, "idle") /\ UNCHANGED call
    /\ UNCHANGED <<admission, terminals, sandboxes, attempts>>

SubmitterStep(s) ==
    Submit(s) \/ CreateAdmission(s) \/ ObserveAdmission(s) \/ Spawn(s)
=============================================================================
