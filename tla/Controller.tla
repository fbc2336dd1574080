----------------------------- MODULE Controller -----------------------------
(***************************************************************************)
(* The detached controller: what one Modal FunctionCall does, following    *)
(* ControllerRuntime._run_credential_free and the admission service it     *)
(* calls.  The actions of call c are those of the physical attempt that    *)
(* executes it; Modal may replay an interrupted call under the same id.    *)
(***************************************************************************)
EXTENDS RunState

(* Between the claim and the acknowledgement: the call believes it owns    *)
(* the run, and any exception here ends in mark_failed.                    *)
Engaged == {"postclaim", "check setup", "drain prior", "check cleanup",
            "attempt", "check harbor", "harbor", "check result",
            "drain result", "drain cancelled", "authorize", "observe",
            "put", "verify"}

Settling == {"ack", "ack write", "mark failed", "failed write"}

ControllerPlace == {"queued", "claim", "claim write"} \cup Engaged
                      \cup Settling \cup Ended

-----------------------------------------------------------------------------
(* Startup and claim. *)

(* The first read of the run: a proof is only acknowledged. *)
ReconcileAtStart(c) ==
    /\ pc[c] = "queued"
    /\ \/ Conflicting /\ Rest(c, "returned")
       \/ \E d \in Call :
             /\ ProofIs(d)
             /\ Go(c, "ack")
             /\ mem' = [mem EXCEPT ![c] = [Fresh EXCEPT !.proof = d]]
       \/ NoProof /\ Rest(c, "claim")
    /\ UNCHANGED <<admission, terminals, sandboxes, attempts, call>>

(* ControllerAdmissionService.claim: only a prepared admission is claimed; *)
(* finding itself the owner already, a replayed call leaves.               *)
ReadForClaim(c) ==
    /\ pc[c] = "claim"
    /\ \/ admission.state = "prepared" /\ Remember(c, "claim write")
       \/ admission.state # "prepared" /\ Rest(c, "returned")
    /\ UNCHANGED <<admission, terminals, sandboxes, attempts, call>>

Claim(c) ==
    /\ pc[c] = "claim write"
    /\ Cas(c, NextRevision(mem[c].seen, "running", c, NoCall),
           Rest(c, "postclaim"), Rest(c, "returned"))
    /\ UNCHANGED <<terminals, sandboxes, attempts, call>>

ReconcileAfterClaim(c) ==
    /\ pc[c] = "postclaim"
    /\ \/ Conflicting /\ Rest(c, "mark failed")
       \/ \E d \in Call :
             /\ ProofIs(d)
             /\ Go(c, "ack")
             /\ mem' = [mem EXCEPT ![c] = [Fresh EXCEPT !.proof = d]]
       \/ NoProof /\ Rest(c, "check setup")
    /\ UNCHANGED <<admission, terminals, sandboxes, attempts, call>>

-----------------------------------------------------------------------------
(* The run itself. *)

(* _is_cancelling at one of its places: continue only as the running       *)
(* owner; a recorded cancellation goes to cancelled; anything else raises. *)
CheckAdmission(c, here, running, cancelled) ==
    /\ pc[c] = here
    /\ \/ /\ admission.owner = c /\ admission.state = "running"
          /\ Rest(c, running)
       \/ /\ admission.owner = c /\ admission.state \in {"cancelling", "cancelled"}
          /\ Rest(c, cancelled)
       \/ /\ \/ admission.owner # c
             \/ admission.state \notin {"running", "cancelling", "cancelled"}
          /\ Rest(c, "mark failed")
    /\ UNCHANGED <<admission, terminals, sandboxes, attempts, call>>

(* With directories of prior attempts on the Volume their children are     *)
(* swept before anything else.                                             *)
CheckBeforeSetup(c) ==
    CheckAdmission(c, "check setup",
                   IF attempts = {} THEN "attempt" ELSE "drain prior",
                   "drain cancelled")

CheckAfterCleanup(c) ==
    CheckAdmission(c, "check cleanup", "attempt", "drain cancelled")

CheckBeforeHarbor(c) ==
    CheckAdmission(c, "check harbor", "harbor", "drain cancelled")

CheckResult(c) ==
    CheckAdmission(c, "check result", "authorize", "drain result")

(* _quiesce_children, at the three places that call it. *)
Drain(c, here, next) ==
    /\ pc[c] = here
    /\ SweepStep(c, here, Rest(c, next), Rest(c, "mark failed"))
    /\ UNCHANGED <<admission, terminals, attempts, call>>

DrainPrior(c)     == Drain(c, "drain prior", "check cleanup")
DrainCancelled(c) == Drain(c, "drain cancelled", "returned")
DrainResult(c)    == Drain(c, "drain result", "authorize")

(* The attempt directory, its first events, and materialization. *)
BeginAttempt(c) ==
    /\ pc[c] = "attempt"
    /\ attempts' = attempts \cup {c}
    /\ Rest(c, "check harbor")
    /\ UNCHANGED <<admission, terminals, sandboxes, call>>

(* Harbor starts sandboxes while it runs, and normally stops them before   *)
(* it returns.                                                             *)
StartSandbox(c) ==
    /\ pc[c] = "harbor"
    /\ c \notin sandboxes
    /\ sandboxes' = sandboxes \cup {c}
    /\ UNCHANGED <<admission, terminals, attempts, call, pc, mem>>

HarborReturns(c) ==
    /\ pc[c] = "harbor"
    /\ sandboxes' \in {sandboxes, sandboxes \ {c}}
    /\ Rest(c, "check result")
    /\ UNCHANGED <<admission, terminals, attempts, call>>

-----------------------------------------------------------------------------
(* publish_terminal_and_finish. *)

(* _validate_terminal_authority *)
AuthorizeTerminal(c) ==
    /\ pc[c] = "authorize"
    /\ \/ /\ admission.owner = c /\ admission.state \in {"running", "cancelling"}
          /\ Rest(c, "observe")
       \/ /\ ~(admission.owner = c /\ admission.state \in {"running", "cancelling"})
          /\ Rest(c, "mark failed")
    /\ UNCHANGED <<admission, terminals, sandboxes, attempts, call>>

(* Faulty variant of ObserveBeforeTerminal: acknowledge before publishing. *)
AcknowledgeFirst(c) ==
    /\ pc[c] = "observe"
    /\ \/ /\ terminals \subseteq {c}
          /\ Go(c, "ack")
          /\ mem' = [mem EXCEPT ![c] = [Fresh EXCEPT !.proof = c]]
       \/ ~(terminals \subseteq {c}) /\ Rest(c, "mark failed")
    /\ UNCHANGED <<admission, terminals, sandboxes, attempts, call>>

(* S3Store.publish_terminal looks for a conflict or another terminal ...   *)
ObserveBeforeTerminal(c) ==
    /\ pc[c] = "observe"
    /\ \/ terminals \subseteq {c} /\ Rest(c, "put")
       \/ ~(terminals \subseteq {c}) /\ Rest(c, "mark failed")
    /\ UNCHANGED <<admission, terminals, sandboxes, attempts, call>>

(* ... writes the content-addressed object, which nothing can refuse ...   *)
PutTerminal(c) ==
    /\ pc[c] = "put"
    /\ terminals' = terminals \cup {c}
    /\ Rest(c, "verify")
    /\ UNCHANGED <<admission, sandboxes, attempts, call>>

(* ... and looks again. *)
VerifyTerminal(c) ==
    /\ pc[c] = "verify"
    /\ \/ /\ ProofIs(c)
          /\ Go(c, "ack")
          /\ mem' = [mem EXCEPT ![c] = [Fresh EXCEPT !.proof = c]]
       \/ ~ProofIs(c) /\ Rest(c, "mark failed")
    /\ UNCHANGED <<admission, terminals, sandboxes, attempts, call>>

(* _acknowledge_terminal: bind the proof in the admission, unless it is    *)
(* bound already or the admission cannot become terminal.  The result is   *)
(* "terminal" either way: the proof is what counts.                        *)
Acknowledgeable == {"running", "recovering", "cancelling", "cancelled", "failed"}

ReadForAck(c) ==
    /\ pc[c] = "ack"
    /\ \/ /\ admission.state \in Acknowledgeable /\ admission.owner # NoCall
          /\ Remember(c, "ack write")
       \/ /\ ~(admission.state \in Acknowledgeable /\ admission.owner # NoCall)
          /\ Rest(c, "returned")
    /\ UNCHANGED <<admission, terminals, sandboxes, attempts, call>>

(* Faulty variant of Acknowledge: name the own record, not the proof.      *)
AcknowledgeOwn(c) ==
    /\ pc[c] = "ack write"
    /\ Cas(c, NextRevision(mem[c].seen, "terminal", NoCall, c),
           Rest(c, "returned"), Retry(c, "ack", CasTries, "returned"))
    /\ UNCHANGED <<terminals, sandboxes, attempts, call>>

Acknowledge(c) ==
    /\ pc[c] = "ack write"
    /\ Cas(c, NextRevision(mem[c].seen, "terminal", NoCall, mem[c].proof),
           Rest(c, "returned"), Retry(c, "ack", CasTries, "returned"))
    /\ UNCHANGED <<terminals, sandboxes, attempts, call>>

-----------------------------------------------------------------------------
(* Failure. *)

(* Faulty variant of ReadForFailure: the owner alone may fail the run.     *)
FailWhateverState(c) ==
    /\ pc[c] = "mark failed"
    /\ \/ admission.owner = c /\ Remember(c, "failed write")
       \/ admission.owner # c /\ Rest(c, "returned")
    /\ UNCHANGED <<admission, terminals, sandboxes, attempts, call>>

(* mark_failed: only while this call is still the running owner. *)
ReadForFailure(c) ==
    /\ pc[c] = "mark failed"
    /\ \/ /\ admission.owner = c /\ admission.state = "running"
          /\ Remember(c, "failed write")
       \/ /\ ~(admission.owner = c /\ admission.state = "running")
          /\ Rest(c, "returned")
    /\ UNCHANGED <<admission, terminals, sandboxes, attempts, call>>

MarkFailed(c) ==
    /\ pc[c] = "failed write"
    /\ Cas(c, NextRevision(mem[c].seen, "failed", NoCall, NoCall),
           Rest(c, "returned"), Retry(c, "mark failed", CasTries, "returned"))
    /\ UNCHANGED <<terminals, sandboxes, attempts, call>>

(* Any exception: before the claim it only ends the call, after it the     *)
(* call marks itself failed first.                                         *)
ControllerRaises(c) ==
    /\ \/ pc[c] \in {"queued", "claim"} /\ Rest(c, "returned")
       \/ pc[c] \in Engaged /\ Rest(c, "mark failed")
    /\ UNCHANGED <<admission, terminals, sandboxes, attempts, call>>

-----------------------------------------------------------------------------
(* Modal's part. *)

(* The call is classified as succeeded, failed or expired: it returned, or *)
(* it was stopped from outside (cancellation, timeout, lost container), in *)
(* which case the container may execute a little longer.                   *)
CallFinishes(c) ==
    /\ call[c] \in {"running", "stopping"}
    /\ call' = [call EXCEPT ![c] = "finished"]
    /\ UNCHANGED <<admission, terminals, sandboxes, attempts, pc, mem>>

(* The container is gone, at any point of its execution. *)
ContainerDies(c) ==
    /\ Alive(c)
    /\ Rest(c, "killed")
    /\ UNCHANGED <<admission, terminals, sandboxes, attempts, call>>

(* Modal reruns an interrupted call that nobody stopped. *)
Replay(c) ==
    /\ pc[c] = "killed"
    /\ call[c] = "running"
    /\ Rest(c, "queued")
    /\ UNCHANGED <<admission, terminals, sandboxes, attempts, call>>

(* A sandbox reaches its own end. *)
SandboxExits(c) ==
    /\ c \in sandboxes
    /\ sandboxes' = sandboxes \ {c}
    /\ UNCHANGED <<admission, terminals, attempts, call, pc, mem>>

ControllerStep(c) ==
    \/ ReconcileAtStart(c) \/ ReadForClaim(c) \/ Claim(c)
    \/ ReconcileAfterClaim(c)
    \/ CheckBeforeSetup(c) \/ DrainPrior(c) \/ CheckAfterCleanup(c)
    \/ BeginAttempt(c) \/ CheckBeforeHarbor(c)
    \/ StartSandbox(c) \/ HarborReturns(c)
    \/ CheckResult(c) \/ DrainResult(c) \/ DrainCancelled(c)
    \/ AuthorizeTerminal(c) \/ ObserveBeforeTerminal(c)
    \/ PutTerminal(c) \/ VerifyTerminal(c)
    \/ ReadForAck(c) \/ Acknowledge(c)
    \/ ReadForFailure(c) \/ MarkFailed(c)

ModalStep(c) ==
    \/ ControllerRaises(c) \/ CallFinishes(c) \/ ContainerDies(c)
    \/ Replay(c) \/ SandboxExits(c)
=============================================================================
