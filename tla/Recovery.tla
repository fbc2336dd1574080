------------------------------ MODULE Recovery ------------------------------
(***************************************************************************)
(* "tetrabench recover" (lifecycle.RecoveryService): take a run away from  *)
(* an owner Modal says has stopped, sweep its children, prepare the        *)
(* admission again and spawn a successor.  Any number of recoverers may    *)
(* run against one another, the controller and cancellers.                 *)
(***************************************************************************)
EXTENDS RunState

RecovererPlace == Resting \cup
    {"recover", "recover read", "inspect", "settle", "recover write",
     "sweep proof", "sweep", "finish proof", "finish read", "finish changed",
     "prepare write", "prepare lost", "successor proof", "successor read",
     "spawn", "terminal read", "terminal sweep"}

(* _read_terminal: a conflict raises, a proof leads to cleanup only.       *)
ReadProof(r, here, None) ==
    /\ pc[r] = here
    /\ \/ Conflicting /\ Rest(r, "idle")
       \/ \E d \in Call :
             /\ ProofIs(d)
             /\ Go(r, "terminal read")
             /\ mem' = [mem EXCEPT ![r] = [Fresh EXCEPT !.proof = d]]
       \/ NoProof /\ None
    /\ UNCHANGED <<admission, terminals, sandboxes, attempts, call>>

RetryRecovery(r) == Retry(r, "recover", RecoverTries, "idle")

Recover(r) ==
    /\ pc[r] \in Resting
    /\ Rest(r, "recover")
    /\ UNCHANGED <<admission, terminals, sandboxes, attempts, call>>

RecoverProof(r) == ReadProof(r, "recover", Go(r, "recover read") /\ UNCHANGED mem)

(* Faulty variants of RecoverRead: leave a recovering run to the recovery  *)
(* that made it so, or trust that recovery to have swept already.          *)
LeaveRecovering(r) ==
    /\ pc[r] = "recover read"
    /\ \/ /\ admission.state \notin {"prepared", "running", "failed"}
          /\ Rest(r, "idle")
       \/ admission.state = "prepared" /\ Rest(r, "successor read")
       \/ admission.state \in {"running", "failed"} /\ Remember(r, "inspect")
    /\ UNCHANGED <<admission, terminals, sandboxes, attempts, call>>

TrustRecovering(r) ==
    /\ pc[r] = "recover read"
    /\ \/ /\ admission.state \in {"missing", "terminal", "cancelling", "cancelled"}
          /\ Rest(r, "idle")
       \/ admission.state = "prepared" /\ Rest(r, "successor read")
       \/ admission.state \in {"running", "failed"} /\ Remember(r, "inspect")
       \/ admission.state = "recovering" /\ Remember(r, "finish proof")
    /\ UNCHANGED <<admission, terminals, sandboxes, attempts, call>>

(* Dispatch on the admission.  Prepared work is spawned again, stopped     *)
(* work is taken over, recovering work is resumed, the rest is refused.    *)
RecoverRead(r) ==
    /\ pc[r] = "recover read"
    /\ \/ /\ admission.state \in {"missing", "terminal", "cancelling", "cancelled"}
          /\ Rest(r, "idle")
       \/ admission.state = "prepared" /\ Rest(r, "successor read")
       \/ admission.state \in {"running", "failed"} /\ Remember(r, "inspect")
       \/ admission.state = "recovering" /\ Remember(r, "sweep proof")
    /\ UNCHANGED <<admission, terminals, sandboxes, attempts, call>>

(* Faulty variant of InspectOwner: any answer will do. *)
InspectNothing(r) ==
    /\ pc[r] = "inspect"
    /\ Go(r, "settle")
    /\ UNCHANGED <<admission, terminals, sandboxes, attempts, call, mem>>

(* ModalControllerClient.inspect on the owner: only a finished call lets   *)
(* recovery go on; a failed inspection refuses like a running owner.       *)
InspectOwner(r) ==
    /\ pc[r] = "inspect"
    /\ \/ call[mem[r].seen.owner] = "finished" /\ Go(r, "settle") /\ UNCHANGED mem
       \/ Rest(r, "idle")
    /\ UNCHANGED <<admission, terminals, sandboxes, attempts, call>>

(* Sleep owner_settle_seconds, then look for a proof.  Unless StopModel is *)
(* "lingering", a finished call no longer executes when the sleep ends.    *)
SettledDown(c) ==
    StopModel # "lingering" /\ call[c] = "finished" => ~Alive(c)

(* Faulty variant of Settle: without the sleep. *)
SettleAtOnce(r) ==
    ReadProof(r, "settle", Go(r, "recover write") /\ UNCHANGED mem)

Settle(r) ==
    /\ pc[r] = "settle"
    /\ SettledDown(mem[r].seen.owner)
    /\ ReadProof(r, "settle", Go(r, "recover write") /\ UNCHANGED mem)

EnterRecovering(r) ==
    /\ pc[r] = "recover write"
    /\ LET next == NextRevision(mem[r].seen, "recovering", NoCall, NoCall)
       IN Cas(r, next, Wrote(r, next, "sweep proof"), RetryRecovery(r))
    /\ UNCHANGED <<terminals, sandboxes, attempts, call>>

-----------------------------------------------------------------------------
(* _finish_recovery *)

SweepProof(r) == ReadProof(r, "sweep proof", Go(r, "sweep") /\ UNCHANGED mem)

SweepStale(r) ==
    /\ pc[r] = "sweep"
    /\ SweepStep(r, "sweep proof",
                 /\ Go(r, "finish proof")
                 /\ mem' = [mem EXCEPT ![r] = [@ EXCEPT !.made = 0, !.empty = 0]],
                 Rest(r, "idle"))
    /\ UNCHANGED <<admission, terminals, attempts, call>>

FinishProof(r) == ReadProof(r, "finish proof", Go(r, "finish read") /\ UNCHANGED mem)

(* The admission must still be the revision the sweeps were made under.    *)
FinishRead(r) ==
    /\ pc[r] = "finish read"
    /\ \/ EtagMatches(r) /\ Go(r, "prepare write") /\ UNCHANGED mem
       \/ ~EtagMatches(r) /\ admission.state = "prepared" /\ Rest(r, "idle")
       \/ ~EtagMatches(r) /\ admission.state = "terminal" /\ Go(r, "finish changed")
             /\ UNCHANGED mem
       \/ ~EtagMatches(r) /\ admission.state \notin {"prepared", "terminal"}
             /\ RetryRecovery(r)
    /\ UNCHANGED <<admission, terminals, sandboxes, attempts, call>>

FinishChanged(r) == ReadProof(r, "finish changed", RetryRecovery(r))

PrepareSuccessor(r) ==
    /\ pc[r] = "prepare write"
    /\ Cas(r, NextRevision(mem[r].seen, "prepared", NoCall, NoCall),
           Rest(r, "successor proof"),
           Go(r, "prepare lost") /\ UNCHANGED mem)
    /\ UNCHANGED <<terminals, sandboxes, attempts, call>>

(* Losing that write to a recovery that prepared the run is a result; the  *)
(* winner spawns.                                                          *)
PrepareLost(r) ==
    /\ pc[r] = "prepare lost"
    /\ \/ admission.state = "prepared" /\ Rest(r, "idle")
       \/ admission.state # "prepared" /\ RetryRecovery(r)
    /\ UNCHANGED <<admission, terminals, sandboxes, attempts, call>>

SuccessorProof(r) == ReadProof(r, "successor proof", Rest(r, "successor read"))

(* SubmissionService.recover_request: spawn only what is still prepared.   *)
RecoverRequest(r) ==
    /\ pc[r] = "successor read"
    /\ \/ admission.state = "prepared" /\ Rest(r, "spawn")
       \/ admission.state # "prepared" /\ Rest(r, "idle")
    /\ UNCHANGED <<admission, terminals, sandboxes, attempts, call>>

-----------------------------------------------------------------------------
(* _terminal_result: cleanup only. *)

TerminalRead(r) ==
    /\ pc[r] = "terminal read"
    /\ \/ /\ admission.state = "terminal" /\ admission.digest # mem[r].proof
          /\ Rest(r, "idle")
       \/ /\ ~(admission.state = "terminal" /\ admission.digest # mem[r].proof)
          /\ Rest(r, "terminal sweep")
    /\ UNCHANGED <<admission, terminals, sandboxes, attempts, call>>

TerminalSweep(r) ==
    /\ pc[r] = "terminal sweep"
    /\ SweepStep(r, "terminal sweep", Rest(r, "cleaned"), Rest(r, "idle"))
    /\ UNCHANGED <<admission, terminals, attempts, call>>

RecovererStep(r) ==
    \/ Recover(r) \/ RecoverProof(r) \/ RecoverRead(r) \/ InspectOwner(r)
    \/ Settle(r) \/ EnterRecovering(r)
    \/ SweepProof(r) \/ SweepStale(r) \/ FinishProof(r) \/ FinishRead(r)
    \/ FinishChanged(r) \/ PrepareSuccessor(r) \/ PrepareLost(r)
    \/ SuccessorProof(r) \/ RecoverRequest(r)
    \/ TerminalRead(r) \/ TerminalSweep(r)
=============================================================================
