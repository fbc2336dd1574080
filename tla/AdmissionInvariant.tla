------------------------- MODULE AdmissionInvariant -------------------------
(***************************************************************************)
(* Why the safety properties of DetachedRun are invariant: what each       *)
(* process still knows to be true at each place of its code although the   *)
(* others went on (an inductive invariant), and the only ways in which the *)
(* admission object ever changes as a consequence.                         *)
(***************************************************************************)
EXTENDS DetachedRun

(* The places at which a process acts on an admission it read before. *)
RecoverHolds == {"inspect", "settle", "recover write", "sweep proof", "sweep",
                 "finish proof", "finish read", "finish changed",
                 "prepare write", "prepare lost"}

StoppingHolds == {"stop owner", "poll owner", "cancel sweep", "cancel proof",
                  "cancel reread", "cancelled write"}

Holding == {"claim write", "ack write", "failed write",
            "cancel prepared", "intent write"} \cup RecoverHolds \cup StoppingHolds

(* A controller at one of these has not claimed anything yet, or is over. *)
BeforeClaim == {"queued", "claim", "claim write"} \cup Ended

(* Nobody ever had the right to execute the run. *)
NeverRun == \/ admission.revision <= 0
            \/ admission.state = "cancelled" /\ admission.owner = NoCall

-----------------------------------------------------------------------------

(* The record read is a real one, it is not newer than the stored one, and *)
(* a matching etag means that it is the stored one.                        *)
Coherent(a) ==
    /\ a \in Admission
    /\ ValidRevision(a)
    /\ a.revision <= admission.revision
    /\ a.revision = admission.revision => a = admission

Known(p) ==
    /\ pc[p] \in Holding => Coherent(mem[p].seen)
    /\ pc[p] \in {"ack", "ack write"} => mem[p].proof \in terminals
    /\ pc[p] = "cancel prepared" => mem[p].seen.state = "prepared"
    /\ pc[p] = "failed write" => mem[p].seen.state = "running"
    /\ pc[p] \in {"inspect", "settle", "recover write"}
          => mem[p].seen.state \in {"running", "failed"}
    /\ pc[p] \in {"settle", "recover write"} => call[mem[p].seen.owner] = "finished"
    /\ pc[p] \in {"cancel", "cancel read", "intent write", "stop owner", "poll owner"}
          => mem[p].facts = {}
    /\ pc[p] \in StoppingHolds =>
          /\ mem[p].seen.state = "cancelling"
          /\ \/ mem[p].seen = admission
             \/ admission.state \in {"cancelled", "terminal"}
          /\ "stopped" \in mem[p].facts => call[mem[p].seen.owner] = "finished"
    /\ pc[p] = "cancelled write" => "stopped" \in mem[p].facts

(* A call that was never spawned, and a run that was never claimed. *)
KnownOfCall(c) ==
    /\ pc[c] = "unspawned" => call[c] = "unspawned"
    /\ NeverRun => pc[c] \in BeforeClaim

KnownOfRun ==
    /\ admission # Missing => ValidRevision(admission)
    /\ admission.state = "recovering" => call[admission.owner] = "finished"
    /\ admission.state = "cancelled" /\ admission.owner # NoCall
          => call[admission.owner] = "finished"
    /\ admission.state = "terminal" => admission.digest \in terminals
    /\ NeverRun => terminals = {} /\ sandboxes = {}

(* What a process established before it was overtaken is still true when   *)
(* it acts on it: the record it holds is the stored one or an older one,   *)
(* the owner it saw finished stays finished, recorded intent is still      *)
(* recorded, and the proof it carries is visible (the reads before each    *)
(* conditional write of admission.py, lifecycle.py and controller.py).     *)
KnowledgeHolds ==
    /\ \A p \in Proc : Known(p)
    /\ \A c \in Call : KnownOfCall(c)
    /\ KnownOfRun

-----------------------------------------------------------------------------
(* The edges of the admission protocol, each with what makes it legitimate *)
(* at the moment the object changes, not when its writer looked.           *)

Becomes(state, claimant, digest) ==
    admission' = NextRevision(admission, state, claimant, digest)

Created    == admission = Missing /\ admission' = NewAdmission

Claimed    == \E c \in Call : /\ admission.state = "prepared"
                              /\ pc[c] = "claim write"
                              /\ Becomes("running", c, NoCall)

Failed     == admission.state = "running" /\ Becomes("failed", NoCall, NoCall)

Recovering == /\ admission.state \in {"running", "failed"}
              /\ call[admission.owner] = "finished"
              /\ Becomes("recovering", NoCall, NoCall)

Prepared   == admission.state = "recovering" /\ Becomes("prepared", NoCall, NoCall)

Withdrawn  == /\ admission = NewAdmission
              /\ Becomes("cancelled", NoCall, NoCall)

Intended   == admission.state = "running" /\ Becomes("cancelling", NoCall, NoCall)

Cancelled  == /\ admission.state = "cancelling"
              /\ call[admission.owner] = "finished"
              /\ Becomes("cancelled", NoCall, NoCall)

Proved     == \E d \in terminals : /\ admission.state \in Acknowledgeable
                                   /\ admission.owner # NoCall
                                   /\ Becomes("terminal", NoCall, d)

Edge == \/ Created \/ Claimed \/ Failed \/ Recovering \/ Prepared
        \/ Withdrawn \/ Intended \/ Cancelled \/ Proved

(* The stored admission changes along these edges only: claimed while      *)
(* prepared, released only from a finished owner, cancelled only with its  *)
(* owner finished, withdrawn only before any call ran, and made terminal   *)
(* only for a visible proof (update_admission's callers).                  *)
AdmissionEdges == [][admission' # admission => Edge]_vars
=============================================================================
