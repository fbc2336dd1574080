----------------------------- MODULE RunRecords -----------------------------
(***************************************************************************)
(* The admission record of one run, as records.py defines it: which        *)
(* revisions the validator accepts, which successor revisions it accepts   *)
(* after a given one, and how transition_admission builds the next one.    *)
(* Everything here is constant level.                                      *)
(*                                                                         *)
(* A revision keeps what coordination tells apart: its number, its state,  *)
(* the owning FunctionCall and the terminal digest.  Timestamps, the run   *)
(* and request digests (fixed for one run) and the retained history are    *)
(* left out: update_admission requires each record to extend the history   *)
(* of the one it replaces, so the validity of the whole history is the     *)
(* validity of every single step.                                          *)
(***************************************************************************)
EXTENDS Integers

CONSTANTS Call,     \* FunctionCall ids that spawn can return for this run
          NoCall    \* no owner / no digest

ASSUME NoCallAssumption == NoCall \notin Call

(* One controller call publishes at most one terminal record, so the call  *)
(* id stands for the digest of that record as well.                        *)
MaybeCall == Call \cup {NoCall}

AdmissionState == {"prepared", "running", "recovering", "cancelling",
                   "cancelled", "terminal", "failed"}

Admission == [revision : Nat, state : AdmissionState,
              owner : MaybeCall, digest : MaybeCall]

(* What read_admission answers when the key is absent. *)
Missing == [revision |-> -1, state |-> "missing",
            owner |-> NoCall, digest |-> NoCall]

-----------------------------------------------------------------------------

(* AdmissionRecord._validate_transitions: the states that may follow. *)
Allowed == [prepared   |-> {"running", "cancelled"},
            running    |-> {"recovering", "cancelling", "terminal", "failed"},
            recovering |-> {"prepared", "terminal"},
            cancelling |-> {"cancelled", "terminal", "failed"},
            failed     |-> {"recovering", "terminal"},
            cancelled  |-> {"terminal"},
            terminal   |-> {}]

(* AdmissionRevision.validate_state_fields. *)
ValidRevision(r) ==
    /\ r.state = "prepared" => r.owner = NoCall
    /\ r.state # "prepared" /\ ~(r.state = "cancelled" /\ r.revision = 1)
          => r.owner # NoCall
    /\ (r.state = "terminal") <=> (r.digest # NoCall)

(* One step of AdmissionRecord._validate_transitions. *)
ValidStep(a, b) ==
    /\ b.state \in Allowed[a.state]
    /\ b.state = "prepared" => b.owner = NoCall
    /\ a.state = "prepared" /\ b.state = "cancelled" => b.owner = NoCall
    /\ a.state = "cancelled" => a.owner # NoCall
    /\ a.owner # NoCall /\ b.state # "prepared" => b.owner = a.owner

(* What update_admission requires of the replacement of a record it read. *)
Accepted(a, b) ==
    /\ a.state \in AdmissionState
    /\ b.revision = a.revision + 1
    /\ ValidRevision(b)
    /\ ValidStep(a, b)

(* new_admission *)
NewAdmission == [revision |-> 0, state |-> "prepared",
                 owner |-> NoCall, digest |-> NoCall]

(* transition_admission: the owner is carried along; claiming sets it,     *)
(* and preparing a recovered run (clear_owner) is what removes it.         *)
NextRevision(a, state, claimant, digest) ==
    [revision |-> a.revision + 1,
     state    |-> state,
     owner    |-> IF state = "prepared" THEN NoCall
                  ELSE IF a.owner # NoCall THEN a.owner ELSE claimant,
     digest   |-> digest]
=============================================================================
