------------------------------ MODULE RunState ------------------------------
(***************************************************************************)
(* What the processes of one detached run share, and how they touch it:    *)
(* the admission object and the terminal objects in S3, the sandboxes and  *)
(* FunctionCalls at Modal, and where each process is in its own code.      *)
(*                                                                         *)
(* A process takes one step per call to a store or to Modal, with the      *)
(* local decisions up to its next call: those calls are the points at      *)
(* which the processes interleave.                                         *)
(***************************************************************************)
EXTENDS RunRecords

CONSTANTS Submitter,      \* "tetrabench submit" operators
          Recoverer,      \* "tetrabench recover" operators
          Canceller,      \* "tetrabench cancel" operators
          SweepLimit,     \* child sweeps before cleanup gives up (5 in the code)
          RecoverTries,   \* loop bound of RecoveryService.recover (5)
          CancelTries,    \* loop bound of CancellationService.cancel (3)
          CasTries,       \* loop bound of the controller's CAS retries (3)
          StopModel       \* how long a stopped call may keep executing, below

(***************************************************************************)
(* Modal may classify a FunctionCall as finished while its container still *)
(* executes.  StopModel says how long:                                     *)
(*   "settled"   at most for the settling window RecoveryService waits     *)
(*   "lingering" without bound                                             *)
(***************************************************************************)
StopModels == {"settled", "lingering"}

Operator == Submitter \cup Recoverer \cup Canceller
Proc     == Call \cup Operator

ASSUME LimitAssumption ==
    /\ SweepLimit \in Nat /\ SweepLimit >= 2
    /\ RecoverTries \in Nat \ {0}
    /\ CancelTries \in Nat \ {0}
    /\ CasTries \in Nat \ {0}
    /\ StopModel \in StopModels

ASSUME ProcAssumption ==
    /\ Call \cap Operator = {}
    /\ Submitter \cap Recoverer = {}
    /\ Submitter \cap Canceller = {}
    /\ Recoverer \cap Canceller = {}

VARIABLES admission,   \* the object runs/<id>/admission.json
          terminals,   \* terminal records visible under runs/<id>/terminals/
          sandboxes,   \* calls whose Harbor children (sandboxes) still run
          attempts,    \* calls whose attempt directory is on the Volume
          call,        \* Modal's classification of each FunctionCall
          pc,          \* where each process is
          mem          \* each process's local variables

vars  == <<admission, terminals, sandboxes, attempts, call, pc, mem>>

(* Locals: the admission read last with its etag, the loop counter, the    *)
(* sweeps made and the latest consecutive empty ones, what a canceller has *)
(* established, and the terminal proof a process is acting on.             *)
Mem == [seen : Admission \cup {Missing}, tries : Nat, made : Nat, empty : {0, 1},
        facts : SUBSET {"stopped", "quiet"}, proof : MaybeCall]

Fresh == [seen |-> Missing, tries |-> 0, made |-> 0, empty |-> 0,
          facts |-> {}, proof |-> NoCall]

-----------------------------------------------------------------------------
(* Control. *)

Go(p, l)   == pc' = [pc EXCEPT ![p] = l]
Rest(p, l) == Go(p, l) /\ mem' = [mem EXCEPT ![p] = Fresh]

(* Keep the record just read (and its etag) for the decision and the write *)
(* that follow.                                                            *)
Remember(p, l) ==
    Go(p, l) /\ mem' = [mem EXCEPT ![p] = [@ EXCEPT !.seen = admission]]

(* Another round of a bounded loop that starts at l, or the loop's end. *)
Retry(p, l, limit, end) ==
    IF mem[p].tries + 1 < limit
    THEN /\ Go(p, l)
         /\ mem' = [mem EXCEPT ![p] = [Fresh EXCEPT !.tries = mem[p].tries + 1,
                                                    !.proof = mem[p].proof]]
    ELSE Rest(p, end)

-----------------------------------------------------------------------------
(* S3. *)

(* read_run_state: more than one visible terminal is a conflict; exactly   *)
(* one is the proof.                                                       *)
Conflicting == \E d, e \in terminals : d # e
ProofIs(d)  == terminals = {d}
NoProof     == terminals = {}

(* Faulty variant of EtagMatches: compare what the record says, not which  *)
(* record it is.                                                           *)
StateMatches(p) == mem[p].seen.state = admission.state

(* PutObject(IfMatch): revisions never repeat, so the etag of the record   *)
(* read matches exactly when its revision is still the stored one.         *)
EtagMatches(p) == mem[p].seen.revision = admission.revision

(* Faulty variant of Cas: a PutObject without IfMatch. *)
PutAnyway(p, next, Won, Lost) ==
    /\ Accepted(mem[p].seen, next)
    /\ admission' = next
    /\ Won

(***************************************************************************)
(* update_admission.  The replacement is validated before it is sent.  A   *)
(* write that was applied can still be reported as a conflict: the client  *)
(* library repeats a request whose reply was lost, and the repetition      *)
(* finds the etag changed.                                                 *)
(***************************************************************************)
Cas(p, next, Won, Lost) ==
    /\ Accepted(mem[p].seen, next)
    /\ \/ EtagMatches(p) /\ admission' = next /\ Won
       \/ EtagMatches(p) /\ admission' = next /\ Lost
       \/ ~EtagMatches(p) /\ UNCHANGED admission /\ Lost

(* The process goes on from a write it knows to have won. *)
Wrote(p, next, l) ==
    Go(p, l) /\ mem' = [mem EXCEPT ![p] = [@ EXCEPT !.seen = next]]

-----------------------------------------------------------------------------
(* Modal. *)

(* Faulty variant of SweepStep: it waits for a third empty observation.    *)
SweepThrice(p, again, Quiet, GaveUp) ==
    \E left \in SUBSET sandboxes :
        /\ sandboxes' = left
        /\ \/ left = {} /\ mem[p].empty = 2 /\ Quiet
           \/ /\ ~(left = {} /\ mem[p].empty = 2)
              /\ mem[p].made + 1 >= SweepLimit
              /\ GaveUp
           \/ /\ ~(left = {} /\ mem[p].empty = 2)
              /\ mem[p].made + 1 < SweepLimit
              /\ Go(p, again)
              /\ mem' = [mem EXCEPT ![p] =
                           [mem[p] EXCEPT !.made = mem[p].made + 1,
                                           !.empty = IF left = {} THEN mem[p].empty + 1 ELSE 0]]

(***************************************************************************)
(* ModalChildObserver.sweep in its callers' loop: terminate what is listed *)
(* for the run, list again, and count consecutive empty listings.  Some    *)
(* sandboxes may survive a sweep.  The loop ends at two consecutive empty  *)
(* observations (Quiet) or after SweepLimit sweeps (GaveUp).               *)
(***************************************************************************)
SweepStep(p, again, Quiet, GaveUp) ==
    \E left \in SUBSET sandboxes :
        /\ sandboxes' = left
        /\ \/ left = {} /\ mem[p].empty = 1 /\ Quiet
           \/ /\ ~(left = {} /\ mem[p].empty = 1)
              /\ mem[p].made + 1 >= SweepLimit
              /\ GaveUp
           \/ /\ ~(left = {} /\ mem[p].empty = 1)
              /\ mem[p].made + 1 < SweepLimit
              /\ Go(p, again)
              /\ mem' = [mem EXCEPT ![p] =
                           [mem[p] EXCEPT !.made = mem[p].made + 1,
                                           !.empty = IF left = {} THEN 1 ELSE 0]]

(* Places at which a controller's process no longer executes. *)
Ended == {"unspawned", "returned", "killed"}

Alive(c) == pc[c] \notin Ended

(* The places where an operator's command has returned to the shell. *)
Resting == {"idle", "cleaned", "invalid"}
=============================================================================
