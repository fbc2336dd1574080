-------------------------- MODULE DetachedRunProofs --------------------------
(***************************************************************************)
(* Theorems about DetachedRun, for every number of calls and operators,    *)
(* all loop bounds and all stop models.                                    *)
(***************************************************************************)
EXTENDS DetachedRun, TLAPS

-----------------------------------------------------------------------------
(* Types of the moves that actions are made of. *)

(* Controllers, submitters, recoverers and cancellers are processes. *)
LEMMA ProcKinds ==
    /\ Call \subseteq Proc
    /\ Submitter \subseteq Proc
    /\ Recoverer \subseteq Proc
    /\ Canceller \subseteq Proc
    /\ \A p \in Proc : p \in Call \/ p \in Operator
BY DEF Proc, Operator

(* Each process is at the places of its own kind. *)
LEMMA Places ==
    /\ \A c \in Call : PlaceOf(c) = ControllerPlace
    /\ \A s \in Submitter : PlaceOf(s) = SubmitterPlace
    /\ \A r \in Recoverer : PlaceOf(r) = RecovererPlace
    /\ \A k \in Canceller : PlaceOf(k) = CancellerPlace
    /\ \A p \in Proc : PlaceOf(p) \subseteq Place
    /\ \A p \in Operator : "idle" \in PlaceOf(p)
<1>1. \A c \in Call : PlaceOf(c) = ControllerPlace
  BY DEF PlaceOf
<1>2. \A s \in Submitter : PlaceOf(s) = SubmitterPlace
  BY ProcAssumption DEF PlaceOf, Operator
<1>3. \A r \in Recoverer : PlaceOf(r) = RecovererPlace
  BY ProcAssumption DEF PlaceOf, Operator
<1>4. \A k \in Canceller : PlaceOf(k) = CancellerPlace
  BY ProcAssumption DEF PlaceOf, Operator
<1>5. \A p \in Proc : PlaceOf(p) \subseteq Place
  BY DEF PlaceOf, Place
<1>6. \A p \in Operator : "idle" \in PlaceOf(p)
  <2>1. "idle" \in SubmitterPlace /\ "idle" \in RecovererPlace
          /\ "idle" \in CancellerPlace
    BY DEF SubmitterPlace, RecovererPlace, CancellerPlace, Resting
  <2>2. QED
    BY <2>1, <1>2, <1>3, <1>4 DEF Operator
<1>7. QED
  BY <1>1, <1>2, <1>3, <1>4, <1>5, <1>6

(* The locals of a process that starts over have their type. *)
LEMMA FreshTyped == Fresh \in Mem
BY DEF Fresh, Mem, MaybeCall

(* What a process may take for its locals. *)
LEMMA MemTyped ==
    ASSUME NEW m \in Mem
    PROVE  /\ \A a \in Admission \cup {Missing} : [m EXCEPT !.seen = a] \in Mem
           /\ \A n \in Nat, e \in {0, 1} : [m EXCEPT !.made = n, !.empty = e] \in Mem
           /\ \A d \in MaybeCall : [Fresh EXCEPT !.proof = d] \in Mem
           /\ \A n \in Nat, d \in MaybeCall :
                 [Fresh EXCEPT !.tries = n, !.proof = d] \in Mem
           /\ \A a \in Admission \cup {Missing}, f \in SUBSET {"stopped", "quiet"} :
                 [Fresh EXCEPT !.seen = a, !.facts = f] \in Mem
BY DEF Fresh, Mem, MaybeCall

(* A process that moves to a place of its own, with typed locals. *)
LEMMA Moved ==
    ASSUME LocalTypeOK, NEW p \in Proc, NEW l \in PlaceOf(p), NEW m \in Mem,
           pc' = [pc EXCEPT ![p] = l], mem' = [mem EXCEPT ![p] = m]
    PROVE  LocalTypeOK'
<1>1. l \in Place
  BY Places
<1>2. pc' \in [Proc -> Place] /\ mem' \in [Proc -> Mem]
  BY <1>1 DEF LocalTypeOK
<1>3. \A q \in Proc : pc'[q] \in PlaceOf(q)
  BY DEF LocalTypeOK
<1>4. QED
  BY <1>2, <1>3 DEF LocalTypeOK, PlaceOf

(* A process that moves and starts over. *)
LEMMA Rested ==
    ASSUME LocalTypeOK, NEW p \in Proc, NEW l \in PlaceOf(p), Rest(p, l)
    PROVE  LocalTypeOK'
BY Moved, FreshTyped DEF Rest, Go

(* A process that moves and keeps its locals. *)
LEMMA Went ==
    ASSUME LocalTypeOK, NEW p \in Proc, NEW l \in PlaceOf(p), Go(p, l), UNCHANGED mem
    PROVE  LocalTypeOK'
<1>1. mem' = [mem EXCEPT ![p] = mem[p]] /\ mem[p] \in Mem
  BY DEF LocalTypeOK
<1>2. QED
  BY <1>1, Moved DEF Go

(* A process that keeps the admission it reads. *)
LEMMA Remembered ==
    ASSUME TypeOK, NEW p \in Proc, NEW l \in PlaceOf(p), Remember(p, l)
    PROVE  LocalTypeOK'
<1>1. [mem[p] EXCEPT !.seen = admission] \in Mem
  BY MemTyped DEF TypeOK, LocalTypeOK, SharedTypeOK
<1>2. mem' = [mem EXCEPT ![p] = [mem[p] EXCEPT !.seen = admission]]
  BY DEF Remember, TypeOK, LocalTypeOK
<1>3. QED
  BY <1>1, <1>2, Moved DEF Remember, Go, TypeOK

(* A process that goes on from the record it wrote. *)
LEMMA WroteTyped ==
    ASSUME LocalTypeOK, NEW p \in Proc, NEW l \in PlaceOf(p), NEW next \in Admission,
           Wrote(p, next, l)
    PROVE  LocalTypeOK'
<1>1. [mem[p] EXCEPT !.seen = next] \in Mem
  BY MemTyped DEF LocalTypeOK
<1>2. mem' = [mem EXCEPT ![p] = [mem[p] EXCEPT !.seen = next]]
  BY DEF Wrote, LocalTypeOK
<1>3. QED
  BY <1>1, <1>2, Moved DEF Wrote, Go

(* Another round of a bounded loop, or its end. *)
LEMMA Retried ==
    ASSUME LocalTypeOK, NEW p \in Proc, NEW l \in PlaceOf(p), NEW end \in PlaceOf(p),
           NEW limit, Retry(p, l, limit, end)
    PROVE  LocalTypeOK'
<1>1. CASE mem[p].tries + 1 < limit
  <2>1. mem[p] \in Mem
    BY DEF LocalTypeOK
  <2>2. mem[p].tries + 1 \in Nat /\ mem[p].proof \in MaybeCall
    BY <2>1 DEF Mem
  <2>3. [Fresh EXCEPT !.tries = mem[p].tries + 1, !.proof = mem[p].proof] \in Mem
    BY <2>1, <2>2, MemTyped
  <2>4. QED
    BY <1>1, <2>3, Moved DEF Retry, Go
<1>2. CASE ~(mem[p].tries + 1 < limit)
  BY <1>2, Rested DEF Retry
<1>3. QED
  BY <1>1, <1>2

(* The revision a writer sends is one the validator accepted. *)
LEMMA NextTyped ==
    ASSUME NEW a \in Admission \cup {Missing}, NEW s \in AdmissionState,
           NEW o \in MaybeCall, NEW d \in MaybeCall,
           Accepted(a, NextRevision(a, s, o, d))
    PROVE  /\ a \in Admission
           /\ NextRevision(a, s, o, d) \in Admission
<1>1. a \in Admission
  BY DEF Accepted, Missing, AdmissionState
<1>2. QED
  BY <1>1 DEF NextRevision, Admission, MaybeCall

(* The admission after either outcome of a conditional write. *)
LEMMA CasTyped ==
    ASSUME TypeOK, NEW p \in Proc, NEW s \in AdmissionState,
           NEW o \in MaybeCall, NEW d \in MaybeCall,
           Accepted(mem[p].seen, NextRevision(mem[p].seen, s, o, d)),
           admission' \in {admission, NextRevision(mem[p].seen, s, o, d)},
           UNCHANGED <<terminals, sandboxes, attempts, call>>
    PROVE  /\ SharedTypeOK'
           /\ NextRevision(mem[p].seen, s, o, d) \in Admission
<1>1. mem[p].seen \in Admission \cup {Missing}
  BY DEF TypeOK, LocalTypeOK, Mem
<1>2. NextRevision(mem[p].seen, s, o, d) \in Admission
  BY <1>1, NextTyped
<1>3. admission' \in Admission \cup {Missing}
  BY <1>2 DEF TypeOK, SharedTypeOK
<1>4. QED
  BY <1>2, <1>3 DEF TypeOK, SharedTypeOK

(* A step that leaves the shared state alone keeps its type. *)
LEMMA SharedKept ==
    ASSUME SharedTypeOK, UNCHANGED <<admission, terminals, sandboxes, attempts, call>>
    PROVE  SharedTypeOK'
BY DEF SharedTypeOK

(* One more round of a sweeping loop. *)
LEMMA SweptAgain ==
    ASSUME TypeOK, NEW p \in Proc, NEW l \in PlaceOf(p), NEW e \in {0, 1}, Go(p, l),
           mem' = [mem EXCEPT ![p] = [mem[p] EXCEPT !.made = mem[p].made + 1, !.empty = e]]
    PROVE  LocalTypeOK'
<1>1. mem[p] \in Mem /\ mem[p].made + 1 \in Nat
  BY DEF TypeOK, LocalTypeOK, Mem
<1>2. [mem[p] EXCEPT !.made = mem[p].made + 1, !.empty = e] \in Mem
  BY <1>1, MemTyped
<1>3. mem' = [mem EXCEPT ![p] = [mem[p] EXCEPT !.made = mem[p].made + 1, !.empty = e]]
  BY DEF TypeOK, LocalTypeOK
<1>4. QED
  BY <1>2, <1>3, Moved DEF Go, TypeOK

(* What a sweep leaves is still a set of calls. *)
LEMMA SweptShared ==
    ASSUME SharedTypeOK, sandboxes' \subseteq Call,
           UNCHANGED <<admission, terminals, attempts, call>>
    PROVE  SharedTypeOK'
BY DEF SharedTypeOK

(* A cancellation check of the controller (_is_cancelling). *)
LEMMA CheckTyped ==
    ASSUME TypeOK, NEW c \in Call, NEW here, NEW running \in ControllerPlace,
           NEW cancelled \in ControllerPlace,
           CheckAdmission(c, here, running, cancelled)
    PROVE  TypeOK'
<1>1. SharedTypeOK'
  BY SharedKept DEF CheckAdmission, TypeOK
<1>2. LocalTypeOK'
  BY Rested, ProcKinds, Places DEF CheckAdmission, TypeOK, ControllerPlace, Settling
<1>3. QED
  BY <1>1, <1>2 DEF TypeOK

(* A child sweep of the controller (_quiesce_children). *)
LEMMA DrainTyped ==
    ASSUME TypeOK, NEW c \in Call, NEW here \in ControllerPlace,
           NEW next \in ControllerPlace, Drain(c, here, next)
    PROVE  TypeOK'
<1>1. PICK left \in SUBSET sandboxes :
          /\ sandboxes' = left
          /\ \/ Rest(c, next)
             \/ Rest(c, "mark failed")
             \/ /\ Go(c, here)
                /\ mem' = [mem EXCEPT ![c] =
                             [mem[c] EXCEPT !.made = mem[c].made + 1,
                                            !.empty = IF left = {} THEN 1 ELSE 0]]
  BY DEF Drain, SweepStep
<1>2. SharedTypeOK'
  <2>1. sandboxes' \subseteq Call
    BY <1>1 DEF TypeOK, SharedTypeOK
  <2>2. QED
    BY <2>1, SweptShared DEF TypeOK, Drain
<1>3. LocalTypeOK'
  <2>1. "mark failed" \in ControllerPlace
    BY DEF ControllerPlace, Settling
  <2>2. CASE Rest(c, next) \/ Rest(c, "mark failed")
    BY <2>1, <2>2, Rested, ProcKinds, Places DEF TypeOK
  <2>3. CASE ~(Rest(c, next) \/ Rest(c, "mark failed"))
    BY <1>1, <2>3, SweptAgain, ProcKinds, Places
  <2>4. QED
    BY <2>2, <2>3
<1>4. QED
  BY <1>2, <1>3 DEF TypeOK

(* Every step of a controller, and of Modal on its call, keeps the types. *)
LEMMA ControllerTyped ==
    ASSUME TypeOK, NEW c \in Call, ControllerStep(c) \/ ModalStep(c)
    PROVE  TypeOK'
<1>1. CASE ReconcileAtStart(c)
  <2>1. SharedTypeOK'
    BY <1>1, SharedKept DEF ReconcileAtStart, TypeOK, Go, MaybeCall
  <2>2. LocalTypeOK'
    BY <1>1, Rested, Moved, MemTyped, FreshTyped, ProcKinds, Places
    DEF ReconcileAtStart, Go, MaybeCall, TypeOK, ControllerPlace, Engaged, Settling, Ended
  <2>3. QED
    BY <2>1, <2>2 DEF TypeOK
<1>2. CASE ReadForClaim(c)
  <2>1. SharedTypeOK'
    BY <1>2, SharedKept DEF ReadForClaim, TypeOK
  <2>2. LocalTypeOK'
    BY <1>2, Rested, Remembered, ProcKinds, Places
    DEF ReadForClaim, TypeOK, ControllerPlace, Engaged, Settling, Ended
  <2>3. QED
    BY <2>1, <2>2 DEF TypeOK
<1>3. CASE Claim(c)
  <2> DEFINE next == NextRevision(mem[c].seen, "running", c, NoCall)
  <2>1. /\ Accepted(mem[c].seen, next)
        /\ admission' \in {admission, next}
        /\ Rest(c, "postclaim") \/ Rest(c, "returned")
        /\ UNCHANGED <<terminals, sandboxes, attempts, call>>
    BY <1>3 DEF Claim, Cas
  <2>2. SharedTypeOK' /\ next \in Admission
    BY <2>1, CasTyped, ProcKinds DEF AdmissionState, MaybeCall
  <2>3. LocalTypeOK'
    BY <2>1, <2>2, Rested, ProcKinds, Places DEF TypeOK, ControllerPlace, Engaged, Settling, Ended
  <2>4. QED
    BY <2>2, <2>3 DEF TypeOK
<1>4. CASE ReconcileAfterClaim(c)
  <2>1. SharedTypeOK'
    BY <1>4, SharedKept DEF ReconcileAfterClaim, TypeOK, Go, MaybeCall
  <2>2. LocalTypeOK'
    BY <1>4, Rested, Moved, MemTyped, FreshTyped, ProcKinds, Places
    DEF ReconcileAfterClaim, Go, MaybeCall, TypeOK, ControllerPlace, Engaged, Settling, Ended
  <2>3. QED
    BY <2>1, <2>2 DEF TypeOK
<1>5. CASE CheckBeforeSetup(c)
  BY <1>5, CheckTyped DEF CheckBeforeSetup, ControllerPlace, Engaged
<1>6. CASE CheckAfterCleanup(c)
  BY <1>6, CheckTyped DEF CheckAfterCleanup, ControllerPlace, Engaged
<1>7. CASE CheckBeforeHarbor(c)
  BY <1>7, CheckTyped DEF CheckBeforeHarbor, ControllerPlace, Engaged
<1>8. CASE CheckResult(c)
  BY <1>8, CheckTyped DEF CheckResult, ControllerPlace, Engaged
<1>9. CASE DrainPrior(c)
  BY <1>9, DrainTyped DEF DrainPrior, ControllerPlace, Engaged, Ended
<1>10. CASE DrainResult(c)
  BY <1>10, DrainTyped DEF DrainResult, ControllerPlace, Engaged, Ended
<1>11. CASE DrainCancelled(c)
  BY <1>11, DrainTyped DEF DrainCancelled, ControllerPlace, Engaged, Ended
<1>12. CASE BeginAttempt(c)
  <2>1. SharedTypeOK'
    BY <1>12 DEF BeginAttempt, TypeOK, SharedTypeOK
  <2>2. LocalTypeOK'
    BY <1>12, Rested, ProcKinds, Places DEF BeginAttempt, TypeOK, ControllerPlace, Engaged, Settling, Ended
  <2>3. QED
    BY <2>1, <2>2 DEF TypeOK
<1>13. CASE StartSandbox(c)
  BY <1>13 DEF StartSandbox, TypeOK, SharedTypeOK, LocalTypeOK
<1>14. CASE HarborReturns(c)
  <2>1. SharedTypeOK'
    BY <1>14 DEF HarborReturns, TypeOK, SharedTypeOK
  <2>2. LocalTypeOK'
    BY <1>14, Rested, ProcKinds, Places DEF HarborReturns, TypeOK, ControllerPlace, Engaged, Settling, Ended
  <2>3. QED
    BY <2>1, <2>2 DEF TypeOK
<1>15. CASE AuthorizeTerminal(c)
  <2>1. SharedTypeOK'
    BY <1>15, SharedKept DEF AuthorizeTerminal, TypeOK
  <2>2. LocalTypeOK'
    BY <1>15, Rested, ProcKinds, Places
    DEF AuthorizeTerminal, TypeOK, ControllerPlace, Engaged, Settling, Ended
  <2>3. QED
    BY <2>1, <2>2 DEF TypeOK
<1>16. CASE ObserveBeforeTerminal(c)
  <2>1. SharedTypeOK'
    BY <1>16, SharedKept DEF ObserveBeforeTerminal, TypeOK
  <2>2. LocalTypeOK'
    BY <1>16, Rested, ProcKinds, Places
    DEF ObserveBeforeTerminal, TypeOK, ControllerPlace, Engaged, Settling, Ended
  <2>3. QED
    BY <2>1, <2>2 DEF TypeOK
<1>17. CASE PutTerminal(c)
  <2>1. SharedTypeOK'
    BY <1>17 DEF PutTerminal, TypeOK, SharedTypeOK
  <2>2. LocalTypeOK'
    BY <1>17, Rested, ProcKinds, Places DEF PutTerminal, TypeOK, ControllerPlace, Engaged, Settling, Ended
  <2>3. QED
    BY <2>1, <2>2 DEF TypeOK
<1>18. CASE VerifyTerminal(c)
  <2>1. SharedTypeOK'
    BY <1>18, SharedKept DEF VerifyTerminal, TypeOK, Go, MaybeCall
  <2>2. LocalTypeOK'
    BY <1>18, Rested, Moved, MemTyped, FreshTyped, ProcKinds, Places
    DEF VerifyTerminal, Go, MaybeCall, TypeOK, ControllerPlace, Engaged, Settling, Ended
  <2>3. QED
    BY <2>1, <2>2 DEF TypeOK
<1>19. CASE ReadForAck(c)
  <2>1. SharedTypeOK'
    BY <1>19, SharedKept DEF ReadForAck, TypeOK
  <2>2. LocalTypeOK'
    BY <1>19, Rested, Remembered, ProcKinds, Places
    DEF ReadForAck, TypeOK, ControllerPlace, Engaged, Settling, Ended
  <2>3. QED
    BY <2>1, <2>2 DEF TypeOK
<1>20. CASE Acknowledge(c)
  <2> DEFINE next == NextRevision(mem[c].seen, "terminal", NoCall, mem[c].proof)
  <2>1. /\ Accepted(mem[c].seen, next)
        /\ admission' \in {admission, next}
        /\ Rest(c, "returned") \/ Retry(c, "ack", CasTries, "returned")
        /\ UNCHANGED <<terminals, sandboxes, attempts, call>>
    BY <1>20 DEF Acknowledge, Cas
  <2>0. mem[c].proof \in MaybeCall
    BY ProcKinds DEF TypeOK, LocalTypeOK, Mem
  <2>2. SharedTypeOK' /\ next \in Admission
    BY <2>1, CasTyped, ProcKinds, <2>0 DEF AdmissionState, MaybeCall
  <2>3. LocalTypeOK'
    BY <2>1, <2>2, Rested, Retried, ProcKinds, Places DEF TypeOK, ControllerPlace, Engaged, Settling, Ended
  <2>4. QED
    BY <2>2, <2>3 DEF TypeOK
<1>21. CASE ReadForFailure(c)
  <2>1. SharedTypeOK'
    BY <1>21, SharedKept DEF ReadForFailure, TypeOK
  <2>2. LocalTypeOK'
    BY <1>21, Rested, Remembered, ProcKinds, Places
    DEF ReadForFailure, TypeOK, ControllerPlace, Engaged, Settling, Ended
  <2>3. QED
    BY <2>1, <2>2 DEF TypeOK
<1>22. CASE MarkFailed(c)
  <2> DEFINE next == NextRevision(mem[c].seen, "failed", NoCall, NoCall)
  <2>1. /\ Accepted(mem[c].seen, next)
        /\ admission' \in {admission, next}
        /\ Rest(c, "returned") \/ Retry(c, "mark failed", CasTries, "returned")
        /\ UNCHANGED <<terminals, sandboxes, attempts, call>>
    BY <1>22 DEF MarkFailed, Cas
  <2>2. SharedTypeOK' /\ next \in Admission
    BY <2>1, CasTyped, ProcKinds DEF AdmissionState, MaybeCall
  <2>3. LocalTypeOK'
    BY <2>1, <2>2, Rested, Retried, ProcKinds, Places DEF TypeOK, ControllerPlace, Engaged, Settling, Ended
  <2>4. QED
    BY <2>2, <2>3 DEF TypeOK
<1>23. CASE ControllerRaises(c)
  <2>1. SharedTypeOK'
    BY <1>23, SharedKept DEF ControllerRaises, TypeOK
  <2>2. LocalTypeOK'
    BY <1>23, Rested, ProcKinds, Places
    DEF ControllerRaises, TypeOK, ControllerPlace, Engaged, Settling, Ended
  <2>3. QED
    BY <2>1, <2>2 DEF TypeOK
<1>24. CASE CallFinishes(c)
  <2>1. SharedTypeOK'
    BY <1>24 DEF CallFinishes, TypeOK, SharedTypeOK
  <2>2. LocalTypeOK'
    BY <1>24 DEF CallFinishes, TypeOK, LocalTypeOK
  <2>3. QED
    BY <2>1, <2>2 DEF TypeOK
<1>25. CASE ContainerDies(c)
  <2>1. SharedTypeOK'
    BY <1>25, SharedKept DEF ContainerDies, TypeOK
  <2>2. LocalTypeOK'
    BY <1>25, Rested, ProcKinds, Places
    DEF ContainerDies, TypeOK, ControllerPlace, Engaged, Settling, Ended
  <2>3. QED
    BY <2>1, <2>2 DEF TypeOK
<1>26. CASE Replay(c)
  <2>1. SharedTypeOK'
    BY <1>26, SharedKept DEF Replay, TypeOK
  <2>2. LocalTypeOK'
    BY <1>26, Rested, ProcKinds, Places
    DEF Replay, TypeOK, ControllerPlace, Engaged, Settling, Ended
  <2>3. QED
    BY <2>1, <2>2 DEF TypeOK
<1>27. CASE SandboxExits(c)
  BY <1>27 DEF SandboxExits, TypeOK, SharedTypeOK, LocalTypeOK
<1>28. QED
  BY <1>1, <1>2, <1>3, <1>4, <1>5, <1>6, <1>7, <1>8, <1>9, <1>10, <1>11, <1>12, <1>13, <1>14, <1>15, <1>16, <1>17, <1>18, <1>19, <1>20, <1>21, <1>22, <1>23, <1>24, <1>25, <1>26, <1>27 DEF ControllerStep, ModalStep

(* Spawning a call (SubmissionService._spawn). *)
LEMMA SpawnTyped ==
    ASSUME TypeOK, NEW p \in Submitter \cup Recoverer, Spawn(p)
    PROVE  TypeOK'
<1>1. p \in Proc /\ "idle" \in PlaceOf(p)
  BY Places DEF Proc, Operator
<1>2. CASE Rest(p, "idle") /\ UNCHANGED call
  <2>1. SharedTypeOK'
    BY <1>2, SharedKept DEF Spawn, TypeOK
  <2>2. LocalTypeOK'
    BY <1>1, <1>2, Rested DEF TypeOK
  <2>3. QED
    BY <2>1, <2>2 DEF TypeOK
<1>3. CASE ~(Rest(p, "idle") /\ UNCHANGED call)
  <2>1. PICK c \in Call :
            /\ call' = [call EXCEPT ![c] = "running"]
            /\ pc' = [pc EXCEPT ![p] = "idle", ![c] = "queued"]
            /\ mem' = [mem EXCEPT ![p] = Fresh]
    BY <1>3 DEF Spawn
  <2>2. SharedTypeOK'
    BY <2>1 DEF Spawn, TypeOK, SharedTypeOK
  <2>3. mem' \in [Proc -> Mem]
    BY <2>1, FreshTyped DEF TypeOK, LocalTypeOK
  <2>4. "queued" \in PlaceOf(c) /\ c \in Proc
    BY Places, ProcKinds DEF ControllerPlace
  <2>5. /\ pc' \in [Proc -> Place]
        /\ \A q \in Proc : pc'[q] \in PlaceOf(q)
    <3>1. "idle" \in Place /\ "queued" \in Place
      BY <1>1, <2>4, Places
    <3>2. pc \in [Proc -> Place] /\ \A q \in Proc : pc[q] \in PlaceOf(q)
      BY DEF TypeOK, LocalTypeOK
    <3>3. QED
      BY <1>1, <2>1, <2>4, <3>1, <3>2
  <2>6. QED
    BY <2>2, <2>3, <2>5 DEF TypeOK, LocalTypeOK
<1>4. QED
  BY <1>2, <1>3

(* Every step of a submitter keeps the types. *)
LEMMA SubmitterTyped ==
    ASSUME TypeOK, NEW s \in Submitter, SubmitterStep(s)
    PROVE  TypeOK'
<1>1. CASE Submit(s)
  <2>1. SharedTypeOK'
    BY <1>1, SharedKept DEF Submit, TypeOK
  <2>2. LocalTypeOK'
    BY <1>1, Rested, ProcKinds, Places
    DEF Submit, TypeOK, SubmitterPlace, Resting
  <2>3. QED
    BY <2>1, <2>2 DEF TypeOK
<1>2. CASE CreateAdmission(s)
  <2>1. NewAdmission \in Admission
    BY DEF NewAdmission, Admission, AdmissionState, MaybeCall
  <2>2. SharedTypeOK'
    BY <1>2, <2>1 DEF CreateAdmission, TypeOK, SharedTypeOK
  <2>3. LocalTypeOK'
    BY <1>2, Rested, ProcKinds, Places
    DEF CreateAdmission, TypeOK, SubmitterPlace, Resting
  <2>4. QED
    BY <2>2, <2>3 DEF TypeOK
<1>3. CASE ObserveAdmission(s)
  <2>1. SharedTypeOK'
    BY <1>3, SharedKept DEF ObserveAdmission, TypeOK
  <2>2. LocalTypeOK'
    BY <1>3, Rested, ProcKinds, Places
    DEF ObserveAdmission, TypeOK, SubmitterPlace, Resting
  <2>3. QED
    BY <2>1, <2>2 DEF TypeOK
<1>4. CASE Spawn(s)
  BY <1>4, SpawnTyped
<1>5. QED
  BY <1>1, <1>2, <1>3, <1>4 DEF SubmitterStep

(* A process that keeps what it read and starts counting sweeps again. *)
LEMMA SweptClean ==
    ASSUME TypeOK, NEW p \in Proc, NEW l \in PlaceOf(p), Go(p, l),
           mem' = [mem EXCEPT ![p] = [@ EXCEPT !.made = 0, !.empty = 0]]
    PROVE  LocalTypeOK'
<1>1. [mem[p] EXCEPT !.made = 0, !.empty = 0] \in Mem
  BY MemTyped DEF TypeOK, LocalTypeOK
<1>2. mem' = [mem EXCEPT ![p] = [mem[p] EXCEPT !.made = 0, !.empty = 0]]
  BY DEF TypeOK, LocalTypeOK
<1>3. QED
  BY <1>1, <1>2, Moved DEF Go, TypeOK

(* Every step of a recoverer keeps the types. *)
LEMMA RecovererTyped ==
    ASSUME TypeOK, NEW r \in Recoverer, RecovererStep(r)
    PROVE  TypeOK'
<1>1. CASE Recover(r)
  <2>1. SharedTypeOK'
    BY <1>1, SharedKept DEF Recover, TypeOK
  <2>2. LocalTypeOK'
    BY <1>1, Rested, ProcKinds, Places
    DEF Recover, TypeOK, RecovererPlace, Resting
  <2>3. QED
    BY <2>1, <2>2 DEF TypeOK
<1>2. CASE RecoverProof(r)
  <2>1. SharedTypeOK'
    BY <1>2, SharedKept DEF RecoverProof, TypeOK, ReadProof, Go, MaybeCall
  <2>2. LocalTypeOK'
    BY <1>2, Rested, Went, Moved, MemTyped, FreshTyped, ProcKinds, Places
    DEF RecoverProof, ReadProof, Go, MaybeCall, TypeOK, RecovererPlace, Resting
  <2>3. QED
    BY <2>1, <2>2 DEF TypeOK
<1>3. CASE RecoverRead(r)
  <2>1. SharedTypeOK'
    BY <1>3, SharedKept DEF RecoverRead, TypeOK
  <2>2. LocalTypeOK'
    BY <1>3, Rested, Remembered, ProcKinds, Places
    DEF RecoverRead, TypeOK, RecovererPlace, Resting
  <2>3. QED
    BY <2>1, <2>2 DEF TypeOK
<1>4. CASE InspectOwner(r)
  <2>1. SharedTypeOK'
    BY <1>4, SharedKept DEF InspectOwner, TypeOK
  <2>2. LocalTypeOK'
    BY <1>4, Rested, Went, ProcKinds, Places
    DEF InspectOwner, TypeOK, RecovererPlace, Resting
  <2>3. QED
    BY <2>1, <2>2 DEF TypeOK
<1>5. CASE Settle(r)
  <2>1. SharedTypeOK'
    BY <1>5, SharedKept DEF Settle, TypeOK, ReadProof, Go, MaybeCall
  <2>2. LocalTypeOK'
    BY <1>5, Rested, Went, Moved, MemTyped, FreshTyped, ProcKinds, Places
    DEF Settle, ReadProof, Go, MaybeCall, TypeOK, RecovererPlace, Resting
  <2>3. QED
    BY <2>1, <2>2 DEF TypeOK
<1>6. CASE EnterRecovering(r)
  <2> DEFINE next == NextRevision(mem[r].seen, "recovering", NoCall, NoCall)
  <2>1. /\ Accepted(mem[r].seen, next)
        /\ admission' \in {admission, next}
        /\ Wrote(r, next, "sweep proof") \/ RetryRecovery(r)
        /\ UNCHANGED <<terminals, sandboxes, attempts, call>>
    BY <1>6 DEF EnterRecovering, Cas
  <2>2. SharedTypeOK' /\ next \in Admission
    BY <2>1, CasTyped, ProcKinds DEF AdmissionState, MaybeCall
  <2>3. LocalTypeOK'
    BY <2>1, <2>2, Rested, WroteTyped, Retried, ProcKinds, Places DEF RetryRecovery, TypeOK, RecovererPlace, Resting
  <2>4. QED
    BY <2>2, <2>3 DEF TypeOK
<1>7. CASE SweepProof(r)
  <2>1. SharedTypeOK'
    BY <1>7, SharedKept DEF SweepProof, TypeOK, ReadProof, Go, MaybeCall
  <2>2. LocalTypeOK'
    BY <1>7, Rested, Went, Moved, MemTyped, FreshTyped, ProcKinds, Places
    DEF SweepProof, ReadProof, Go, MaybeCall, TypeOK, RecovererPlace, Resting
  <2>3. QED
    BY <2>1, <2>2 DEF TypeOK
<1>8. CASE SweepStale(r)
  <2> DEFINE Quiet == /\ Go(r, "finish proof")
                      /\ mem' = [mem EXCEPT ![r] = [@ EXCEPT !.made = 0, !.empty = 0]]
  <2>1. PICK left \in SUBSET sandboxes :
            /\ sandboxes' = left
            /\ \/ Quiet
               \/ Rest(r, "idle")
               \/ /\ Go(r, "sweep proof")
                  /\ mem' = [mem EXCEPT ![r] =
                        [mem[r] EXCEPT !.made = mem[r].made + 1,
                                       !.empty = IF left = {} THEN 1 ELSE 0]]
    BY <1>8 DEF SweepStale, SweepStep
  <2>2. sandboxes' \subseteq Call
    BY <2>1 DEF TypeOK, SharedTypeOK
  <2>3. SharedTypeOK'
    BY <1>8, <2>2, SweptShared DEF TypeOK, SweepStale
  <2>4. /\ "finish proof" \in PlaceOf(r) /\ "idle" \in PlaceOf(r)
        /\ "sweep proof" \in PlaceOf(r)
    BY Places DEF RecovererPlace, Resting
  <2>5. CASE Quiet
    BY <2>3, <2>4, <2>5, SweptClean, ProcKinds DEF TypeOK
  <2>6. CASE Rest(r, "idle")
    BY <2>3, <2>4, <2>6, Rested, ProcKinds DEF TypeOK
  <2>7. CASE ~Quiet /\ ~Rest(r, "idle")
    <3>1. LocalTypeOK'
      BY <2>1, <2>4, <2>7, SweptAgain, ProcKinds
    <3>2. QED
      BY <2>3, <3>1 DEF TypeOK
  <2>8. QED
    BY <2>5, <2>6, <2>7
<1>9. CASE FinishProof(r)
  <2>1. SharedTypeOK'
    BY <1>9, SharedKept DEF FinishProof, TypeOK, ReadProof, Go, MaybeCall
  <2>2. LocalTypeOK'
    BY <1>9, Rested, Went, Moved, MemTyped, FreshTyped, ProcKinds, Places
    DEF FinishProof, ReadProof, Go, MaybeCall, TypeOK, RecovererPlace, Resting
  <2>3. QED
    BY <2>1, <2>2 DEF TypeOK
<1>10. CASE FinishRead(r)
  <2>1. SharedTypeOK'
    BY <1>10, SharedKept DEF FinishRead, TypeOK, RetryRecovery
  <2>2. LocalTypeOK'
    BY <1>10, Rested, Went, Retried, ProcKinds, Places
    DEF FinishRead, RetryRecovery, TypeOK, RecovererPlace, Resting
  <2>3. QED
    BY <2>1, <2>2 DEF TypeOK
<1>11. CASE FinishChanged(r)
  <2>1. SharedTypeOK'
    BY <1>11, SharedKept DEF FinishChanged, TypeOK, ReadProof, RetryRecovery, Go, MaybeCall
  <2>2. LocalTypeOK'
    BY <1>11, Rested, Retried, Moved, MemTyped, FreshTyped, ProcKinds, Places
    DEF FinishChanged, ReadProof, RetryRecovery, Go, MaybeCall, TypeOK, RecovererPlace, Resting
  <2>3. QED
    BY <2>1, <2>2 DEF TypeOK
<1>12. CASE PrepareSuccessor(r)
  <2> DEFINE next == NextRevision(mem[r].seen, "prepared", NoCall, NoCall)
  <2>1. /\ Accepted(mem[r].seen, next)
        /\ admission' \in {admission, next}
        /\ \/ Rest(r, "successor proof")
           \/ Go(r, "prepare lost") /\ UNCHANGED mem
        /\ UNCHANGED <<terminals, sandboxes, attempts, call>>
    BY <1>12 DEF PrepareSuccessor, Cas
  <2>2. SharedTypeOK' /\ next \in Admission
    BY <2>1, CasTyped, ProcKinds DEF AdmissionState, MaybeCall
  <2>3. LocalTypeOK'
    BY <2>1, <2>2, Rested, Went, ProcKinds, Places DEF TypeOK, RecovererPlace, Resting
  <2>4. QED
    BY <2>2, <2>3 DEF TypeOK
<1>13. CASE PrepareLost(r)
  <2>1. SharedTypeOK'
    BY <1>13, SharedKept DEF PrepareLost, TypeOK, RetryRecovery
  <2>2. LocalTypeOK'
    BY <1>13, Rested, Went, Retried, ProcKinds, Places
    DEF PrepareLost, RetryRecovery, TypeOK, RecovererPlace, Resting
  <2>3. QED
    BY <2>1, <2>2 DEF TypeOK
<1>14. CASE SuccessorProof(r)
  <2>1. SharedTypeOK'
    BY <1>14, SharedKept DEF SuccessorProof, TypeOK, ReadProof, Go, MaybeCall
  <2>2. LocalTypeOK'
    BY <1>14, Rested, Went, Moved, MemTyped, FreshTyped, ProcKinds, Places
    DEF SuccessorProof, ReadProof, Go, MaybeCall, TypeOK, RecovererPlace, Resting
  <2>3. QED
    BY <2>1, <2>2 DEF TypeOK
<1>15. CASE RecoverRequest(r)
  <2>1. SharedTypeOK'
    BY <1>15, SharedKept DEF RecoverRequest, TypeOK
  <2>2. LocalTypeOK'
    BY <1>15, Rested, ProcKinds, Places
    DEF RecoverRequest, TypeOK, RecovererPlace, Resting
  <2>3. QED
    BY <2>1, <2>2 DEF TypeOK
<1>16. CASE TerminalRead(r)
  <2>1. SharedTypeOK'
    BY <1>16, SharedKept DEF TerminalRead, TypeOK
  <2>2. LocalTypeOK'
    BY <1>16, Rested, ProcKinds, Places
    DEF TerminalRead, TypeOK, RecovererPlace, Resting
  <2>3. QED
    BY <2>1, <2>2 DEF TypeOK
<1>17. CASE TerminalSweep(r)
  <2>1. PICK left \in SUBSET sandboxes :
            /\ sandboxes' = left
            /\ \/ Rest(r, "cleaned")
               \/ Rest(r, "idle")
               \/ /\ Go(r, "terminal sweep")
                  /\ mem' = [mem EXCEPT ![r] =
                        [mem[r] EXCEPT !.made = mem[r].made + 1,
                                       !.empty = IF left = {} THEN 1 ELSE 0]]
    BY <1>17 DEF TerminalSweep, SweepStep
  <2>2. sandboxes' \subseteq Call
    BY <2>1 DEF TypeOK, SharedTypeOK
  <2>3. SharedTypeOK'
    BY <1>17, <2>2, SweptShared DEF TypeOK, TerminalSweep
  <2>4. CASE Rest(r, "cleaned")
    BY <2>3, <2>4, Rested, ProcKinds, Places DEF TypeOK, RecovererPlace, Resting
  <2>5. CASE Rest(r, "idle")
    BY <2>3, <2>5, Rested, ProcKinds, Places DEF TypeOK, RecovererPlace, Resting
  <2>6. CASE ~(Rest(r, "cleaned")) /\ ~(Rest(r, "idle"))
    <3>1. "terminal sweep" \in PlaceOf(r)
      BY Places DEF RecovererPlace, Resting
    <3>2. LocalTypeOK'
      BY <2>1, <2>6, <3>1, SweptAgain, ProcKinds
    <3>3. QED
      BY <2>3, <3>2 DEF TypeOK
  <2>7. QED
    BY <2>3, <2>4, <2>5, <2>6 DEF TypeOK
<1>18. QED
  BY <1>1, <1>2, <1>3, <1>4, <1>5, <1>6, <1>7, <1>8, <1>9, <1>10, <1>11, <1>12, <1>13, <1>14, <1>15, <1>16, <1>17 DEF RecovererStep

(* A canceller that establishes a fact. *)
LEMMA Learned ==
    ASSUME TypeOK, NEW k \in Canceller, NEW l \in PlaceOf(k),
           NEW f \in SUBSET {"stopped", "quiet"}, Learn(k, f, l)
    PROVE  LocalTypeOK'
<1>1. mem[k] \in Mem
  BY ProcKinds DEF TypeOK, LocalTypeOK
<1>2. /\ mem[k].seen \in Admission \cup {Missing}
      /\ mem[k].facts \cup f \in SUBSET {"stopped", "quiet"}
  BY <1>1 DEF Mem
<1>3. [Fresh EXCEPT !.seen = mem[k].seen, !.facts = mem[k].facts \cup f] \in Mem
  BY <1>1, <1>2, MemTyped
<1>4. QED
  BY <1>3, Moved, ProcKinds DEF Learn, Go, TypeOK

(* Every step of a canceller keeps the types. *)
LEMMA CancellerTyped ==
    ASSUME TypeOK, NEW k \in Canceller, CancellerStep(k)
    PROVE  TypeOK'
<1>1. CASE Cancel(k)
  <2>1. SharedTypeOK'
    BY <1>1, SharedKept DEF Cancel, TypeOK
  <2>2. LocalTypeOK'
    BY <1>1, Rested, ProcKinds, Places
    DEF Cancel, TypeOK, CancellerPlace, Resting
  <2>3. QED
    BY <2>1, <2>2 DEF TypeOK
<1>2. CASE CancelProof(k)
  <2>1. SharedTypeOK'
    BY <1>2, SharedKept DEF CancelProof, TypeOK
  <2>2. LocalTypeOK'
    BY <1>2, Rested, Went, ProcKinds, Places
    DEF CancelProof, TypeOK, CancellerPlace, Resting
  <2>3. QED
    BY <2>1, <2>2 DEF TypeOK
<1>3. CASE CancelRead(k)
  <2>1. SharedTypeOK'
    BY <1>3, SharedKept DEF CancelRead, TypeOK
  <2>2. LocalTypeOK'
    BY <1>3, Rested, Remembered, ProcKinds, Places
    DEF CancelRead, TypeOK, CancellerPlace, Resting
  <2>3. QED
    BY <2>1, <2>2 DEF TypeOK
<1>4. CASE CancelPrepared(k)
  <2> DEFINE next == NextRevision(mem[k].seen, "cancelled", NoCall, NoCall)
  <2>1. CASE Cas(k, next, Rest(k, "cleaned"), RetryCancellation(k))
    <3>1. /\ Accepted(mem[k].seen, next)
          /\ admission' \in {admission, next}
          /\ Rest(k, "cleaned") \/ RetryCancellation(k)
          /\ UNCHANGED <<terminals, sandboxes, attempts, call>>
      BY <1>4, <2>1 DEF CancelPrepared, Cas
    <3>2. SharedTypeOK'
      BY <3>1, CasTyped, ProcKinds DEF AdmissionState, MaybeCall
    <3>3. LocalTypeOK'
      BY <3>1, Rested, Retried, ProcKinds, Places
      DEF RetryCancellation, TypeOK, CancellerPlace, Resting
    <3>4. QED
      BY <3>2, <3>3 DEF TypeOK
  <2>2. CASE Rest(k, "invalid") /\ UNCHANGED admission
    <3>1. SharedTypeOK'
      BY <1>4, <2>2, SharedKept DEF CancelPrepared, TypeOK
    <3>2. LocalTypeOK'
      BY <2>2, Rested, ProcKinds, Places DEF TypeOK, CancellerPlace, Resting
    <3>3. QED
      BY <3>1, <3>2 DEF TypeOK
  <2>3. QED
    BY <1>4, <2>1, <2>2 DEF CancelPrepared
<1>5. CASE RecordIntent(k)
  <2> DEFINE next == NextRevision(mem[k].seen, "cancelling", NoCall, NoCall)
  <2>1. /\ Accepted(mem[k].seen, next)
        /\ admission' \in {admission, next}
        /\ Wrote(k, next, "stop owner") \/ RetryCancellation(k)
        /\ UNCHANGED <<terminals, sandboxes, attempts, call>>
    BY <1>5 DEF RecordIntent, Cas
  <2>2. SharedTypeOK' /\ next \in Admission
    BY <2>1, CasTyped, ProcKinds DEF AdmissionState, MaybeCall
  <2>3. LocalTypeOK'
    BY <2>1, <2>2, Rested, WroteTyped, Retried, ProcKinds, Places DEF RetryCancellation, TypeOK, CancellerPlace, Resting
  <2>4. QED
    BY <2>2, <2>3 DEF TypeOK
<1>6. CASE StopOwner(k)
  <2>1. SharedTypeOK'
    BY <1>6 DEF StopOwner, TypeOK, SharedTypeOK
  <2>2. LocalTypeOK'
    BY <1>6, Went, ProcKinds, Places DEF StopOwner, TypeOK, CancellerPlace
  <2>3. QED
    BY <2>1, <2>2 DEF TypeOK
<1>7. CASE PollOwner(k)
  <2>1. SharedTypeOK'
    BY <1>7, SharedKept DEF PollOwner, TypeOK
  <2>2. LocalTypeOK'
    BY <1>7, Rested, Learned, ProcKinds, Places
    DEF PollOwner, TypeOK, CancellerPlace, Resting
  <2>3. QED
    BY <2>1, <2>2 DEF TypeOK
<1>8. CASE CancelSweep(k)
  <2>1. PICK left \in SUBSET sandboxes :
            /\ sandboxes' = left
            /\ \/ Learn(k, {"quiet"}, "cancel proof")
               \/ Learn(k, {}, "cancel proof")
               \/ /\ Go(k, "cancel sweep")
                  /\ mem' = [mem EXCEPT ![k] =
                        [mem[k] EXCEPT !.made = mem[k].made + 1,
                                       !.empty = IF left = {} THEN 1 ELSE 0]]
    BY <1>8 DEF CancelSweep, SweepStep
  <2>2. sandboxes' \subseteq Call
    BY <2>1 DEF TypeOK, SharedTypeOK
  <2>3. SharedTypeOK'
    BY <1>8, <2>2, SweptShared DEF TypeOK, CancelSweep
  <2>4. CASE Learn(k, {"quiet"}, "cancel proof")
    BY <2>3, <2>4, Learned, ProcKinds, Places DEF TypeOK, CancellerPlace, Resting
  <2>5. CASE Learn(k, {}, "cancel proof")
    BY <2>3, <2>5, Learned, ProcKinds, Places DEF TypeOK, CancellerPlace, Resting
  <2>6. CASE ~(Learn(k, {"quiet"}, "cancel proof")) /\ ~(Learn(k, {}, "cancel proof"))
    <3>1. "cancel sweep" \in PlaceOf(k)
      BY Places DEF CancellerPlace, Resting
    <3>2. LocalTypeOK'
      BY <2>1, <2>6, <3>1, SweptAgain, ProcKinds
    <3>3. QED
      BY <2>3, <3>2 DEF TypeOK
  <2>7. QED
    BY <2>3, <2>4, <2>5, <2>6 DEF TypeOK
<1>9. CASE CancelProofAgain(k)
  <2>1. SharedTypeOK'
    BY <1>9, SharedKept DEF CancelProofAgain, TypeOK, Reported
  <2>2. LocalTypeOK'
    BY <1>9, Rested, Went, ProcKinds, Places
    DEF CancelProofAgain, Reported, TypeOK, CancellerPlace, Resting
  <2>3. QED
    BY <2>1, <2>2 DEF TypeOK
<1>10. CASE CancelReread(k)
  <2>1. SharedTypeOK'
    BY <1>10, SharedKept DEF CancelReread, TypeOK
  <2>2. \/ Rest(k, "cleaned") \/ Rest(k, "idle")
        \/ Remember(k, "cancelled write")
    BY <1>10 DEF CancelReread, Reported, Remember
  <2>3. LocalTypeOK'
    BY <2>2, Rested, Remembered, ProcKinds, Places DEF TypeOK, CancellerPlace, Resting
  <2>4. QED
    BY <2>1, <2>3 DEF TypeOK
<1>11. CASE RecordCancelled(k)
  <2> DEFINE next == NextRevision(mem[k].seen, "cancelled", NoCall, NoCall)
  <2>1. /\ Accepted(mem[k].seen, next)
        /\ admission' \in {admission, next}
        /\ \/ Rest(k, "cleaned")
           \/ Go(k, "cancel lost") /\ UNCHANGED mem
        /\ UNCHANGED <<terminals, sandboxes, attempts, call>>
    BY <1>11 DEF RecordCancelled, Cas
  <2>2. SharedTypeOK' /\ next \in Admission
    BY <2>1, CasTyped, ProcKinds DEF AdmissionState, MaybeCall
  <2>3. LocalTypeOK'
    BY <2>1, <2>2, Rested, Went, ProcKinds, Places DEF TypeOK, CancellerPlace, Resting
  <2>4. QED
    BY <2>2, <2>3 DEF TypeOK
<1>12. CASE CancelLost(k)
  <2>1. SharedTypeOK'
    BY <1>12, SharedKept DEF CancelLost, TypeOK, Reported
  <2>2. LocalTypeOK'
    BY <1>12, Rested, Went, ProcKinds, Places
    DEF CancelLost, Reported, TypeOK, CancellerPlace, Resting
  <2>3. QED
    BY <2>1, <2>2 DEF TypeOK
<1>13. CASE CancelLostRead(k)
  <2>1. SharedTypeOK'
    BY <1>13, SharedKept DEF CancelLostRead, TypeOK, Reported
  <2>2. LocalTypeOK'
    BY <1>13, Rested, ProcKinds, Places
    DEF CancelLostRead, Reported, TypeOK, CancellerPlace, Resting
  <2>3. QED
    BY <2>1, <2>2 DEF TypeOK
<1>14. QED
  BY <1>1, <1>2, <1>3, <1>4, <1>5, <1>6, <1>7, <1>8, <1>9, <1>10, <1>11, <1>12, <1>13 DEF CancellerStep

-----------------------------------------------------------------------------

(* The initial state is typed. *)
LEMMA InitTyped == Init => TypeOK
<1> SUFFICES ASSUME Init PROVE TypeOK
  OBVIOUS
<1>1. SharedTypeOK
  BY DEF Init, SharedTypeOK
<1>2. \A p \in Proc : pc[p] \in PlaceOf(p)
  BY ProcAssumption DEF Init, PlaceOf, Proc, Operator, ControllerPlace, Ended,
     SubmitterPlace, RecovererPlace, CancellerPlace, Resting
<1>3. pc \in [Proc -> Place]
  <2>1. \A p \in Proc : pc[p] \in Place
    BY <1>2, Places
  <2>2. pc = [p \in Proc |-> pc[p]]
    BY DEF Init
  <2>3. QED
    BY <2>1, <2>2
<1>4. mem \in [Proc -> Mem]
  BY FreshTyped DEF Init
<1>5. QED
  BY <1>1, <1>2, <1>3, <1>4 DEF TypeOK, LocalTypeOK

(* Every step of the system preserves the types. *)
LEMMA StepTyped == TypeOK /\ [Next]_vars => TypeOK'
<1> SUFFICES ASSUME TypeOK, [Next]_vars PROVE TypeOK'
  OBVIOUS
<1>1. ASSUME NEW c \in Call, ControllerStep(c) \/ ModalStep(c) PROVE TypeOK'
  BY <1>1, ControllerTyped
<1>2. ASSUME NEW s \in Submitter, SubmitterStep(s) PROVE TypeOK'
  BY <1>2, SubmitterTyped
<1>3. ASSUME NEW r \in Recoverer, RecovererStep(r) \/ Spawn(r) PROVE TypeOK'
  BY <1>3, RecovererTyped, SpawnTyped
<1>4. ASSUME NEW k \in Canceller, CancellerStep(k) PROVE TypeOK'
  BY <1>4, CancellerTyped
<1>5. ASSUME NEW p \in Operator, OperatorFails(p) PROVE TypeOK'
  <2>1. SharedTypeOK'
    BY <1>5, SharedKept DEF OperatorFails, TypeOK
  <2>2. LocalTypeOK'
    BY <1>5, Rested, Places DEF OperatorFails, TypeOK, Proc
  <2>3. QED
    BY <2>1, <2>2 DEF TypeOK
<1>6. CASE UNCHANGED vars
  BY <1>6 DEF vars, TypeOK, SharedTypeOK, LocalTypeOK
<1>7. QED
  BY <1>1, <1>2, <1>3, <1>4, <1>5, <1>6 DEF Next

(* Whatever the numbers of calls and operators, the loop bounds and the    *)
(* stop model: every object holds what the code can put there and every    *)
(* process stays within its own program.                                   *)
THEOREM TypesAlwaysHold == Spec => []TypeOK
<1>1. QED
  BY InitTyped, StepTyped, PTL DEF Spec
=============================================================================
