--------------------------- MODULE AdmissionProofs ---------------------------
(***************************************************************************)
(* KnowledgeHolds is an inductive invariant of DetachedRun, the admission  *)
(* changes along the edges of AdmissionInvariant only, and what follows    *)
(* for cancellation, ownership and terminal proof; for every number of     *)
(* calls and operators, all loop bounds and all stop models.               *)
(***************************************************************************)
EXTENDS AdmissionLemmas

(* A controller that takes a visible proof along to acknowledge it. *)
LEMMA ToAck ==
    ASSUME TypeOK, KnowledgeHolds, NEW c \in Call, NEW d \in terminals, Go(c, "ack"),
           mem' = [mem EXCEPT ![c] = [Fresh EXCEPT !.proof = d]],
           UNCHANGED <<admission, terminals, sandboxes, call>>
    PROVE  KnowledgeHolds'
<1>1. c \in Proc
  BY ProcKinds
<1>2. /\ pc'[c] = "ack" /\ Others(c)
      /\ mem'[c] = [Fresh EXCEPT !.proof = d]
  BY <1>1 DEF Go, Others, TypeOK, LocalTypeOK
<1>3. mem'[c].proof = d
  BY <1>2 DEF Fresh
<1>4. Known(c)'
  BY <1>2, <1>3 DEF Known, Holding, RecoverHolds, StoppingHolds
<1>5. ~NeverRun
  BY DEF KnowledgeHolds, KnownOfRun
<1>6. KnownOfCall(c)'
  BY <1>2, <1>5 DEF KnownOfCall, NeverRun
<1>7. QED
  BY <1>1, <1>2, <1>4, <1>6, OwnStep, CalmRun DEF Calm, Knows, KnowledgeHolds

(* A cancellation check of the controller (_is_cancelling) preserves the   *)
(* invariant.                                                              *)
LEMMA CheckKnows ==
    ASSUME TypeOK, KnowledgeHolds, NEW c \in Call, NEW here, NEW running, NEW cancelled,
           CheckAdmission(c, here, running, cancelled),
           here \notin BeforeClaim, {running, cancelled} \cap (Holding \cup {"ack", "unspawned"}) = {}
    PROVE  KnowledgeHolds'
<1>1. Calm
  BY DEF CheckAdmission, Calm
<1>2. PICK l \in {running, cancelled, "mark failed"} : Rest(c, l)
  BY DEF CheckAdmission
<1>3. l \notin Holding /\ l # "ack" /\ l # "unspawned"
  BY DEF Holding, RecoverHolds, StoppingHolds
<1>4. QED
  BY <1>1, <1>2, <1>3, CalmRest, ProcKinds DEF CheckAdmission

(* A child sweep of the controller (_quiesce_children) preserves the       *)
(* invariant.                                                              *)
LEMMA DrainKnows ==
    ASSUME TypeOK, KnowledgeHolds, NEW c \in Call, NEW here, NEW next,
           Drain(c, here, next),
           here \notin BeforeClaim,
           {here, next} \cap (Holding \cup {"ack", "unspawned"}) = {}
    PROVE  KnowledgeHolds'
<1>1. Calm
  BY DEF Drain, SweepStep, Calm
<1>2. \/ Rest(c, next)
      \/ Rest(c, "mark failed")
      \/ /\ Go(c, here)
         /\ \E e \in {0, 1} : mem' = [mem EXCEPT ![c] =
               [mem[c] EXCEPT !.made = mem[c].made + 1, !.empty = e]]
  BY DEF Drain, SweepStep
<1>3. "mark failed" \notin Holding
  BY DEF Holding, RecoverHolds, StoppingHolds
<1>4. CASE Rest(c, next) \/ Rest(c, "mark failed")
  BY <1>1, <1>3, <1>4, CalmRest, ProcKinds DEF Drain
<1>5. CASE ~(Rest(c, next) \/ Rest(c, "mark failed"))
  <2>1. c \in Proc
    BY ProcKinds
  <2>2. PICK e \in {0, 1} :
            /\ Go(c, here)
            /\ mem' = [mem EXCEPT ![c] =
                 [mem[c] EXCEPT !.made = mem[c].made + 1, !.empty = e]]
    BY <1>2, <1>5
  <2>3. mem[c] \in Mem
    BY <2>1 DEF TypeOK, LocalTypeOK
  <2>4. /\ pc'[c] = here /\ Others(c)
        /\ mem'[c] = [mem[c] EXCEPT !.made = mem[c].made + 1, !.empty = e]
    BY <2>1, <2>2 DEF Go, Others, TypeOK, LocalTypeOK
  <2>5. mem'[c].seen = mem[c].seen /\ mem'[c].facts = mem[c].facts
    BY <2>3, <2>4 DEF Mem
  <2>6. /\ here \notin Assessing /\ here \notin StoppingHolds
        /\ here \notin {"ack", "ack write", "failed write", "cancel prepared", "cancelled write"}
    BY DEF Holding, RecoverHolds, StoppingHolds, Assessing
  <2>8. pc[c] = here
    BY DEF Drain
  <2>9. QED
    BY <1>1, <2>1, <2>4, <2>5, <2>6, <2>8, CalmGo
<1>6. QED
  BY <1>4, <1>5

(* Every step of a controller call, and of Modal, preserves the invariant. *)
LEMMA ControllerKnows ==
    ASSUME TypeOK, KnowledgeHolds, NEW c \in Call, ControllerStep(c) \/ ModalStep(c)
    PROVE  KnowledgeHolds'
<1>0. c \in Proc
  BY ProcKinds
<1>1. CASE ReconcileAtStart(c)
  <2>1. UNCHANGED <<admission, terminals, sandboxes, call>>
    BY <1>1 DEF ReconcileAtStart
  <2>2. \/ \E l \in {"returned", "claim"} : Rest(c, l)
        \/ \E d \in terminals : /\ Go(c, "ack")
                               /\ mem' = [mem EXCEPT ![c] = [Fresh EXCEPT !.proof = d]]
    BY <1>1 DEF ReconcileAtStart, ProofIs
  <2>3. CASE \E l \in {"returned", "claim"} : Rest(c, l)
    BY <1>0, <1>1, <2>1, <2>3, CalmRest DEF ReconcileAtStart, Calm, BeforeClaim, Ended, Holding, RecoverHolds, StoppingHolds
  <2>4. CASE ~\E l \in {"returned", "claim"} : Rest(c, l)
    BY <2>1, <2>2, <2>4, ToAck
  <2>5. QED
    BY <2>3, <2>4
<1>2. CASE ReadForClaim(c)
  <2>1. CASE Rest(c, "returned")
    BY <1>0, <1>2, <2>1, CalmRest DEF ReadForClaim, Calm, BeforeClaim, Ended, Holding, RecoverHolds, StoppingHolds
  <2>2. CASE Remember(c, "claim write") /\ admission.state = "prepared"
    BY <1>0, <1>2, <2>2, CalmRemember, NotMissing DEF ReadForClaim, Unlearned, StoppingHolds, BeforeClaim, Ended
  <2>3. QED
    BY <1>2, <2>1, <2>2 DEF ReadForClaim
<1>3. CASE Claim(c)
  <2>1. /\ pc[c] = "claim write"
        /\ UNCHANGED <<terminals, sandboxes, call>>
        /\ \/ Rest(c, "returned")
           \/ /\ Rest(c, "postclaim") /\ EtagMatches(c)
              /\ admission' = NextRevision(mem[c].seen, "running", c, NoCall)
    BY <1>3 DEF Claim, Cas
  <2>2. Calm
    BY <1>3, <2>1, ClaimEdge DEF Calm, Edge
  <2>3. CASE Rest(c, "returned")
    BY <1>0, <2>2, <2>3, CalmRest DEF BeforeClaim, Ended, Holding, RecoverHolds, StoppingHolds
  <2>4. CASE ~Rest(c, "returned")
    <3>1. /\ pc'[c] = "postclaim" /\ Others(c)
      BY <1>0, <2>1, <2>4 DEF Rest, Go, Others, TypeOK, LocalTypeOK
    <3>2. Known(c)'
      BY <3>1 DEF Known, Holding, RecoverHolds, StoppingHolds
    <3>3. ~NeverRun'
      <4>1. admission' = NextRevision(mem[c].seen, "running", c, NoCall)
        BY <2>1, <2>4
      <4>2. admission'.state = "running" /\ admission'.revision = mem[c].seen.revision + 1
        BY <4>1 DEF NextRevision
      <4>3. mem[c].seen \in Admission
        BY <1>0, <2>1 DEF KnowledgeHolds, Known, Coherent, Holding
      <4>4. mem[c].seen.revision \in Nat
        BY <4>3 DEF Admission
      <4>5. QED
        BY <4>2, <4>4 DEF NeverRun
    <3>4. KnownOfCall(c)'
      BY <3>1, <3>3 DEF KnownOfCall
    <3>5. QED
      BY <1>0, <2>2, <3>1, <3>2, <3>4, OwnStep, CalmRun DEF Knows, KnowledgeHolds
  <2>5. QED
    BY <2>3, <2>4
<1>4. CASE ReconcileAfterClaim(c)
  <2>1. UNCHANGED <<admission, terminals, sandboxes, call>>
    BY <1>4 DEF ReconcileAfterClaim
  <2>2. \/ \E l \in {"mark failed", "check setup"} : Rest(c, l)
        \/ \E d \in terminals : /\ Go(c, "ack")
                               /\ mem' = [mem EXCEPT ![c] = [Fresh EXCEPT !.proof = d]]
    BY <1>4 DEF ReconcileAfterClaim, ProofIs
  <2>3. CASE \E l \in {"mark failed", "check setup"} : Rest(c, l)
    BY <1>0, <1>4, <2>1, <2>3, CalmRest DEF ReconcileAfterClaim, Calm, BeforeClaim, Ended, Holding, RecoverHolds, StoppingHolds
  <2>4. CASE ~\E l \in {"mark failed", "check setup"} : Rest(c, l)
    BY <2>1, <2>2, <2>4, ToAck
  <2>5. QED
    BY <2>3, <2>4
<1>5. CASE CheckBeforeSetup(c)
  BY <1>5, CheckKnows DEF CheckBeforeSetup, BeforeClaim, Ended, Holding, RecoverHolds, StoppingHolds
<1>6. CASE CheckAfterCleanup(c)
  BY <1>6, CheckKnows DEF CheckAfterCleanup, BeforeClaim, Ended, Holding, RecoverHolds, StoppingHolds
<1>7. CASE CheckBeforeHarbor(c)
  BY <1>7, CheckKnows DEF CheckBeforeHarbor, BeforeClaim, Ended, Holding, RecoverHolds, StoppingHolds
<1>8. CASE CheckResult(c)
  BY <1>8, CheckKnows DEF CheckResult, BeforeClaim, Ended, Holding, RecoverHolds, StoppingHolds
<1>9. CASE DrainPrior(c)
  BY <1>9, DrainKnows DEF DrainPrior, BeforeClaim, Ended, Holding, RecoverHolds, StoppingHolds
<1>10. CASE DrainResult(c)
  BY <1>10, DrainKnows DEF DrainResult, BeforeClaim, Ended, Holding, RecoverHolds, StoppingHolds
<1>11. CASE DrainCancelled(c)
  BY <1>11, DrainKnows DEF DrainCancelled, BeforeClaim, Ended, Holding, RecoverHolds, StoppingHolds
<1>12. CASE BeginAttempt(c)
  BY <1>0, <1>12, CalmRest DEF BeginAttempt, Calm, BeforeClaim, Ended, Holding, RecoverHolds, StoppingHolds
<1>13. CASE StartSandbox(c)
  <2>1. ~NeverRun
    BY <1>13 DEF StartSandbox, KnowledgeHolds, KnownOfCall, BeforeClaim, Ended
  <2>2. Progress /\ KnownOfRun'
    BY <1>13, <2>1 DEF StartSandbox, Progress, KnowledgeHolds, KnownOfRun, NeverRun
  <2>3. \A q \in Proc : Knows(q)'
    BY <1>13, <2>2, StillKnows DEF StartSandbox
  <2>4. QED
    BY <2>2, <2>3, ProcKinds DEF Knows, KnowledgeHolds
<1>14. CASE HarborReturns(c)
  <2>1. Calm /\ Rest(c, "check result") /\ pc[c] = "harbor"
    BY <1>14 DEF HarborReturns, Calm
  <2>2. QED
    BY <1>0, <2>1, CalmRest DEF BeforeClaim, Ended, Holding, RecoverHolds, StoppingHolds
<1>15. CASE AuthorizeTerminal(c)
  BY <1>0, <1>15, CalmRest DEF AuthorizeTerminal, Calm, BeforeClaim, Ended, Holding, RecoverHolds, StoppingHolds
<1>16. CASE ObserveBeforeTerminal(c)
  BY <1>0, <1>16, CalmRest DEF ObserveBeforeTerminal, Calm, BeforeClaim, Ended, Holding, RecoverHolds, StoppingHolds
<1>17. CASE PutTerminal(c)
  <2>1. ~NeverRun
    BY <1>17 DEF PutTerminal, KnowledgeHolds, KnownOfCall, BeforeClaim, Ended
  <2>2. Progress /\ KnownOfRun'
    BY <1>17, <2>1 DEF PutTerminal, Progress, KnowledgeHolds, KnownOfRun, NeverRun
  <2>3. /\ pc'[c] = "verify" /\ Others(c)
    BY <1>0, <1>17 DEF PutTerminal, Rest, Go, Others, TypeOK, LocalTypeOK
  <2>4. Known(c)' /\ KnownOfCall(c)'
    BY <1>17, <2>1, <2>3 DEF PutTerminal, Known, KnownOfCall, NeverRun, Holding, RecoverHolds, StoppingHolds
  <2>5. QED
    BY <1>0, <2>2, <2>3, <2>4, OwnStep DEF Knows
<1>18. CASE VerifyTerminal(c)
  <2>1. UNCHANGED <<admission, terminals, sandboxes, call>>
    BY <1>18 DEF VerifyTerminal
  <2>2. \/ \E l \in {"mark failed"} : Rest(c, l)
        \/ \E d \in terminals : /\ Go(c, "ack")
                               /\ mem' = [mem EXCEPT ![c] = [Fresh EXCEPT !.proof = d]]
    BY <1>18 DEF VerifyTerminal, ProofIs
  <2>3. CASE \E l \in {"mark failed"} : Rest(c, l)
    BY <1>0, <1>18, <2>1, <2>3, CalmRest DEF VerifyTerminal, Calm, BeforeClaim, Ended, Holding, RecoverHolds, StoppingHolds
  <2>4. CASE ~\E l \in {"mark failed"} : Rest(c, l)
    BY <2>1, <2>2, <2>4, ToAck
  <2>5. QED
    BY <2>3, <2>4
<1>19. CASE ReadForAck(c)
  <2>1. CASE Rest(c, "returned")
    BY <1>0, <1>19, <2>1, CalmRest DEF ReadForAck, Calm, BeforeClaim, Ended, Holding, RecoverHolds, StoppingHolds
  <2>2. CASE Remember(c, "ack write") /\ admission.state \in Acknowledgeable
    <3>1. admission # Missing
      BY <2>2, NotMissing DEF Acknowledgeable
    <3>2. mem[c].proof \in terminals
      BY <1>0, <1>19 DEF ReadForAck, KnowledgeHolds, Known
    <3>3. QED
      BY <1>0, <1>19, <2>2, <3>1, <3>2, CalmRemember
      DEF ReadForAck, Unlearned, StoppingHolds, BeforeClaim, Ended
  <2>3. QED
    BY <1>19, <2>1, <2>2 DEF ReadForAck
<1>20. CASE Acknowledge(c)
  <2>1. /\ pc[c] = "ack write"
        /\ UNCHANGED <<terminals, sandboxes, call>>
        /\ Rest(c, "returned") \/ Retry(c, "ack", CasTries, "returned")
    BY <1>20 DEF Acknowledge, Cas
  <2>2. Calm
    BY <1>20, <2>1, AcknowledgeEdge DEF Calm, Edge
  <2>3. mem[c].proof \in terminals
    BY <1>0, <2>1 DEF KnowledgeHolds, Known
  <2>4. QED
    BY <1>0, <2>1, <2>2, <2>3, CalmRest, CalmRetry DEF BeforeClaim, Ended, Holding, RecoverHolds, StoppingHolds
<1>21. CASE ReadForFailure(c)
  <2>1. CASE Rest(c, "returned")
    BY <1>0, <1>21, <2>1, CalmRest DEF ReadForFailure, Calm, BeforeClaim, Ended, Holding, RecoverHolds, StoppingHolds
  <2>2. CASE Remember(c, "failed write") /\ admission.state = "running"
    BY <1>0, <1>21, <2>2, CalmRemember, NotMissing
    DEF ReadForFailure, Unlearned, StoppingHolds, BeforeClaim, Ended
  <2>3. QED
    BY <1>21, <2>1, <2>2 DEF ReadForFailure
<1>22. CASE MarkFailed(c)
  <2>1. /\ pc[c] = "failed write"
        /\ UNCHANGED <<terminals, sandboxes, call>>
        /\ Rest(c, "returned") \/ Retry(c, "mark failed", CasTries, "returned")
    BY <1>22 DEF MarkFailed, Cas
  <2>2. Calm
    BY <1>22, <2>1, MarkFailedEdge DEF Calm, Edge
  <2>3. QED
    BY <1>0, <2>1, <2>2, CalmRest, CalmRetry DEF BeforeClaim, Ended, Holding, RecoverHolds, StoppingHolds
<1>23. CASE ControllerRaises(c)
  BY <1>0, <1>23, CalmRest DEF ControllerRaises, Engaged, Calm, BeforeClaim, Ended, Holding, RecoverHolds, StoppingHolds
<1>24. CASE CallFinishes(c)
  <2>1. /\ call[c] \in {"running", "stopping"}
        /\ call' = [call EXCEPT ![c] = "finished"]
        /\ UNCHANGED <<admission, terminals, sandboxes, pc, mem>>
    BY <1>24 DEF CallFinishes
  <2>2. call \in [Call -> {"unspawned", "running", "stopping", "finished"}]
    BY DEF TypeOK, SharedTypeOK
  <2>3. pc[c] # "unspawned"
    BY <2>1 DEF KnowledgeHolds, KnownOfCall
  <2>4. /\ \A d \in Call : call[d] = "finished" => call'[d] = "finished"
        /\ \A d \in Call : call[d] = "unspawned" => call'[d] = "unspawned"
    BY <2>1, <2>2
  <2>5. Progress
    BY <2>1, <2>4 DEF Progress
  <2>6. KnownOfRun'
    <3>1. /\ admission.state = "recovering" => admission.owner \in Call
          /\ admission.owner # NoCall => admission.owner \in Call
      BY DEF TypeOK, SharedTypeOK, KnowledgeHolds, KnownOfRun, ValidRevision, Missing,
         Admission, MaybeCall
    <3>2. QED
      BY <2>1, <2>4, <3>1 DEF KnowledgeHolds, KnownOfRun, NeverRun
  <2>7. \A q \in Proc : Knows(q)'
    BY <2>1, <2>5, StillKnows
  <2>8. QED
    BY <2>6, <2>7, ProcKinds DEF Knows, KnowledgeHolds
<1>25. CASE ContainerDies(c)
  BY <1>0, <1>25, CalmRest DEF ContainerDies, Alive, Calm, BeforeClaim, Ended, Holding, RecoverHolds, StoppingHolds
<1>26. CASE Replay(c)
  BY <1>0, <1>26, CalmRest DEF Replay, Calm, BeforeClaim, Ended, Holding, RecoverHolds, StoppingHolds
<1>27. CASE SandboxExits(c)
  <2>1. Calm /\ UNCHANGED <<pc, mem>>
    BY <1>27 DEF SandboxExits, Calm
  <2>2. KnownOfRun' /\ Progress
    BY <2>1, CalmRun DEF KnowledgeHolds
  <2>3. \A q \in Proc : Knows(q)'
    BY <2>1, <2>2, StillKnows
  <2>4. QED
    BY <2>2, <2>3, ProcKinds DEF Knows, KnowledgeHolds
<1>28. QED
  BY <1>1, <1>2, <1>3, <1>4, <1>5, <1>6, <1>7, <1>8, <1>9, <1>10, <1>11, <1>12, <1>13, <1>14, <1>15, <1>16, <1>17, <1>18, <1>19, <1>20, <1>21, <1>22, <1>23, <1>24, <1>25, <1>26, <1>27 DEF ControllerStep, ModalStep

(* A command that goes on in a calm step, with its locals unchanged, keeps *)
(* its knowledge.                                                          *)
LEMMA CalmStay ==
    ASSUME TypeOK, KnowledgeHolds, NEW p \in Proc, NEW l, Calm,
           Go(p, l), UNCHANGED mem, p \notin Call,
           l \in Holding => pc[p] \in Holding,
           l \notin {"ack", "ack write", "failed write", "cancel prepared", "cancelled write"},
           l \in Assessing => pc[p] \in Assessing,
           l \in Assessing \ {"inspect"} => pc[p] \in Assessing \ {"inspect"},
           l \in Unlearned => pc[p] \in Unlearned,
           l \in StoppingHolds => pc[p] \in StoppingHolds
    PROVE  KnowledgeHolds'
<1>1. pc'[p] = l /\ Others(p)
  BY DEF Go, Others, TypeOK, LocalTypeOK
<1>2. mem'[p].seen = mem[p].seen /\ mem'[p].facts = mem[p].facts
  OBVIOUS
<1>3. QED
  BY <1>1, <1>2, CalmGo

(* Spawning a call (SubmissionService._spawn) preserves the invariant. *)
LEMMA SpawnKnows ==
    ASSUME TypeOK, KnowledgeHolds, NEW p \in Submitter \cup Recoverer, Spawn(p)
    PROVE  KnowledgeHolds'
<1>0. p \in Proc /\ p \notin Call
  BY ProcAssumption DEF Proc, Operator
<1>1. CASE Rest(p, "idle") /\ UNCHANGED call
  BY <1>0, <1>1, CalmRest DEF Spawn, Calm, Holding, RecoverHolds, StoppingHolds
<1>2. CASE ~(Rest(p, "idle") /\ UNCHANGED call)
  <2>1. PICK c \in Call :
            /\ pc[c] = "unspawned"
            /\ call' = [call EXCEPT ![c] = "running"]
            /\ pc' = [pc EXCEPT ![p] = "idle", ![c] = "queued"]
            /\ mem' = [mem EXCEPT ![p] = Fresh]
            /\ UNCHANGED <<admission, terminals, sandboxes>>
    BY <1>2 DEF Spawn
  <2>2. call[c] = "unspawned"
    BY <2>1 DEF KnowledgeHolds, KnownOfCall
  <2>3. /\ c \in Proc /\ c # p
        /\ pc'[c] = "queued" /\ pc'[p] = "idle"
        /\ \A q \in Proc : q \notin {p, c} => pc'[q] = pc[q] /\ mem'[q] = mem[q]
    BY <1>0, <2>1, ProcKinds DEF TypeOK, LocalTypeOK
  <2>4. \A d \in Call : d # c => call'[d] = call[d]
    BY <2>1 DEF TypeOK, SharedTypeOK
  <2>5. \A d \in Call : call[d] = "finished" => call'[d] = "finished"
    BY <2>2, <2>4
  <2>6. Progress
    BY <2>1, <2>3, <2>4, <2>5 DEF Progress
  <2>7. KnownOfRun'
    <3>1. /\ admission.state = "recovering" => admission.owner \in Call
          /\ admission.owner # NoCall => admission.owner \in Call
      BY DEF TypeOK, SharedTypeOK, KnowledgeHolds, KnownOfRun, ValidRevision, Missing,
         Admission, MaybeCall
    <3>2. QED
      BY <2>1, <2>5, <3>1 DEF KnowledgeHolds, KnownOfRun, NeverRun
  <2>8. \A q \in Proc : Knows(q)'
    <3> TAKE q \in Proc
    <3>1. CASE q \notin {p, c}
      BY <2>3, <2>6, <3>1, StillKnows
    <3>2. CASE q \in {p, c}
      <4>1. pc'[q] \in {"idle", "queued"}
        BY <2>3, <3>2
      <4>2. Known(q)'
        BY <4>1 DEF Known, Holding, RecoverHolds, StoppingHolds
      <4>3. q \in Call => KnownOfCall(q)'
        BY <1>0, <2>3, <3>2 DEF KnownOfCall, BeforeClaim
      <4>4. QED
        BY <4>2, <4>3 DEF Knows
    <3>3. QED
      BY <3>1, <3>2
  <2>9. QED
    BY <2>7, <2>8, ProcKinds DEF Knows, KnowledgeHolds
<1>3. QED
  BY <1>1, <1>2

(* Every step of a submission preserves the invariant. *)
LEMMA SubmitterKnows ==
    ASSUME TypeOK, KnowledgeHolds, NEW s \in Submitter, SubmitterStep(s)
    PROVE  KnowledgeHolds'
<1>0. s \in Proc /\ s \notin Call
  BY ProcKinds, ProcAssumption DEF Operator
<1>1. CASE Submit(s)
  BY <1>0, <1>1, CalmRest DEF Submit, Calm, Holding, RecoverHolds, StoppingHolds
<1>2. CASE CreateAdmission(s)
  <2>1. Calm
    BY <1>2 DEF CreateAdmission, Calm, Edge, Created
  <2>2. Rest(s, "spawn") \/ Rest(s, "reread")
    BY <1>2 DEF CreateAdmission
  <2>3. QED
    BY <1>0, <2>1, <2>2, CalmRest DEF Holding, RecoverHolds, StoppingHolds
<1>3. CASE ObserveAdmission(s)
  BY <1>0, <1>3, CalmRest DEF ObserveAdmission, Calm, Holding, RecoverHolds, StoppingHolds
<1>4. CASE Spawn(s)
  BY <1>4, SpawnKnows
<1>5. QED
  BY <1>1, <1>2, <1>3, <1>4 DEF SubmitterStep

(* What a process wrote is a record to hold. *)
LEMMA WrittenCoherent ==
    ASSUME TypeOK, KnowledgeHolds, Calm, admission'.state # "missing",
           NEW p \in Proc, mem'[p].seen = admission'
    PROVE  Coherent(mem[p].seen)'
<1>1. admission' \in Admission \cup {Missing}
  BY EdgeFacts DEF Calm, TypeOK, SharedTypeOK, KnowledgeHolds
<1>2. admission' # Missing
  BY DEF Missing
<1>3. ValidRevision(admission')
  BY <1>2, CalmRun DEF KnowledgeHolds, KnownOfRun
<1>4. admission'.revision <= admission'.revision
  BY <1>1, <1>2, SelfBound
<1>5. QED
  BY <1>1, <1>2, <1>3, <1>4 DEF Coherent

(* A recoverer that looks for a proof. *)
LEMMA ProofLooked ==
    ASSUME TypeOK, KnowledgeHolds, NEW r \in Recoverer,
           UNCHANGED <<admission, terminals, sandboxes, call>>,
           \/ Rest(r, "idle")
           \/ \E d \in Call : /\ Go(r, "terminal read")
                              /\ mem' = [mem EXCEPT ![r] = [Fresh EXCEPT !.proof = d]]
    PROVE  KnowledgeHolds'
<1>0. r \in Proc /\ r \notin Call
  BY ProcKinds, ProcAssumption DEF Operator
<1>1. Calm
  BY DEF Calm
<1>2. CASE Rest(r, "idle")
  BY <1>0, <1>1, <1>2, CalmRest DEF Holding, RecoverHolds, StoppingHolds
<1>3. CASE ~Rest(r, "idle")
  <2>1. pc'[r] = "terminal read" /\ Others(r)
    BY <1>0, <1>3 DEF Go, Others, TypeOK, LocalTypeOK
  <2>2. Known(r)'
    BY <2>1 DEF Known, Holding, RecoverHolds, StoppingHolds
  <2>3. QED
    BY <1>0, <1>1, <2>1, <2>2, OwnStep, CalmRun DEF Knows, KnowledgeHolds
<1>4. QED
  BY <1>2, <1>3

(* Every step of a recovery preserves the invariant. *)
LEMMA RecovererKnows ==
    ASSUME TypeOK, KnowledgeHolds, NEW r \in Recoverer, RecovererStep(r)
    PROVE  KnowledgeHolds'
<1>0. r \in Proc /\ r \notin Call
  BY ProcKinds, ProcAssumption DEF Operator
<1>1. CASE Recover(r)
  BY <1>0, <1>1, CalmRest DEF Recover, Resting, Calm, Holding, RecoverHolds, StoppingHolds
<1>2. CASE RecoverProof(r)
  <2>1. /\ UNCHANGED <<admission, terminals, sandboxes, call>>
        /\ pc[r] = "recover" /\ Calm
    BY <1>2 DEF RecoverProof, ReadProof, Calm
  <2>2. CASE Go(r, "recover read") /\ UNCHANGED mem
    BY <1>0, <2>1, <2>2, CalmStay DEF Assessing, Unlearned, Holding, RecoverHolds, StoppingHolds
  <2>3. CASE ~(Go(r, "recover read") /\ UNCHANGED mem)
    <3>1. \/ Rest(r, "idle")
          \/ \E d \in Call : /\ Go(r, "terminal read")
                             /\ mem' = [mem EXCEPT ![r] = [Fresh EXCEPT !.proof = d]]
      BY <1>2, <2>3 DEF RecoverProof, ReadProof
    <3>2. QED
      BY <2>1, <3>1, ProofLooked
  <2>4. QED
    BY <2>2, <2>3
<1>3. CASE RecoverRead(r)
  <2>1. UNCHANGED <<admission, terminals, sandboxes, call>> /\ Calm
    BY <1>3 DEF RecoverRead, Calm
  <2>2. CASE Rest(r, "idle") \/ Rest(r, "successor read")
    BY <1>0, <2>1, <2>2, CalmRest DEF Holding, RecoverHolds, StoppingHolds
  <2>3. CASE Remember(r, "inspect") /\ admission.state \in {"running", "failed"}
    BY <1>0, <2>1, <2>3, CalmRemember, NotMissing DEF Unlearned, StoppingHolds
  <2>4. CASE Remember(r, "sweep proof") /\ admission.state = "recovering"
    BY <1>0, <2>1, <2>4, CalmRemember, NotMissing DEF Unlearned, StoppingHolds
  <2>5. QED
    BY <1>3, <2>2, <2>3, <2>4 DEF RecoverRead
<1>4. CASE InspectOwner(r)
  <2>1. UNCHANGED <<admission, terminals, sandboxes, call>> /\ Calm /\ pc[r] = "inspect"
    BY <1>4 DEF InspectOwner, Calm
  <2>2. CASE Rest(r, "idle")
    BY <1>0, <2>1, <2>2, CalmRest DEF Holding, RecoverHolds, StoppingHolds
  <2>3. CASE call[mem[r].seen.owner] = "finished" /\ Go(r, "settle") /\ UNCHANGED mem
    <3>1. /\ pc'[r] = "settle" /\ Others(r)
      BY <1>0, <2>3 DEF Go, Others, TypeOK, LocalTypeOK
    <3>2. Coherent(mem[r].seen) /\ mem[r].seen.state \in {"running", "failed"}
      BY <1>0, <2>1 DEF KnowledgeHolds, Known, Holding, RecoverHolds, StoppingHolds
    <3>3. Coherent(mem[r].seen)'
      BY <2>1, <2>3, <3>2 DEF Coherent
    <3>4. Known(r)'
      BY <2>1, <2>3, <3>1, <3>2, <3>3 DEF Known, StoppingHolds
    <3>5. QED
      BY <1>0, <2>1, <3>1, <3>4, OwnStep, CalmRun DEF Knows, KnowledgeHolds
  <2>4. QED
    BY <1>4, <2>2, <2>3 DEF InspectOwner
<1>5. CASE Settle(r)
  <2>1. /\ UNCHANGED <<admission, terminals, sandboxes, call>>
        /\ pc[r] = "settle" /\ Calm
    BY <1>5 DEF Settle, ReadProof, Calm
  <2>2. CASE Go(r, "recover write") /\ UNCHANGED mem
    BY <1>0, <2>1, <2>2, CalmStay DEF Assessing, Unlearned, Holding, RecoverHolds, StoppingHolds
  <2>3. CASE ~(Go(r, "recover write") /\ UNCHANGED mem)
    <3>1. \/ Rest(r, "idle")
          \/ \E d \in Call : /\ Go(r, "terminal read")
                             /\ mem' = [mem EXCEPT ![r] = [Fresh EXCEPT !.proof = d]]
      BY <1>5, <2>3 DEF Settle, ReadProof
    <3>2. QED
      BY <2>1, <3>1, ProofLooked
  <2>4. QED
    BY <2>2, <2>3
<1>6. CASE EnterRecovering(r)
  <2>1. /\ pc[r] = "recover write"
        /\ UNCHANGED <<terminals, sandboxes, call>>
        /\ \/ Rest(r, "idle") \/ RetryRecovery(r)
           \/ /\ Go(r, "sweep proof") /\ EtagMatches(r)
              /\ admission' = NextRevision(mem[r].seen, "recovering", NoCall, NoCall)
              /\ mem' = [mem EXCEPT ![r] = [@ EXCEPT !.seen =
                           NextRevision(mem[r].seen, "recovering", NoCall, NoCall)]]
    BY <1>6 DEF EnterRecovering, Cas, Wrote
  <2>2. Calm
    BY <1>6, <2>1, EnterRecoveringEdge DEF Calm, Edge
  <2>3. CASE Rest(r, "idle") \/ RetryRecovery(r)
    BY <1>0, <2>2, <2>3, CalmRest, CalmRetry DEF RetryRecovery, Holding, RecoverHolds, StoppingHolds
  <2>4. CASE ~(Rest(r, "idle") \/ RetryRecovery(r))
    <3>1. /\ pc'[r] = "sweep proof" /\ Others(r)
      BY <1>0, <2>1, <2>4 DEF Go, Others, TypeOK, LocalTypeOK
    <3>2. mem'[r].seen = admission'
      <4>1. mem[r] \in Mem
        BY <1>0 DEF TypeOK, LocalTypeOK
      <4>2. mem'[r] = [mem[r] EXCEPT !.seen = admission']
        BY <1>0, <2>1, <2>4 DEF TypeOK, LocalTypeOK
      <4>3. QED
        BY <4>1, <4>2 DEF Mem
    <3>3. Coherent(mem[r].seen)'
      <4>1. admission' = NextRevision(mem[r].seen, "recovering", NoCall, NoCall)
        BY <2>1, <2>4
      <4>2. admission'.state = "recovering"
        BY <4>1 DEF NextRevision
      <4>3. QED
        BY <1>0, <2>2, <3>2, <4>2, WrittenCoherent
    <3>4. Known(r)'
      BY <3>1, <3>3 DEF Known, StoppingHolds
    <3>5. QED
      BY <1>0, <2>2, <3>1, <3>4, OwnStep, CalmRun DEF Knows, KnowledgeHolds
  <2>5. QED
    BY <2>3, <2>4
<1>7. CASE SweepProof(r)
  <2>1. /\ UNCHANGED <<admission, terminals, sandboxes, call>>
        /\ pc[r] = "sweep proof" /\ Calm
    BY <1>7 DEF SweepProof, ReadProof, Calm
  <2>2. CASE Go(r, "sweep") /\ UNCHANGED mem
    BY <1>0, <2>1, <2>2, CalmStay DEF Assessing, Unlearned, Holding, RecoverHolds, StoppingHolds
  <2>3. CASE ~(Go(r, "sweep") /\ UNCHANGED mem)
    <3>1. \/ Rest(r, "idle")
          \/ \E d \in Call : /\ Go(r, "terminal read")
                             /\ mem' = [mem EXCEPT ![r] = [Fresh EXCEPT !.proof = d]]
      BY <1>7, <2>3 DEF SweepProof, ReadProof
    <3>2. QED
      BY <2>1, <3>1, ProofLooked
  <2>4. QED
    BY <2>2, <2>3
<1>8. CASE SweepStale(r)
  <2>1. Calm /\ pc[r] = "sweep"
    BY <1>8 DEF SweepStale, SweepStep, Calm
  <2>2. \/ /\ Go(r, "finish proof")
           /\ mem' = [mem EXCEPT ![r] = [@ EXCEPT !.made = 0, !.empty = 0]]
        \/ Rest(r, "idle")
        \/ /\ Go(r, "sweep proof")
           /\ \E e \in {0, 1} : mem' = [mem EXCEPT ![r] =
                 [mem[r] EXCEPT !.made = mem[r].made + 1, !.empty = e]]
    BY <1>8 DEF SweepStale, SweepStep
  <2>3. CASE /\ Go(r, "finish proof")
             /\ mem' = [mem EXCEPT ![r] = [@ EXCEPT !.made = 0, !.empty = 0]]
    <3>1. mem[r] \in Mem
      BY <1>0 DEF TypeOK, LocalTypeOK
    <3>2. pc'[r] = "finish proof" /\ Others(r)
      BY <1>0, <2>3 DEF Go, Others, TypeOK, LocalTypeOK
    <3>3. mem'[r] = [mem[r] EXCEPT !.made = 0, !.empty = 0]
      BY <1>0, <2>3 DEF TypeOK, LocalTypeOK
    <3>4. mem'[r].seen = mem[r].seen /\ mem'[r].facts = mem[r].facts
      BY <3>1, <3>3 DEF Mem
    <3>5. QED
      BY <1>0, <2>1, <3>2, <3>4, CalmGo DEF Assessing, Unlearned, Holding, RecoverHolds, StoppingHolds
  <2>4. CASE Rest(r, "idle")
    BY <1>0, <2>1, <2>4, CalmRest DEF Holding, RecoverHolds, StoppingHolds
  <2>5. ASSUME NEW e \in {0, 1}, Go(r, "sweep proof"),
               mem' = [mem EXCEPT ![r] =
                 [mem[r] EXCEPT !.made = mem[r].made + 1, !.empty = e]]
        PROVE  KnowledgeHolds'
    <3>1. mem[r] \in Mem
      BY <1>0 DEF TypeOK, LocalTypeOK
    <3>2. pc'[r] = "sweep proof" /\ Others(r)
      BY <1>0, <2>5 DEF Go, Others, TypeOK, LocalTypeOK
    <3>3. mem'[r] = [mem[r] EXCEPT !.made = mem[r].made + 1, !.empty = e]
      BY <1>0, <2>5 DEF TypeOK, LocalTypeOK
    <3>4. mem'[r].seen = mem[r].seen /\ mem'[r].facts = mem[r].facts
      BY <3>1, <3>3 DEF Mem
    <3>5. QED
      BY <1>0, <2>1, <3>2, <3>4, CalmGo DEF Assessing, Unlearned, Holding, RecoverHolds, StoppingHolds
  <2>6. QED
    BY <2>2, <2>3, <2>4, <2>5
<1>9. CASE FinishProof(r)
  <2>1. /\ UNCHANGED <<admission, terminals, sandboxes, call>>
        /\ pc[r] = "finish proof" /\ Calm
    BY <1>9 DEF FinishProof, ReadProof, Calm
  <2>2. CASE Go(r, "finish read") /\ UNCHANGED mem
    BY <1>0, <2>1, <2>2, CalmStay DEF Assessing, Unlearned, Holding, RecoverHolds, StoppingHolds
  <2>3. CASE ~(Go(r, "finish read") /\ UNCHANGED mem)
    <3>1. \/ Rest(r, "idle")
          \/ \E d \in Call : /\ Go(r, "terminal read")
                             /\ mem' = [mem EXCEPT ![r] = [Fresh EXCEPT !.proof = d]]
      BY <1>9, <2>3 DEF FinishProof, ReadProof
    <3>2. QED
      BY <2>1, <3>1, ProofLooked
  <2>4. QED
    BY <2>2, <2>3
<1>10. CASE FinishRead(r)
  <2>1. Calm /\ pc[r] = "finish read"
    BY <1>10 DEF FinishRead, Calm
  <2>2. CASE \E l \in {"prepare write", "finish changed"} : Go(r, l) /\ UNCHANGED mem
    BY <1>0, <2>1, <2>2, CalmStay DEF Assessing, Unlearned, Holding, RecoverHolds, StoppingHolds
  <2>3. CASE Rest(r, "idle") \/ RetryRecovery(r)
    BY <1>0, <2>1, <2>3, CalmRest, CalmRetry DEF RetryRecovery, Holding, RecoverHolds, StoppingHolds
  <2>4. QED
    BY <1>10, <2>2, <2>3 DEF FinishRead
<1>11. CASE FinishChanged(r)
  <2>1. /\ UNCHANGED <<admission, terminals, sandboxes, call>>
        /\ pc[r] = "finish changed" /\ Calm
    BY <1>11 DEF FinishChanged, ReadProof, Calm
  <2>2. CASE RetryRecovery(r)
    BY <1>0, <2>1, <2>2, CalmRetry DEF RetryRecovery, Holding, RecoverHolds, StoppingHolds
  <2>3. CASE ~(RetryRecovery(r))
    <3>1. \/ Rest(r, "idle")
          \/ \E d \in Call : /\ Go(r, "terminal read")
                             /\ mem' = [mem EXCEPT ![r] = [Fresh EXCEPT !.proof = d]]
      BY <1>11, <2>3 DEF FinishChanged, ReadProof
    <3>2. QED
      BY <2>1, <3>1, ProofLooked
  <2>4. QED
    BY <2>2, <2>3
<1>12. CASE PrepareSuccessor(r)
  <2>1. /\ pc[r] = "prepare write"
        /\ UNCHANGED <<terminals, sandboxes, call>>
        /\ \/ Rest(r, "successor proof")
           \/ Go(r, "prepare lost") /\ UNCHANGED mem
    BY <1>12 DEF PrepareSuccessor, Cas
  <2>2. Calm
    BY <1>12, <2>1, PrepareSuccessorEdge DEF Calm, Edge
  <2>3. CASE Rest(r, "successor proof")
    BY <1>0, <2>2, <2>3, CalmRest DEF Holding, RecoverHolds, StoppingHolds
  <2>4. CASE Go(r, "prepare lost") /\ UNCHANGED mem
    BY <1>0, <2>1, <2>2, <2>4, CalmStay DEF Assessing, Unlearned, Holding, RecoverHolds, StoppingHolds
  <2>5. QED
    BY <2>1, <2>3, <2>4
<1>13. CASE PrepareLost(r)
  <2>1. Calm /\ (Rest(r, "idle") \/ RetryRecovery(r))
    BY <1>13 DEF PrepareLost, Calm
  <2>2. QED
    BY <1>0, <2>1, CalmRest, CalmRetry DEF RetryRecovery, Holding, RecoverHolds, StoppingHolds
<1>14. CASE SuccessorProof(r)
  <2>1. /\ UNCHANGED <<admission, terminals, sandboxes, call>>
        /\ pc[r] = "successor proof" /\ Calm
    BY <1>14 DEF SuccessorProof, ReadProof, Calm
  <2>2. CASE Rest(r, "successor read")
    BY <1>0, <2>1, <2>2, CalmRest DEF Holding, RecoverHolds, StoppingHolds
  <2>3. CASE ~(Rest(r, "successor read"))
    <3>1. \/ Rest(r, "idle")
          \/ \E d \in Call : /\ Go(r, "terminal read")
                             /\ mem' = [mem EXCEPT ![r] = [Fresh EXCEPT !.proof = d]]
      BY <1>14, <2>3 DEF SuccessorProof, ReadProof
    <3>2. QED
      BY <2>1, <3>1, ProofLooked
  <2>4. QED
    BY <2>2, <2>3
<1>15. CASE RecoverRequest(r)
  BY <1>0, <1>15, CalmRest DEF RecoverRequest, Calm, Holding, RecoverHolds, StoppingHolds
<1>16. CASE TerminalRead(r)
  BY <1>0, <1>16, CalmRest DEF TerminalRead, Calm, Holding, RecoverHolds, StoppingHolds
<1>17. CASE TerminalSweep(r)
  <2>1. Calm /\ pc[r] = "terminal sweep"
    BY <1>17 DEF TerminalSweep, SweepStep, Calm
  <2>2. \/ Rest(r, "cleaned")
        \/ Rest(r, "idle")
        \/ /\ Go(r, "terminal sweep")
           /\ \E e \in {0, 1} : mem' = [mem EXCEPT ![r] =
                 [mem[r] EXCEPT !.made = mem[r].made + 1, !.empty = e]]
    BY <1>17 DEF TerminalSweep, SweepStep
  <2>3. CASE Rest(r, "cleaned") \/ Rest(r, "idle")
    BY <1>0, <2>1, <2>3, CalmRest DEF Holding, RecoverHolds, StoppingHolds
  <2>4. ASSUME NEW e \in {0, 1}, Go(r, "terminal sweep"),
               mem' = [mem EXCEPT ![r] =
                 [mem[r] EXCEPT !.made = mem[r].made + 1, !.empty = e]]
        PROVE  KnowledgeHolds'
    <3>1. mem[r] \in Mem
      BY <1>0 DEF TypeOK, LocalTypeOK
    <3>2. pc'[r] = "terminal sweep" /\ Others(r)
      BY <1>0, <2>4 DEF Go, Others, TypeOK, LocalTypeOK
    <3>3. mem'[r] = [mem[r] EXCEPT !.made = mem[r].made + 1, !.empty = e]
      BY <1>0, <2>4 DEF TypeOK, LocalTypeOK
    <3>4. mem'[r].seen = mem[r].seen /\ mem'[r].facts = mem[r].facts
      BY <3>1, <3>3 DEF Mem
    <3>5. QED
      BY <1>0, <2>1, <3>2, <3>4, CalmGo DEF Assessing, Unlearned, Holding, RecoverHolds, StoppingHolds
  <2>5. QED
    BY <2>2, <2>3, <2>4
<1>18. QED
  BY <1>1, <1>2, <1>3, <1>4, <1>5, <1>6, <1>7, <1>8, <1>9, <1>10, <1>11, <1>12, <1>13, <1>14, <1>15, <1>16, <1>17 DEF RecovererStep

(* A canceller that establishes a fact which is true preserves the         *)
(* invariant.                                                              *)
LEMMA LearnKnows ==
    ASSUME TypeOK, KnowledgeHolds, NEW k \in Canceller, NEW f, NEW l, Learn(k, f, l), Calm,
           UNCHANGED <<admission, call>>, pc[k] \in StoppingHolds,
           l \in {"cancel sweep", "cancel proof"},
           "stopped" \in f \cup mem[k].facts => call[mem[k].seen.owner] = "finished"
    PROVE  KnowledgeHolds'
<1>0. k \in Proc /\ k \notin Call
  BY ProcKinds, ProcAssumption DEF Operator
<1>1. pc'[k] = l /\ Others(k)
  BY <1>0 DEF Learn, Go, Others, TypeOK, LocalTypeOK
<1>2. mem'[k].seen = mem[k].seen /\ mem'[k].facts = mem[k].facts \cup f
  <2>1. mem'[k] = [Fresh EXCEPT !.seen = mem[k].seen, !.facts = mem[k].facts \cup f]
    BY <1>0 DEF Learn, TypeOK, LocalTypeOK
  <2>2. QED
    BY <2>1 DEF Fresh
<1>3. /\ Coherent(mem[k].seen) /\ mem[k].seen.state = "cancelling"
      /\ mem[k].seen = admission \/ admission.state \in {"cancelled", "terminal"}
  BY <1>0 DEF KnowledgeHolds, Known, Holding
<1>4. Coherent(mem[k].seen)'
  BY <1>2, <1>3 DEF Coherent
<1>5. Known(k)'
  BY <1>1, <1>2, <1>3, <1>4 DEF Known
<1>6. QED
  BY <1>0, <1>1, <1>5, OwnStep, CalmRun DEF Knows, KnowledgeHolds

(* Every step of a cancellation preserves the invariant. *)
LEMMA CancellerKnows ==
    ASSUME TypeOK, KnowledgeHolds, NEW k \in Canceller, CancellerStep(k)
    PROVE  KnowledgeHolds'
<1>0. k \in Proc /\ k \notin Call
  BY ProcKinds, ProcAssumption DEF Operator
<1>1. CASE Cancel(k)
  BY <1>0, <1>1, CalmRest DEF Cancel, Resting, Calm, Holding, RecoverHolds, StoppingHolds
<1>2. CASE CancelProof(k)
  <2>1. Calm /\ pc[k] = "cancel"
    BY <1>2 DEF CancelProof, Calm
  <2>2. CASE Go(k, "cancel read") /\ UNCHANGED mem
    BY <1>0, <2>1, <2>2, CalmStay DEF Assessing, Unlearned, Holding, RecoverHolds, StoppingHolds
  <2>3. CASE Rest(k, "idle") \/ Rest(k, "cleaned")
    BY <1>0, <2>1, <2>3, CalmRest DEF Holding, RecoverHolds, StoppingHolds
  <2>4. QED
    BY <1>2, <2>2, <2>3 DEF CancelProof
<1>3. CASE CancelRead(k)
  <2>1. /\ UNCHANGED <<admission, terminals, sandboxes, call>> /\ Calm
        /\ pc[k] = "cancel read"
    BY <1>3 DEF CancelRead, Calm
  <2>2. CASE Rest(k, "idle") \/ Rest(k, "cleaned")
    BY <1>0, <2>1, <2>2, CalmRest DEF Holding, RecoverHolds, StoppingHolds
  <2>3. mem[k].facts = {}
    BY <1>0, <2>1 DEF KnowledgeHolds, Known
  <2>4. CASE \/ Remember(k, "cancel prepared") /\ admission.state = "prepared"
             \/ Remember(k, "intent write") /\ admission.state = "running"
             \/ Remember(k, "stop owner") /\ admission.state = "cancelling"
    BY <1>0, <2>1, <2>3, <2>4, CalmRemember, NotMissing DEF Unlearned, StoppingHolds
  <2>5. QED
    BY <1>3, <2>2, <2>4 DEF CancelRead
<1>4. CASE CancelPrepared(k)
  <2>1. Calm
    BY <1>4, CancelPreparedEdge DEF CancelPrepared, Calm, Edge
  <2>2. Rest(k, "invalid") \/ Rest(k, "cleaned") \/ RetryCancellation(k)
    BY <1>4 DEF CancelPrepared, Cas
  <2>3. QED
    BY <1>0, <2>1, <2>2, CalmRest, CalmRetry DEF RetryCancellation, Holding, RecoverHolds, StoppingHolds
<1>5. CASE RecordIntent(k)
  <2>1. /\ pc[k] = "intent write"
        /\ UNCHANGED <<terminals, sandboxes, call>>
        /\ \/ Rest(k, "idle") \/ RetryCancellation(k)
           \/ /\ Go(k, "stop owner") /\ EtagMatches(k)
              /\ admission' = NextRevision(mem[k].seen, "cancelling", NoCall, NoCall)
              /\ mem' = [mem EXCEPT ![k] = [@ EXCEPT !.seen =
                           NextRevision(mem[k].seen, "cancelling", NoCall, NoCall)]]
    BY <1>5 DEF RecordIntent, Cas, Wrote
  <2>2. Calm
    BY <1>5, <2>1, RecordIntentEdge DEF Calm, Edge
  <2>3. CASE Rest(k, "idle") \/ RetryCancellation(k)
    BY <1>0, <2>2, <2>3, CalmRest, CalmRetry DEF RetryCancellation, Holding, RecoverHolds, StoppingHolds
  <2>4. CASE ~(Rest(k, "idle") \/ RetryCancellation(k))
    <3>1. /\ pc'[k] = "stop owner" /\ Others(k)
      BY <1>0, <2>1, <2>4 DEF Go, Others, TypeOK, LocalTypeOK
    <3>2. mem'[k].seen = admission' /\ mem'[k].facts = {}
      <4>1. mem[k] \in Mem /\ mem[k].facts = {}
        BY <1>0, <2>1 DEF TypeOK, LocalTypeOK, KnowledgeHolds, Known
      <4>2. mem'[k] = [mem[k] EXCEPT !.seen = admission']
        BY <1>0, <2>1, <2>4 DEF TypeOK, LocalTypeOK
      <4>3. QED
        BY <4>1, <4>2 DEF Mem
    <3>3. admission'.state = "cancelling"
      <4>1. admission' = NextRevision(mem[k].seen, "cancelling", NoCall, NoCall)
        BY <2>1, <2>4
      <4>2. QED
        BY <4>1 DEF NextRevision
    <3>4. Coherent(mem[k].seen)'
      BY <1>0, <2>2, <3>2, <3>3, WrittenCoherent
    <3>5. Known(k)'
      BY <3>1, <3>2, <3>3, <3>4 DEF Known
    <3>6. QED
      BY <1>0, <2>2, <3>1, <3>5, OwnStep, CalmRun DEF Knows, KnowledgeHolds
  <2>5. QED
    BY <2>3, <2>4
<1>6. CASE StopOwner(k)
  <2>1. /\ pc[k] = "stop owner"
        /\ UNCHANGED <<admission, terminals, sandboxes, mem>>
        /\ call' = [call EXCEPT ![mem[k].seen.owner] =
                     IF @ = "running" THEN "stopping" ELSE @]
        /\ Go(k, "poll owner")
    BY <1>6 DEF StopOwner
  <2>2. \A c \in Call : /\ call[c] = "finished" => call'[c] = "finished"
                        /\ call[c] = "unspawned" => call'[c] = "unspawned"
    BY <2>1 DEF TypeOK, SharedTypeOK
  <2>3. Progress
    BY <2>1, <2>2 DEF Progress
  <2>4. KnownOfRun'
    <3>1. /\ admission.state = "recovering" => admission.owner \in Call
          /\ admission.owner # NoCall => admission.owner \in Call
      BY DEF TypeOK, SharedTypeOK, KnowledgeHolds, KnownOfRun, ValidRevision, Missing,
         Admission, MaybeCall
    <3>2. QED
      BY <2>1, <2>2, <3>1 DEF KnowledgeHolds, KnownOfRun, NeverRun
  <2>5. pc'[k] = "poll owner" /\ Others(k) /\ mem'[k] = mem[k]
    BY <1>0, <2>1 DEF Go, Others, TypeOK, LocalTypeOK
  <2>6. /\ Coherent(mem[k].seen) /\ mem[k].facts = {}
        /\ mem[k].seen.state = "cancelling"
        /\ mem[k].seen = admission \/ admission.state \in {"cancelled", "terminal"}
    BY <1>0, <2>1 DEF KnowledgeHolds, Known, Holding, RecoverHolds, StoppingHolds
  <2>7. Coherent(mem[k].seen)'
    BY <2>1, <2>6 DEF Coherent
  <2>8. Known(k)'
    BY <2>1, <2>5, <2>6, <2>7 DEF Known
  <2>9. QED
    BY <1>0, <2>3, <2>4, <2>5, <2>8, OwnStep DEF Knows
<1>7. CASE PollOwner(k)
  <2>1. /\ Calm /\ pc[k] = "poll owner"
        /\ UNCHANGED <<admission, terminals, sandboxes, call>>
        /\ \/ /\ Learn(k, {"stopped"}, "cancel sweep")
              /\ call[mem[k].seen.owner] = "finished"
           \/ Learn(k, {}, "cancel sweep")
    BY <1>7 DEF PollOwner, Calm
  <2>2. mem[k].facts = {}
    BY <1>0, <2>1 DEF KnowledgeHolds, Known
  <2>3. QED
    BY <2>1, <2>2, LearnKnows DEF StoppingHolds
<1>8. CASE CancelSweep(k)
  <2>1. Calm /\ pc[k] = "cancel sweep"
    BY <1>8 DEF CancelSweep, SweepStep, Calm
  <2>2. \/ Learn(k, {"quiet"}, "cancel proof")
        \/ Learn(k, {}, "cancel proof")
        \/ /\ Go(k, "cancel sweep")
           /\ \E e \in {0, 1} : mem' = [mem EXCEPT ![k] =
                 [mem[k] EXCEPT !.made = mem[k].made + 1, !.empty = e]]
    BY <1>8 DEF CancelSweep, SweepStep
  <2>3. CASE Learn(k, {"quiet"}, "cancel proof") \/ Learn(k, {}, "cancel proof")
    <3>1. "stopped" \in mem[k].facts => call[mem[k].seen.owner] = "finished"
      BY <1>0, <2>1 DEF KnowledgeHolds, Known, StoppingHolds
    <3>2. UNCHANGED <<admission, terminals, call>>
      BY <1>8 DEF CancelSweep
    <3>3. QED
      BY <2>1, <2>3, <3>1, <3>2, LearnKnows DEF StoppingHolds
  <2>4. ASSUME NEW e \in {0, 1}, Go(k, "cancel sweep"),
               mem' = [mem EXCEPT ![k] =
                 [mem[k] EXCEPT !.made = mem[k].made + 1, !.empty = e]]
        PROVE  KnowledgeHolds'
    <3>1. mem[k] \in Mem
      BY <1>0 DEF TypeOK, LocalTypeOK
    <3>2. pc'[k] = "cancel sweep" /\ Others(k)
      BY <1>0, <2>4 DEF Go, Others, TypeOK, LocalTypeOK
    <3>3. mem'[k] = [mem[k] EXCEPT !.made = mem[k].made + 1, !.empty = e]
      BY <1>0, <2>4 DEF TypeOK, LocalTypeOK
    <3>4. mem'[k].seen = mem[k].seen /\ mem'[k].facts = mem[k].facts
      BY <3>1, <3>3 DEF Mem
    <3>5. QED
      BY <1>0, <2>1, <3>2, <3>4, CalmGo DEF Assessing, Unlearned, Holding, RecoverHolds, StoppingHolds
  <2>5. QED
    BY <2>2, <2>3, <2>4
<1>9. CASE CancelProofAgain(k)
  <2>1. Calm /\ pc[k] = "cancel proof"
    BY <1>9 DEF CancelProofAgain, Reported, Calm
  <2>2. CASE Go(k, "cancel reread") /\ UNCHANGED mem
    BY <1>0, <2>1, <2>2, CalmStay DEF Assessing, Unlearned, Holding, RecoverHolds, StoppingHolds
  <2>3. CASE Rest(k, "idle") \/ Rest(k, "cleaned")
    BY <1>0, <2>1, <2>3, CalmRest DEF Holding, RecoverHolds, StoppingHolds
  <2>4. QED
    BY <1>9, <2>2, <2>3 DEF CancelProofAgain, Reported
<1>10. CASE CancelReread(k)
  <2>1. /\ Calm /\ pc[k] = "cancel reread"
        /\ UNCHANGED <<admission, terminals, sandboxes, call>>
    BY <1>10 DEF CancelReread, Calm
  <2>2. CASE Rest(k, "idle") \/ Rest(k, "cleaned")
    BY <1>0, <2>1, <2>2, CalmRest DEF Holding, RecoverHolds, StoppingHolds
  <2>3. CASE /\ Remember(k, "cancelled write") /\ admission.state = "cancelling"
             /\ mem[k].facts = {"stopped", "quiet"}
    <3>1. call[admission.owner] = "finished"
      BY <1>0, <2>1, <2>3 DEF KnowledgeHolds, Known, StoppingHolds
    <3>2. QED
      BY <1>0, <2>1, <2>3, <3>1, CalmRemember, NotMissing DEF Unlearned
  <2>4. QED
    BY <1>10, <2>2, <2>3 DEF CancelReread, Reported, Remember
<1>11. CASE RecordCancelled(k)
  <2>1. /\ pc[k] = "cancelled write"
        /\ UNCHANGED <<terminals, sandboxes, call>>
        /\ \/ Rest(k, "cleaned")
           \/ Go(k, "cancel lost") /\ UNCHANGED mem
    BY <1>11 DEF RecordCancelled, Cas
  <2>2. Calm
    BY <1>11, <2>1, RecordCancelledEdge DEF Calm, Edge
  <2>3. CASE Rest(k, "cleaned")
    BY <1>0, <2>2, <2>3, CalmRest DEF Holding, RecoverHolds, StoppingHolds
  <2>4. CASE Go(k, "cancel lost") /\ UNCHANGED mem
    BY <1>0, <2>1, <2>2, <2>4, CalmStay DEF Assessing, Unlearned, Holding, RecoverHolds, StoppingHolds
  <2>5. QED
    BY <2>1, <2>3, <2>4
<1>12. CASE CancelLost(k)
  <2>1. Calm /\ pc[k] = "cancel lost"
    BY <1>12 DEF CancelLost, Reported, Calm
  <2>2. CASE Go(k, "cancel lost read") /\ UNCHANGED mem
    BY <1>0, <2>1, <2>2, CalmStay DEF Assessing, Unlearned, Holding, RecoverHolds, StoppingHolds
  <2>3. CASE Rest(k, "idle") \/ Rest(k, "cleaned")
    BY <1>0, <2>1, <2>3, CalmRest DEF Holding, RecoverHolds, StoppingHolds
  <2>4. QED
    BY <1>12, <2>2, <2>3 DEF CancelLost, Reported
<1>13. CASE CancelLostRead(k)
  BY <1>0, <1>13, CalmRest DEF CancelLostRead, Reported, Calm, Holding, RecoverHolds, StoppingHolds
<1>14. QED
  BY <1>1, <1>2, <1>3, <1>4, <1>5, <1>6, <1>7, <1>8, <1>9, <1>10, <1>11, <1>12, <1>13 DEF CancellerStep

-----------------------------------------------------------------------------

(* The invariant holds before anything was submitted. *)
LEMMA KnowledgeInit == Init => KnowledgeHolds
<1> SUFFICES ASSUME Init PROVE KnowledgeHolds
  OBVIOUS
<1>1. \A p \in Proc : pc[p] \in {"unspawned", "unsubmitted", "idle"}
  BY DEF Init
<1>2. \A p \in Proc : Known(p)
  BY <1>1 DEF Known, Holding, RecoverHolds, StoppingHolds
<1>3. \A c \in Call : KnownOfCall(c)
  <2>1. \A c \in Call : pc[c] = "unspawned" /\ call[c] = "unspawned"
    BY ProcKinds, ProcAssumption DEF Init, Operator
  <2>2. QED
    BY <2>1 DEF KnownOfCall, BeforeClaim, Ended
<1>4. KnownOfRun
  BY DEF Init, KnownOfRun, Missing
<1>5. QED
  BY <1>2, <1>3, <1>4 DEF KnowledgeHolds

(* Every step of the system preserves the invariant. *)
LEMMA KnowledgeStep == TypeOK /\ KnowledgeHolds /\ [Next]_vars => KnowledgeHolds'
<1> SUFFICES ASSUME TypeOK, KnowledgeHolds, [Next]_vars PROVE KnowledgeHolds'
  OBVIOUS
<1>1. ASSUME NEW c \in Call, ControllerStep(c) \/ ModalStep(c) PROVE KnowledgeHolds'
  BY <1>1, ControllerKnows
<1>2. ASSUME NEW s \in Submitter, SubmitterStep(s) PROVE KnowledgeHolds'
  BY <1>2, SubmitterKnows
<1>3. ASSUME NEW r \in Recoverer, RecovererStep(r) \/ Spawn(r) PROVE KnowledgeHolds'
  BY <1>3, RecovererKnows, SpawnKnows
<1>4. ASSUME NEW k \in Canceller, CancellerStep(k) PROVE KnowledgeHolds'
  BY <1>4, CancellerKnows
<1>5. ASSUME NEW p \in Operator, OperatorFails(p) PROVE KnowledgeHolds'
  <2>1. p \in Proc /\ p \notin Call
    BY ProcAssumption DEF Proc
  <2>2. Calm /\ Rest(p, "idle")
    BY <1>5 DEF OperatorFails, Calm
  <2>3. QED
    BY <2>1, <2>2, CalmRest DEF Holding, RecoverHolds, StoppingHolds
<1>6. CASE UNCHANGED vars
  BY <1>6 DEF vars, KnowledgeHolds, Known, KnownOfCall, KnownOfRun, Coherent, NeverRun
<1>7. QED
  BY <1>1, <1>2, <1>3, <1>4, <1>5, <1>6 DEF Next

(* Each process can rely on what it established before it was overtaken.   *)
THEOREM KnowledgeAlwaysHolds == Spec => []KnowledgeHolds
<1>1. QED
  BY KnowledgeInit, KnowledgeStep, TypesAlwaysHold, PTL DEF Spec

(* A terminal admission names a visible terminal record.                   *)
THEOREM AcknowledgedProofIsVisible == Spec => []AcknowledgedIsVisible
<1>1. KnowledgeHolds => AcknowledgedIsVisible
  BY DEF KnowledgeHolds, KnownOfRun, AcknowledgedIsVisible
<1>2. QED
  BY <1>1, KnowledgeAlwaysHolds, PTL

(* Cancelled is recorded over a finished owner or over work never claimed, *)
(* whatever a stopped call may still be doing.                             *)
THEOREM CancelledIsStopped == Spec => []CancelledMeansStopped
<1>1. TypeOK /\ KnowledgeHolds => CancelledMeansStopped
  <2> SUFFICES ASSUME TypeOK, KnowledgeHolds, admission.state = "cancelled"
               PROVE  IF admission.owner = NoCall
                      THEN /\ terminals = {} /\ sandboxes = {}
                           /\ \A c \in Call : pc[c] \notin Engaged
                      ELSE call[admission.owner] = "finished"
    BY DEF CancelledMeansStopped
  <2>1. CASE admission.owner # NoCall
    BY <2>1 DEF KnowledgeHolds, KnownOfRun
  <2>2. CASE admission.owner = NoCall
    <3>1. NeverRun
      BY <2>2 DEF NeverRun
    <3>2. terminals = {} /\ sandboxes = {}
      BY <3>1 DEF KnowledgeHolds, KnownOfRun
    <3>3. \A c \in Call : pc[c] \in BeforeClaim
      BY <3>1 DEF KnowledgeHolds, KnownOfCall
    <3>4. BeforeClaim \cap Engaged = {}
      BY DEF BeforeClaim, Ended, Engaged
    <3>5. QED
      BY <2>2, <3>2, <3>3, <3>4
  <2>3. QED
    BY <2>1, <2>2
<1>2. QED
  BY <1>1, TypesAlwaysHold, KnowledgeAlwaysHolds, PTL

-----------------------------------------------------------------------------
(* The steps of the admission. *)

(* Every step of the system leaves the admission or takes an edge. *)
LEMMA EdgeStep ==
    TypeOK /\ KnowledgeHolds /\ [Next]_vars => admission' = admission \/ Edge
<1> SUFFICES ASSUME TypeOK, KnowledgeHolds, [Next]_vars, admission' # admission
             PROVE  Edge
  OBVIOUS
<1>1. ASSUME NEW c \in Call, ControllerStep(c) \/ ModalStep(c) PROVE Edge
  <2>1. Claim(c) \/ Acknowledge(c) \/ MarkFailed(c)
    BY <1>1 DEF ControllerStep, ModalStep, ReconcileAtStart, ReadForClaim,
       ReconcileAfterClaim, CheckBeforeSetup, DrainPrior, CheckAfterCleanup,
       BeginAttempt, CheckBeforeHarbor, StartSandbox, HarborReturns, CheckResult,
       DrainResult, DrainCancelled, AuthorizeTerminal, ObserveBeforeTerminal,
       PutTerminal, VerifyTerminal, ReadForAck, ReadForFailure, CheckAdmission,
       Drain, ControllerRaises, CallFinishes, ContainerDies, Replay, SandboxExits
  <2>2. QED
    BY <2>1, ClaimEdge, AcknowledgeEdge, MarkFailedEdge DEF Edge
<1>2. ASSUME NEW s \in Submitter, SubmitterStep(s) PROVE Edge
  BY <1>2 DEF SubmitterStep, Submit, CreateAdmission, ObserveAdmission, Spawn,
     Edge, Created
<1>3. ASSUME NEW r \in Recoverer, RecovererStep(r) \/ Spawn(r) PROVE Edge
  <2>1. EnterRecovering(r) \/ PrepareSuccessor(r)
    BY <1>3 DEF RecovererStep, Spawn, ReadProof, Recover, RecoverProof, RecoverRead,
       InspectOwner, Settle, SweepProof, SweepStale, FinishProof, FinishRead,
       FinishChanged, PrepareLost, SuccessorProof, RecoverRequest, TerminalRead,
       TerminalSweep
  <2>2. QED
    BY <2>1, EnterRecoveringEdge, PrepareSuccessorEdge DEF Edge
<1>4. ASSUME NEW k \in Canceller, CancellerStep(k) PROVE Edge
  <2>1. CancelPrepared(k) \/ RecordIntent(k) \/ RecordCancelled(k)
    BY <1>4 DEF CancellerStep, Cancel, CancelProof, CancelRead, StopOwner, PollOwner,
       CancelSweep, CancelProofAgain, CancelReread, CancelLost, CancelLostRead
  <2>2. QED
    BY <2>1, CancelPreparedEdge, RecordIntentEdge, RecordCancelledEdge DEF Edge
<1>5. ASSUME NEW p \in Operator, OperatorFails(p) PROVE Edge
  BY <1>5 DEF OperatorFails
<1>6. QED
  BY <1>1, <1>2, <1>3, <1>4, <1>5 DEF Next, vars

(* The stored admission changes along the protocol's edges only.           *)
THEOREM AdmissionFollowsEdges == Spec => AdmissionEdges
<1>1. TypeOK /\ KnowledgeHolds /\ [Next]_vars => [admission' # admission => Edge]_vars
  BY EdgeStep
<1>2. QED
  BY <1>1, TypesAlwaysHold, KnowledgeAlwaysHolds, PTL DEF Spec, AdmissionEdges

(* Recorded cancellation intent is never overwritten.                      *)
THEOREM IntentIsKept == Spec => CancellationIntentKept
<1> DEFINE Kept == /\ admission.state = "cancelling" =>
                         admission'.state \in {"cancelling", "cancelled", "terminal"}
                   /\ admission.state = "cancelled" =>
                         admission'.state \in {"cancelled", "terminal"}
<1>1. TypeOK /\ KnowledgeHolds /\ [Next]_vars => [Kept]_vars
  <2> SUFFICES ASSUME TypeOK, KnowledgeHolds, [Next]_vars PROVE Kept
    OBVIOUS
  <2>1. CASE admission' = admission
    BY <2>1
  <2>2. CASE Edge
    BY <2>2, EdgeFacts DEF KnowledgeHolds
  <2>3. QED
    BY <2>1, <2>2, EdgeStep
<1>2. QED
  BY <1>1, TypesAlwaysHold, KnowledgeAlwaysHolds, PTL DEF Spec, CancellationIntentKept

(* The owner changes only by a claim of unowned prepared work, or by the   *)
(* recovery of a run whose owner is finished.                              *)
THEOREM OwnershipIsNeverStolen == Spec => OwnershipNeverStolen
<1> DEFINE Kept == admission'.owner # admission.owner =>
                     \/ /\ admission.owner = NoCall
                        /\ admission.state = "prepared"
                        /\ pc[admission'.owner] = "claim write"
                     \/ /\ admission'.owner = NoCall
                        /\ admission.state = "recovering"
                        /\ call[admission.owner] = "finished"
<1>1. TypeOK /\ KnowledgeHolds /\ [Next]_vars => [Kept]_vars
  <2> SUFFICES ASSUME TypeOK, KnowledgeHolds, [Next]_vars,
                      admission'.owner # admission.owner
               PROVE  Kept
    OBVIOUS
  <2>1. Edge
    BY EdgeStep
  <2>2. admission # Missing => ValidRevision(admission)
    BY DEF KnowledgeHolds, KnownOfRun
  <2>3. ASSUME NEW s, NEW d, s # "prepared", Becomes(s, NoCall, d) PROVE FALSE
    BY <2>3 DEF Becomes, NextRevision
  <2>4. CASE Created
    BY <2>4 DEF Created, Missing, NewAdmission
  <2>5. CASE Claimed
    <3>1. PICK c \in Call : /\ admission.state = "prepared" /\ pc[c] = "claim write"
                            /\ admission' = NextRevision(admission, "running", c, NoCall)
      BY <2>5 DEF Claimed, Becomes
    <3>2. admission.owner = NoCall
      BY <2>2, <3>1, NotMissing DEF ValidRevision
    <3>3. admission'.owner = c
      BY <3>1, <3>2 DEF NextRevision
    <3>4. QED
      BY <3>1, <3>2, <3>3
  <2>6. CASE Prepared
    <3>1. call[admission.owner] = "finished"
      BY <2>6 DEF Prepared, KnowledgeHolds, KnownOfRun
    <3>2. admission'.owner = NoCall
      BY <2>6 DEF Prepared, Becomes, NextRevision
    <3>3. QED
      BY <2>6, <3>1, <3>2 DEF Prepared
  <2>7. CASE Failed \/ Recovering \/ Withdrawn \/ Intended \/ Cancelled \/ Proved
    BY <2>3, <2>7 DEF Failed, Recovering, Withdrawn, Intended, Cancelled, Proved
  <2>8. QED
    BY <2>1, <2>4, <2>5, <2>6, <2>7 DEF Edge
<1>2. QED
  BY <1>1, TypesAlwaysHold, KnowledgeAlwaysHolds, PTL DEF Spec, OwnershipNeverStolen
=============================================================================
