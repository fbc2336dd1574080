--------------------------- MODULE OwnershipProofs ---------------------------
(***************************************************************************)
(* OwnershipHolds is an invariant of DetachedRun, and what follows from    *)
(* it: at most one call works on the run, its proof is final, no stale     *)
(* sandbox is left, and the protocol implements RunOwnership.  A step is   *)
(* first classified by what it adds, what it writes and where its process  *)
(* goes; each part of the invariant is then judged from that class and not *)
(* from the sixty actions.                                                 *)
(***************************************************************************)
EXTENDS OwnershipInvariant, AdmissionProofs

(* The others stay where they are, but for a call that is spawned. *)
Bystanders(p) ==
    \A q \in Proc : q # p =>
        /\ mem'[q] = mem[q]
        /\ \/ pc'[q] = pc[q]
           \/ pc[q] = "unspawned" /\ pc'[q] = "queued"

(* Only a call at work adds a terminal record or a sandbox: its own. *)
Adds(p) ==
    /\ \/ terminals' = terminals
       \/ /\ p \in Call /\ pc[p] = "put" /\ terminals' = terminals \cup {p}
          /\ UNCHANGED <<admission, sandboxes>>
    /\ \/ sandboxes' \subseteq sandboxes
       \/ /\ p \in Call /\ pc[p] = "harbor" /\ sandboxes' = sandboxes \cup {p}
          /\ UNCHANGED admission

(* A finished call stays finished, a dead one dead. *)
Finishes ==
    \A c \in Call :
        call[c] = "finished" => call'[c] = "finished" /\ (~Alive(c) => ~Alive(c)')

(* The writes that rest on what their writer established before. *)
Writes(p) ==
    /\ admission' = admission \/ Edge
    /\ admission' # admission =>
          /\ admission'.state = "recovering" =>
                p \in Recoverer /\ pc[p] = "recover write" /\ EtagMatches(p)
          /\ admission.state = "recovering" /\ admission'.state = "prepared" =>
                p \in Recoverer /\ pc[p] = "prepare write" /\ EtagMatches(p)

(* Where a process comes from that now holds a right or a finding. *)
CallTurns(c) ==
    pc'[c] \in Engaged =>
        \/ pc[c] \in Engaged
        \/ admission'.owner = c /\ admission'.state = "running"

RecovererTurns(r) ==
    /\ pc'[r] = "recover write" =>
          /\ mem'[r] = mem[r] /\ UNCHANGED <<admission, terminals, call>>
          /\ pc[r] = "settle" /\ SettledDown(mem[r].seen.owner) /\ NoProof
    /\ pc'[r] \in SweptPlaces =>
          /\ mem'[r].seen = mem[r].seen /\ UNCHANGED admission
          /\ pc[r] \in SweptPlaces \/ sandboxes' = {}

(* What a step of process p is. *)
Deed(p) ==
    /\ Bystanders(p) /\ Adds(p) /\ Finishes /\ Writes(p)
    /\ p \in Call => CallTurns(p)
    /\ p \in Recoverer => RecovererTurns(p)

-----------------------------------------------------------------------------
(* From the class of a step to the invariants. *)

(* A process at one of its places was there before, or just came.          *)
LEMMA Stayed ==
    ASSUME NEW p \in Proc, NEW q \in Proc, q # p, Deed(p), pc'[q] # "queued"
    PROVE  pc'[q] = pc[q] /\ mem'[q] = mem[q]
BY DEF Deed, Bystanders

(* A dead call stays dead, whoever it is the owner of.                     *)
LEMMA StaysDead ==
    ASSUME NEW p \in Proc, Deed(p)
    PROVE  \A c \in Call : Dead(c) => call'[c] = "finished" /\ pc'[c] \in Ended
BY DEF Deed, Finishes, Dead, Alive

(* A call that works on the run is not dead.                               *)
LEMMA EngagedLives ==
    ASSUME NEW c \in Call, pc[c] \in Engaged
    PROVE  ~Dead(c)
BY DEF Engaged, Dead, Alive, Ended

(* A record held under its etag is the stored one.                         *)
LEMMA HeldIsStored ==
    ASSUME KnowledgeHolds, NEW p \in Proc, pc[p] \in Holding, EtagMatches(p)
    PROVE  mem[p].seen = admission /\ admission \in Admission /\ ValidRevision(admission)
BY DEF KnowledgeHolds, Known, Coherent, EtagMatches

(* A record held cannot become the stored one again.                       *)
LEMMA NeverStoredAgain ==
    ASSUME TypeOK, KnowledgeHolds, NEW p \in Proc, pc[p] \in Holding, Edge
    PROVE  mem[p].seen.revision # admission'.revision
<1>1. admission'.revision = admission.revision + 1
  BY EdgeFacts DEF KnowledgeHolds
<1>2. mem[p].seen.revision <= admission.revision /\ mem[p].seen \in Admission
  BY DEF KnowledgeHolds, Known, Coherent
<1>3. mem[p].seen.revision \in Nat /\ admission.revision \in Int
  BY <1>2 DEF Admission, TypeOK, SharedTypeOK, Missing
<1>4. QED
  BY <1>1, <1>2, <1>3

(* The owner of an admission changes along two edges only.                 *)
LEMMA OwnerKept ==
    ASSUME TypeOK, KnowledgeHolds, Edge
    PROVE  \/ admission.state \in {"missing", "prepared"}
           \/ /\ admission.state = "recovering" /\ admission'.state = "prepared"
              /\ admission'.owner = NoCall
           \/ /\ admission.state \notin {"missing", "prepared"}
              /\ admission'.owner = admission.owner /\ admission.owner \in Call
              /\ admission'.state \notin {"missing", "prepared"}
              /\ admission'.state = "recovering" => admission.state \in {"running", "failed"}
<1>1. admission \in Admission \cup {Missing}
  BY DEF TypeOK, SharedTypeOK
<1>2. ASSUME NEW s, NEW d, Becomes(s, NoCall, d), s # "prepared"
      PROVE  admission'.owner = admission.owner /\ admission'.state = s
  BY <1>2 DEF Becomes, NextRevision
<1>3. admission.state \notin {"missing", "prepared", "cancelled"} => admission.owner \in Call
  BY <1>1 DEF Missing, Admission, MaybeCall, KnowledgeHolds, KnownOfRun, ValidRevision
<1>4. CASE Created \/ Claimed \/ Withdrawn
  <2>1. Created => admission.state = "missing"
    BY DEF Created, Missing
  <2>3. Claimed => admission.state = "prepared"
    BY DEF Claimed
  <2>4. Withdrawn => admission.state = "prepared"
    BY DEF Withdrawn, NewAdmission
  <2>2. QED
    BY <1>4, <2>1, <2>3, <2>4
<1>5. CASE Prepared
  BY <1>5 DEF Prepared, Becomes, NextRevision
<1>6. CASE Proved
  <2>1. admission.owner \in Call
    BY <1>1, <1>6 DEF Proved, Admission, MaybeCall, Missing
  <2>2. PICK d \in terminals : Becomes("terminal", NoCall, d)
    BY <1>6 DEF Proved
  <2>3. admission'.owner = admission.owner /\ admission'.state = "terminal"
    BY <1>2, <2>2
  <2>4. admission.state \notin {"missing", "prepared"}
    BY <1>6 DEF Proved, Acknowledgeable
  <2>5. QED
    BY <2>1, <2>3, <2>4
<1>7. CASE Failed
  BY <1>2, <1>3, <1>7 DEF Failed
<1>8. CASE Recovering
  BY <1>2, <1>3, <1>8 DEF Recovering
<1>9. CASE Intended
  BY <1>2, <1>3, <1>9 DEF Intended
<1>10. CASE Cancelled
  BY <1>2, <1>3, <1>10 DEF Cancelled
<1>11. QED
  BY <1>4, <1>5, <1>6, <1>7, <1>8, <1>9, <1>10 DEF Edge

(* Only the living owner of a run adds anything to it.                     *)
LEMMA AdderOwns ==
    ASSUME OnlyOwnerEngaged, NEW p \in Call, pc[p] \in {"put", "harbor"}
    PROVE  /\ admission.owner = p /\ ~Dead(p)
           /\ admission.state \notin {"prepared", "recovering"}
BY EngagedLives DEF OnlyOwnerEngaged, Engaged

(* What recoverers rely on survives every step.                            *)
LEMMA RecoverersKept ==
    ASSUME TypeOK, KnowledgeHolds, OwnershipHolds, StopModel # "lingering",
           NEW p \in Proc, Deed(p), NEW r \in Recoverer
    PROVE  TakeoverSound(r)' /\ SweepSound(r)'
<1>0. r \in Proc /\ r \notin Call /\ Adds(p) /\ (admission' = admission \/ Edge)
  BY ProcAssumption DEF Proc, Operator, Deed, Writes
<1>1. TakeoverSound(r) /\ SweepSound(r) /\ OnlyOwnerEngaged
  BY DEF OwnershipHolds
<1>2. ASSUME pc[r] \in Holding, mem'[r].seen = mem[r].seen, EtagMatches(r)'
      PROVE  admission' = admission /\ EtagMatches(r) /\ mem[r].seen = admission
  <2>1. ~Edge
    BY <1>0, <1>2, NeverStoredAgain DEF EtagMatches
  <2>2. EtagMatches(r)
    BY <1>0, <1>2, <2>1 DEF EtagMatches
  <2>3. QED
    BY <1>0, <1>2, <2>1, <2>2, HeldIsStored
<1>3. ASSUME pc'[r] = "recover write" PROVE Dead(mem[r].seen.owner)'
  <2>1. /\ mem'[r] = mem[r]
        /\ pc[r] \in {"settle", "recover write"}
        /\ Dead(mem[r].seen.owner)
    <3>1. CASE r = p
      <4>1. /\ mem'[r] = mem[r] /\ pc[r] = "settle" /\ SettledDown(mem[r].seen.owner)
        BY <1>3, <3>1 DEF Deed, RecovererTurns
      <4>2. call[mem[r].seen.owner] = "finished"
        BY <1>0, <4>1 DEF KnowledgeHolds, Known
      <4>3. QED
        BY <4>1, <4>2 DEF SettledDown, Dead
    <3>2. CASE r # p
      BY <1>0, <1>1, <1>3, <3>2, Stayed DEF TakeoverSound
    <3>3. QED
      BY <3>1, <3>2
  <2>2. mem[r].seen.owner \in Call
    <3>1. Coherent(mem[r].seen) /\ mem[r].seen.state \in {"running", "failed"}
      BY <1>0, <2>1 DEF KnowledgeHolds, Known, Holding, RecoverHolds
    <3>2. QED
      BY <3>1 DEF Coherent, ValidRevision, Admission, MaybeCall
  <2>3. QED
    BY <2>1, <2>2, StaysDead DEF Dead, Alive
<1>4. ASSUME pc'[r] = "recover write", EtagMatches(r)' PROVE NoProof'
  <2>1. CASE r = p
    BY <1>4, <2>1 DEF Deed, RecovererTurns, NoProof
  <2>2. CASE r # p
    <3>1. pc[r] = "recover write" /\ mem'[r] = mem[r]
      BY <1>0, <1>4, <2>2, Stayed
    <3>2. admission' = admission /\ EtagMatches(r) /\ mem[r].seen = admission
      BY <1>2, <1>4, <3>1 DEF Holding, RecoverHolds
    <3>3. NoProof /\ Dead(admission.owner)
      BY <1>1, <3>1, <3>2 DEF TakeoverSound
    <3>4. ~(p \in Call /\ pc[p] = "put")
      BY <1>1, <3>3, AdderOwns
    <3>5. QED
      BY <1>0, <3>3, <3>4 DEF Adds, NoProof
  <2>3. QED
    BY <2>1, <2>2
<1>5. ASSUME pc'[r] \in SweptPlaces, EtagMatches(r)', admission'.state = "recovering"
      PROVE  sandboxes' = {}
  <2>1. CASE r = p
    <3>1. /\ mem'[r].seen = mem[r].seen /\ UNCHANGED admission
          /\ pc[r] \in SweptPlaces \/ sandboxes' = {}
      BY <1>5, <2>1 DEF Deed, RecovererTurns
    <3>2. pc[r] \in SweptPlaces => sandboxes = {}
      BY <1>1, <1>5, <3>1 DEF SweepSound, EtagMatches
    <3>3. QED
      BY <1>0, <2>1, <3>1, <3>2 DEF Adds
  <2>2. CASE r # p
    <3>1. pc[r] \in SweptPlaces /\ mem'[r] = mem[r]
      BY <1>0, <1>5, <2>2, Stayed DEF SweptPlaces
    <3>2. admission' = admission /\ EtagMatches(r)
      BY <1>2, <1>5, <3>1 DEF Holding, RecoverHolds, SweptPlaces
    <3>3. sandboxes = {}
      BY <1>1, <1>5, <3>1, <3>2 DEF SweepSound
    <3>4. ~(p \in Call /\ pc[p] = "harbor")
      BY <1>1, <1>5, <3>2, AdderOwns
    <3>5. QED
      BY <1>0, <3>3, <3>4 DEF Adds
  <2>3. QED
    BY <2>1, <2>2
<1>6. QED
  BY <1>3, <1>4, <1>5 DEF TakeoverSound, SweepSound

(* A recovering revision is written over a dead owner without proof.       *)
LEMMA RecoveringWriter ==
    ASSUME TypeOK, KnowledgeHolds, OwnershipHolds, NEW p \in Proc, Deed(p), Edge,
           admission'.state = "recovering"
    PROVE  Dead(admission.owner) /\ NoProof
<1>1. p \in Recoverer /\ pc[p] = "recover write" /\ EtagMatches(p)
  <2>1. admission' # admission
    <3>1. admission'.revision = admission.revision + 1 /\ admission.revision \in Int
      BY EdgeFacts DEF KnowledgeHolds, TypeOK, SharedTypeOK, Admission, Missing
    <3>2. QED
      BY <3>1
  <2>2. QED
    BY <2>1 DEF Deed, Writes
<1>2. mem[p].seen = admission
  BY <1>1, HeldIsStored DEF Holding, RecoverHolds
<1>3. QED
  BY <1>1, <1>2 DEF OwnershipHolds, TakeoverSound

(* A run is prepared again only with no sandbox left.                      *)
LEMMA PreparedWriter ==
    ASSUME TypeOK, KnowledgeHolds, OwnershipHolds, NEW p \in Proc, Deed(p), Edge,
           admission.state = "recovering", admission'.state = "prepared"
    PROVE  sandboxes = {}
<1>1. p \in Recoverer /\ pc[p] = "prepare write" /\ EtagMatches(p)
  BY DEF Deed, Writes
<1>2. QED
  BY <1>1 DEF OwnershipHolds, SweepSound, SweptPlaces

(* OwnershipHolds survives every step.                                     *)
LEMMA OwnershipKept ==
    ASSUME TypeOK, KnowledgeHolds, OwnershipHolds, StopModel # "lingering",
           NEW p \in Proc, Deed(p)
    PROVE  OwnershipHolds'
<1>0. /\ Adds(p) /\ (admission' = admission \/ Edge)
      /\ OnlyOwnerEngaged /\ ProofIsOwners /\ RecoveredIsDead /\ NoStaleSandbox
      /\ terminals \subseteq Call /\ sandboxes \subseteq Call
      /\ admission \in Admission \cup {Missing}
      /\ admission # Missing => ValidRevision(admission)
  BY DEF Deed, Writes, OwnershipHolds, TypeOK, SharedTypeOK, KnowledgeHolds, KnownOfRun
<1>1. admission.owner \in Call => admission.state \notin {"missing", "prepared"}
  BY <1>0, NoCallAssumption DEF Missing, ValidRevision, Admission, AdmissionState
<1>2. RecoveredIsDead'
  <2> SUFFICES ASSUME admission'.state = "recovering" PROVE Dead(admission.owner)'
    BY DEF RecoveredIsDead
  <2>1. Dead(admission.owner) /\ admission'.owner = admission.owner /\ admission.owner \in Call
    <3>1. CASE admission' = admission
      BY <1>0, <3>1 DEF RecoveredIsDead, Missing, ValidRevision, Admission, MaybeCall
    <3>2. CASE Edge
      <4>1. admission.state \in {"running", "failed"}
        BY <3>2, EdgeInto DEF Recovering
      <4>2. QED
        BY <3>2, <4>1, RecoveringWriter, OwnerKept
    <3>3. QED
      BY <1>0, <3>1, <3>2
  <2>2. QED
    BY <2>1, StaysDead DEF Dead, Alive
<1>3. OnlyOwnerEngaged'
  <2> SUFFICES ASSUME NEW c \in Call, pc'[c] \in Engaged
               PROVE  admission'.owner = c /\ admission'.state \notin {"prepared", "recovering"}
    BY DEF OnlyOwnerEngaged
  <2>1. CASE admission'.owner = c /\ admission'.state = "running"
    BY <2>1
  <2>2. CASE ~(admission'.owner = c /\ admission'.state = "running")
    <3>1. pc[c] \in Engaged
      <4>1. CASE c = p
        BY <2>2, <4>1 DEF Deed, CallTurns
      <4>2. CASE c # p
        BY <4>2, Stayed, ProcKinds DEF Engaged
      <4>3. QED
        BY <4>1, <4>2
    <3>2. admission.owner = c /\ admission.state \notin {"prepared", "recovering"} /\ ~Dead(c)
      BY <1>0, <3>1, EngagedLives DEF OnlyOwnerEngaged
    <3>3. CASE admission' = admission
      BY <3>2, <3>3
    <3>4. CASE Edge
      <4>1. admission'.state # "recovering"
        BY <3>2, <3>4, RecoveringWriter
      <4>2. QED
        BY <1>1, <3>2, <3>4, <4>1, OwnerKept
    <3>5. QED
      BY <1>0, <3>3, <3>4
  <2>3. QED
    BY <2>1, <2>2
<1>4. ProofIsOwners'
  <2> SUFFICES ASSUME terminals' # {}
               PROVE  /\ terminals' = {admission'.owner}
                      /\ admission'.state \notin {"missing", "prepared", "recovering"}
    BY DEF ProofIsOwners, NoProof
  <2>1. CASE terminals' = terminals
    <3>1. /\ terminals = {admission.owner}
          /\ admission.state \notin {"missing", "prepared", "recovering"}
      BY <1>0, <2>1 DEF ProofIsOwners, NoProof
    <3>2. CASE Edge
      <4>1. admission'.state # "recovering"
        BY <2>1, <3>2, RecoveringWriter DEF NoProof
      <4>2. QED
        BY <2>1, <3>1, <3>2, <4>1, OwnerKept
    <3>3. QED
      BY <1>0, <2>1, <3>1, <3>2
  <2>2. CASE terminals' # terminals
    <3>1. /\ p \in Call /\ pc[p] = "put" /\ terminals' = terminals \cup {p}
          /\ admission' = admission
      BY <1>0, <2>2 DEF Adds
    <3>2. admission.owner = p /\ admission.state \notin {"prepared", "recovering"}
      BY <1>0, <3>1 DEF OnlyOwnerEngaged, Engaged
    <3>3. terminals \subseteq {p}
      BY <1>0, <3>2 DEF ProofIsOwners, NoProof
    <3>4. QED
      BY <1>1, <3>1, <3>2, <3>3
  <2>3. QED
    BY <2>1, <2>2
<1>5. NoStaleSandbox'
  <2> SUFFICES ASSUME NEW c \in sandboxes' PROVE admission'.owner = c
    BY DEF NoStaleSandbox
  <2>1. CASE sandboxes' \subseteq sandboxes
    <3>1. admission.owner = c /\ c \in Call
      BY <1>0, <2>1 DEF NoStaleSandbox
    <3>2. CASE Edge
      <4>1. ~(admission.state = "recovering" /\ admission'.state = "prepared")
        BY <2>1, <3>2, PreparedWriter
      <4>2. QED
        BY <1>1, <3>1, <3>2, <4>1, OwnerKept
    <3>3. QED
      BY <1>0, <3>1, <3>2
  <2>2. CASE ~(sandboxes' \subseteq sandboxes)
    <3>1. /\ p \in Call /\ pc[p] = "harbor" /\ sandboxes' = sandboxes \cup {p}
          /\ admission' = admission
      BY <1>0, <2>2 DEF Adds
    <3>2. admission.owner = p
      BY <1>0, <3>1 DEF OnlyOwnerEngaged, Engaged
    <3>3. QED
      BY <1>0, <3>1, <3>2 DEF NoStaleSandbox
  <2>3. QED
    BY <2>1, <2>2
<1>6. \A r \in Recoverer : TakeoverSound(r)' /\ SweepSound(r)'
  BY RecoverersKept
<1>7. QED
  BY <1>2, <1>3, <1>4, <1>5, <1>6 DEF OwnershipHolds

(* Nothing has happened in the initial state. *)
LEMMA OwnershipInit == Init => OwnershipHolds
<1> SUFFICES ASSUME Init PROVE OwnershipHolds
  OBVIOUS
<1>1. \A p \in Proc : pc[p] \in {"unspawned", "unsubmitted", "idle"}
  BY DEF Init
<1>2. admission = Missing /\ terminals = {} /\ sandboxes = {}
  BY DEF Init
<1>3. admission.state = "missing"
  BY <1>2 DEF Missing
<1>4. \A r \in Recoverer : TakeoverSound(r) /\ SweepSound(r)
  BY <1>1, ProcKinds DEF TakeoverSound, SweepSound, SweptPlaces
<1>5. OnlyOwnerEngaged
  BY <1>1, ProcKinds DEF OnlyOwnerEngaged, Engaged
<1>6. QED
  BY <1>2, <1>3, <1>4, <1>5
  DEF OwnershipHolds, RecoveredIsDead, ProofIsOwners, NoProof, NoStaleSandbox

-----------------------------------------------------------------------------
(* The class of each action. *)

(* A process that moves alone leaves the others where they are.            *)
LEMMA Alone ==
    ASSUME TypeOK, NEW p \in Proc, NEW l, Go(p, l),
           UNCHANGED mem \/ \E m \in Mem : mem' = [mem EXCEPT ![p] = m]
    PROVE  Bystanders(p) /\ pc'[p] = l
BY DEF Bystanders, Go, TypeOK, LocalTypeOK

(* A process that goes back to rest moves nobody else and forgets what it  *)
(* read.                                                                   *)
LEMMA AloneAtRest ==
    ASSUME TypeOK, NEW p \in Proc, NEW l, Rest(p, l)
    PROVE  Bystanders(p) /\ pc'[p] = l /\ mem'[p] = Fresh
BY DEF Bystanders, Rest, Go, TypeOK, LocalTypeOK

(* Modal's verdicts change only where an action says so.                   *)
LEMMA NothingFinishes ==
    ASSUME KnowledgeHolds, NEW p \in Proc, Bystanders(p), UNCHANGED call,
           p \in Call => Alive(p)
    PROVE  Finishes
<1>1. \A c \in Call : pc[c] = "unspawned" => call[c] # "finished"
  BY DEF KnowledgeHolds, KnownOfCall
<1>2. \A c \in Call : c # p => pc'[c] = pc[c] \/ pc[c] = "unspawned"
  BY ProcKinds DEF Bystanders
<1>3. QED
  BY <1>1, <1>2 DEF Finishes, Alive

(* A controller's step moves its own process, which executes.              *)
LEMMA ControllerMoves ==
    ASSUME TypeOK, NEW c \in Call, ControllerStep(c)
    PROVE  Bystanders(c) /\ UNCHANGED call /\ Alive(c)
<1>0. c \in Proc /\ pc \in [Proc -> Place] /\ mem \in [Proc -> Mem]
  BY ProcKinds DEF TypeOK, LocalTypeOK
<1>1. CASE ReconcileAtStart(c) \/ ReadForClaim(c) \/ Claim(c) \/ ReconcileAfterClaim(c)
  BY <1>0, <1>1 DEF ReconcileAtStart, ReadForClaim, Claim, ReconcileAfterClaim, Cas, Rest, Go,
     Remember, Bystanders, Alive, Ended
<1>2. CASE CheckBeforeSetup(c) \/ CheckAfterCleanup(c) \/ CheckBeforeHarbor(c) \/ CheckResult(c)
  BY <1>0, <1>2 DEF CheckBeforeSetup, CheckAfterCleanup, CheckBeforeHarbor, CheckResult,
     CheckAdmission, Rest, Go, Bystanders, Alive, Ended
<1>3. CASE DrainPrior(c) \/ DrainResult(c) \/ DrainCancelled(c)
  BY <1>0, <1>3 DEF DrainPrior, DrainResult, DrainCancelled, Drain, SweepStep, Rest, Go,
     Bystanders, Alive, Ended
<1>4. CASE BeginAttempt(c) \/ StartSandbox(c) \/ HarborReturns(c) \/ PutTerminal(c)
  BY <1>0, <1>4 DEF BeginAttempt, StartSandbox, HarborReturns, PutTerminal, Rest, Go,
     Bystanders, Alive, Ended
<1>5. CASE AuthorizeTerminal(c) \/ ObserveBeforeTerminal(c) \/ VerifyTerminal(c)
  BY <1>0, <1>5 DEF AuthorizeTerminal, ObserveBeforeTerminal, VerifyTerminal, Rest, Go,
     Bystanders, Alive, Ended
<1>6. CASE ReadForAck(c) \/ ReadForFailure(c)
  BY <1>0, <1>6 DEF ReadForAck, ReadForFailure, Rest, Go, Remember, Bystanders, Alive, Ended
<1>7. CASE Acknowledge(c) \/ MarkFailed(c)
  BY <1>0, <1>7 DEF Acknowledge, MarkFailed, Cas, Retry, Rest, Go, Bystanders, Alive, Ended
<1>8. QED
  BY <1>1, <1>2, <1>3, <1>4, <1>5, <1>6, <1>7 DEF ControllerStep

(* A call enters the engaged part of its program by its claim only.        *)
LEMMA ControllerTurns ==
    ASSUME TypeOK, KnowledgeHolds, NEW c \in Call, ControllerStep(c)
    PROVE  CallTurns(c)
<1>0. c \in Proc /\ pc \in [Proc -> Place]
  BY ProcKinds DEF TypeOK, LocalTypeOK
<1>1. CASE ReconcileAtStart(c) \/ ReadForClaim(c)
  BY <1>0, <1>1 DEF ReconcileAtStart, ReadForClaim, Rest, Go, Remember, CallTurns, Engaged
<1>2. CASE Claim(c)
  <2>1. CASE Rest(c, "returned")
    <3>1. pc'[c] = "returned"
      BY <1>0, <2>1, AloneAtRest
    <3>2. QED
      BY <3>1 DEF CallTurns, Engaged
  <2>2. CASE ~Rest(c, "returned")
    <3>1. /\ pc[c] = "claim write" /\ admission' = NextRevision(mem[c].seen, "running", c, NoCall)
          /\ "running" \in Allowed[mem[c].seen.state] /\ mem[c].seen.state \in AdmissionState
      BY <1>2, <2>2 DEF Claim, Cas, Accepted, ValidStep, NextRevision
    <3>2. mem[c].seen.state = "prepared"
      <4>1. \A s \in AdmissionState : "running" \in Allowed[s] => s = "prepared"
        BY DEF Allowed, AdmissionState
      <4>2. QED
        BY <3>1, <4>1
    <3>3. mem[c].seen.owner = NoCall
      BY <1>0, <3>1, <3>2 DEF KnowledgeHolds, Known, Holding, Coherent, ValidRevision
    <3>4. QED
      BY <3>1, <3>3 DEF NextRevision, CallTurns
  <2>3. QED
    BY <2>1, <2>2
<1>3. CASE ReconcileAfterClaim(c)
  BY <1>0, <1>3 DEF ReconcileAfterClaim, CallTurns, Engaged
<1>4. CASE CheckBeforeSetup(c) \/ CheckAfterCleanup(c) \/ CheckBeforeHarbor(c) \/ CheckResult(c)
  BY <1>4 DEF CheckBeforeSetup, CheckAfterCleanup, CheckBeforeHarbor, CheckResult,
     CheckAdmission, CallTurns, Engaged
<1>5. CASE DrainPrior(c) \/ DrainResult(c) \/ DrainCancelled(c)
  BY <1>5 DEF DrainPrior, DrainResult, DrainCancelled, Drain, CallTurns, Engaged
<1>6. CASE BeginAttempt(c) \/ StartSandbox(c) \/ HarborReturns(c) \/ PutTerminal(c)
  BY <1>6 DEF BeginAttempt, StartSandbox, HarborReturns, PutTerminal, CallTurns, Engaged
<1>7. CASE AuthorizeTerminal(c) \/ ObserveBeforeTerminal(c) \/ VerifyTerminal(c)
  BY <1>7 DEF AuthorizeTerminal, ObserveBeforeTerminal, VerifyTerminal, CallTurns, Engaged
<1>8. CASE ReadForAck(c) \/ ReadForFailure(c)
  BY <1>0, <1>8 DEF ReadForAck, ReadForFailure, Rest, Go, Remember, CallTurns, Engaged
<1>9. CASE Acknowledge(c) \/ MarkFailed(c)
  BY <1>0, <1>9 DEF Acknowledge, MarkFailed, Cas, Retry, Rest, Go, CallTurns, Engaged
<1>10. QED
  BY <1>1, <1>2, <1>3, <1>4, <1>5, <1>6, <1>7, <1>8, <1>9 DEF ControllerStep

(* What a controller adds is its own terminal record and sandbox.          *)
LEMMA ControllerAdds ==
    ASSUME NEW c \in Call, ControllerStep(c)
    PROVE  Adds(c)
<1>1. CASE ReconcileAtStart(c) \/ ReadForClaim(c) \/ Claim(c) \/ ReconcileAfterClaim(c)
           \/ CheckBeforeSetup(c) \/ CheckAfterCleanup(c) \/ CheckBeforeHarbor(c)
           \/ CheckResult(c) \/ BeginAttempt(c) \/ AuthorizeTerminal(c)
           \/ ObserveBeforeTerminal(c) \/ VerifyTerminal(c) \/ ReadForAck(c)
           \/ Acknowledge(c) \/ ReadForFailure(c) \/ MarkFailed(c)
  BY <1>1 DEF ReconcileAtStart, ReadForClaim, Claim, ReconcileAfterClaim, CheckBeforeSetup,
     CheckAfterCleanup, CheckBeforeHarbor, CheckResult, CheckAdmission, BeginAttempt,
     AuthorizeTerminal, ObserveBeforeTerminal, VerifyTerminal, ReadForAck, Acknowledge,
     ReadForFailure, MarkFailed, Adds
<1>2. CASE DrainPrior(c) \/ DrainResult(c) \/ DrainCancelled(c)
  BY <1>2 DEF DrainPrior, DrainResult, DrainCancelled, Drain, SweepStep, Adds
<1>3. CASE StartSandbox(c) \/ HarborReturns(c) \/ PutTerminal(c)
  BY <1>3 DEF StartSandbox, HarborReturns, PutTerminal, Adds
<1>4. QED
  BY <1>1, <1>2, <1>3 DEF ControllerStep

(* No controller writes what rests on a recoverer's or canceller's look.   *)
LEMMA ControllerWrites ==
    ASSUME TypeOK, KnowledgeHolds, NEW c \in Call, ControllerStep(c)
    PROVE  Writes(c)
<1>1. CASE admission' = admission
  BY <1>1 DEF Writes
<1>2. CASE admission' # admission
  <2>1. Claimed \/ Proved \/ Failed
    <3>1. Claim(c) \/ Acknowledge(c) \/ MarkFailed(c)
      BY <1>2 DEF ControllerStep, ReconcileAtStart, ReadForClaim,
         ReconcileAfterClaim, CheckBeforeSetup, DrainPrior, CheckAfterCleanup,
         BeginAttempt, CheckBeforeHarbor, StartSandbox, HarborReturns, CheckResult,
         DrainResult, DrainCancelled, AuthorizeTerminal, ObserveBeforeTerminal,
         PutTerminal, VerifyTerminal, ReadForAck, ReadForFailure, CheckAdmission, Drain
    <3>2. QED
      BY <1>2, <3>1, ClaimEdge, AcknowledgeEdge, MarkFailedEdge
  <2>2. admission'.state \in {"running", "terminal", "failed"}
    <3>1. \A st, o, d : Becomes(st, o, d) => admission'.state = st
      BY DEF Becomes, NextRevision
    <3>2. QED
      BY <2>1, <3>1 DEF Claimed, Proved, Failed
  <2>3. QED
    BY <2>1, <2>2 DEF Writes, Edge
<1>3. QED
  BY <1>1, <1>2

(* A step of a controller is a deed: it moves itself, turns sandboxes,     *)
(* proofs and the admission only as a controller may.                      *)
LEMMA ControllerDeed ==
    ASSUME TypeOK, KnowledgeHolds, NEW c \in Call, ControllerStep(c)
    PROVE  Deed(c)
<1>1. c \in Proc /\ c \notin Recoverer /\ c \notin Canceller
  BY ProcAssumption, ProcKinds DEF Operator
<1>2. Bystanders(c) /\ Finishes
  BY <1>1, ControllerMoves, NothingFinishes
<1>3. QED
  BY <1>1, <1>2, ControllerTurns, ControllerAdds, ControllerWrites DEF Deed

(* Modal's own steps: raising, finishing, dying, replaying, exiting.       *)
LEMMA ModalDeed ==
    ASSUME TypeOK, KnowledgeHolds, NEW c \in Call, ModalStep(c)
    PROVE  Deed(c)
<1>0. /\ c \in Proc /\ c \notin Recoverer /\ c \notin Canceller
      /\ pc \in [Proc -> Place] /\ call \in [Call -> {"unspawned", "running", "stopping", "finished"}]
      /\ pc[c] = "unspawned" => call[c] = "unspawned"
  BY ProcAssumption, ProcKinds DEF Operator, TypeOK, LocalTypeOK, SharedTypeOK,
     KnowledgeHolds, KnownOfCall
<1>1. Writes(c)
  BY DEF ModalStep, ControllerRaises, CallFinishes, ContainerDies, Replay, SandboxExits, Writes
<1>2. Adds(c)
  BY DEF ModalStep, ControllerRaises, CallFinishes, ContainerDies, Replay, SandboxExits, Adds
<1>3. CASE ControllerRaises(c)
  <2>1. /\ Alive(c) /\ UNCHANGED call
        /\ Rest(c, "returned") \/ Rest(c, "mark failed")
    BY <1>3 DEF ControllerRaises, Alive, Ended, Engaged
  <2>2. Bystanders(c) /\ pc'[c] \in {"returned", "mark failed"}
    BY <1>0, <2>1, AloneAtRest
  <2>3. QED
    BY <1>0, <1>1, <1>2, <2>1, <2>2, NothingFinishes DEF Deed, CallTurns, Engaged
<1>4. CASE CallFinishes(c)
  <2>1. call' = [call EXCEPT ![c] = "finished"] /\ call[c] \in {"running", "stopping"}
    BY <1>4 DEF CallFinishes
  <2>2. UNCHANGED <<pc, mem>>
    BY <1>4 DEF CallFinishes
  <2>3. Finishes
    BY <1>0, <2>1, <2>2 DEF Finishes, Alive
  <2>4. QED
    BY <1>0, <1>1, <1>2, <2>2, <2>3 DEF Deed, CallTurns, Bystanders
<1>5. CASE ContainerDies(c)
  <2>1. Bystanders(c) /\ pc'[c] = "killed" /\ UNCHANGED call /\ Alive(c)
    BY <1>0, <1>5, AloneAtRest DEF ContainerDies
  <2>2. QED
    BY <1>0, <1>1, <1>2, <2>1, NothingFinishes DEF Deed, CallTurns, Engaged
<1>6. CASE Replay(c)
  <2>1. /\ Bystanders(c) /\ pc'[c] = "queued" /\ UNCHANGED call /\ call[c] = "running"
        /\ \A q \in Call : q # c => pc'[q] = pc[q]
    BY <1>0, <1>6, AloneAtRest, ProcKinds DEF Replay, Rest, Go
  <2>2. Finishes
    BY <2>1 DEF Finishes, Alive
  <2>3. QED
    BY <1>0, <1>1, <1>2, <2>1, <2>2 DEF Deed, CallTurns, Engaged
<1>7. CASE SandboxExits(c)
  <2>1. UNCHANGED <<pc, mem, call>>
    BY <1>7 DEF SandboxExits
  <2>2. QED
    BY <1>0, <1>1, <1>2, <2>1 DEF Deed, CallTurns, Bystanders, Finishes, Alive
<1>8. QED
  BY <1>3, <1>4, <1>5, <1>6, <1>7 DEF ModalStep

(* A spawn starts a call that Modal has not seen before.                   *)
LEMMA SpawnDeed ==
    ASSUME TypeOK, KnowledgeHolds, NEW p \in Submitter \cup Recoverer, Spawn(p)
    PROVE  Deed(p)
<1>0. /\ p \in Proc /\ p \notin Call /\ p \notin Canceller
      /\ pc \in [Proc -> Place] /\ mem \in [Proc -> Mem]
      /\ call \in [Call -> {"unspawned", "running", "stopping", "finished"}]
  BY ProcAssumption DEF Proc, Operator, TypeOK, LocalTypeOK, SharedTypeOK
<1>1. Writes(p) /\ Adds(p)
  BY DEF Spawn, Writes, Adds
<1>2. CASE Rest(p, "idle") /\ UNCHANGED call
  <2>1. Bystanders(p) /\ pc'[p] = "idle"
    BY <1>0, <1>2, AloneAtRest
  <2>2. Finishes
    BY <1>0, <1>2, <2>1, NothingFinishes
  <2>3. QED
    BY <1>0, <1>1, <2>1, <2>2 DEF Deed, RecovererTurns, SweptPlaces
<1>3. CASE ~(Rest(p, "idle") /\ UNCHANGED call)
  <2>1. PICK c \in Call :
            /\ pc[c] = "unspawned"
            /\ call' = [call EXCEPT ![c] = "running"]
            /\ pc' = [pc EXCEPT ![p] = "idle", ![c] = "queued"]
            /\ mem' = [mem EXCEPT ![p] = Fresh]
    BY <1>3 DEF Spawn
  <2>2. c \in Proc /\ c # p /\ call[c] = "unspawned"
    BY <1>0, <2>1, ProcKinds DEF KnowledgeHolds, KnownOfCall
  <2>3. pc'[p] = "idle" /\ pc'[c] = "queued" /\ \A q \in Proc : q # p /\ q # c => pc'[q] = pc[q]
    BY <1>0, <2>1, <2>2
  <2>4. Bystanders(p)
    BY <1>0, <2>1, <2>3 DEF Bystanders
  <2>5. Finishes
    BY <1>0, <2>1, <2>2, <2>3, ProcKinds DEF Finishes, Alive
  <2>6. QED
    BY <1>0, <1>1, <2>3, <2>4, <2>5 DEF Deed, RecovererTurns, SweptPlaces
<1>4. QED
  BY <1>2, <1>3

(* A submitter's step is a deed: it creates an admission or spawns the     *)
(* call it owns.                                                           *)
LEMMA SubmitterDeed ==
    ASSUME TypeOK, KnowledgeHolds, NEW s \in Submitter, SubmitterStep(s)
    PROVE  Deed(s)
<1>0. s \in Proc /\ s \notin Call /\ s \notin Recoverer /\ s \notin Canceller
  BY ProcAssumption, ProcKinds DEF Operator
<1>1. CASE Spawn(s)
  BY <1>1, SpawnDeed
<1>2. CASE Submit(s) \/ CreateAdmission(s) \/ ObserveAdmission(s)
  <2>1. UNCHANGED <<terminals, sandboxes, call>> /\ \E l \in {"create", "spawn", "reread", "idle"} : Rest(s, l)
    BY <1>2 DEF Submit, CreateAdmission, ObserveAdmission
  <2>2. Bystanders(s)
    BY <1>0, <2>1, AloneAtRest
  <2>3. admission' = admission \/ Created
    BY <1>2 DEF Submit, CreateAdmission, ObserveAdmission, Created
  <2>4. Created => admission.state = "missing" /\ admission'.state = "prepared"
    BY DEF Created, Missing, NewAdmission
  <2>5. Writes(s) /\ Adds(s)
    BY <2>1, <2>3, <2>4 DEF Writes, Adds, Edge
  <2>6. Finishes
    BY <1>0, <2>1, <2>2, NothingFinishes
  <2>7. QED
    BY <1>0, <2>2, <2>5, <2>6 DEF Deed
<1>3. QED
  BY <1>1, <1>2 DEF SubmitterStep

(* An operator's command that ends, or fails. *)
LEMMA FailureDeed ==
    ASSUME TypeOK, KnowledgeHolds, NEW p \in Operator, OperatorFails(p)
    PROVE  Deed(p)
<1>0. p \in Proc /\ p \notin Call
  BY ProcAssumption DEF Proc
<1>1. Rest(p, "idle") /\ UNCHANGED <<admission, terminals, sandboxes, call>>
  BY DEF OperatorFails
<1>2. Bystanders(p) /\ pc'[p] = "idle"
  BY <1>0, <1>1, AloneAtRest
<1>3. Finishes
  BY <1>0, <1>1, <1>2, NothingFinishes
<1>4. Adds(p) /\ Writes(p)
  BY <1>1 DEF Adds, Writes
<1>5. QED
  BY <1>0, <1>2, <1>3, <1>4 DEF Deed, RecovererTurns, SweptPlaces

(* A look for a proof, from wherever recovery makes it.                    *)
LEMMA LookTurns ==
    ASSUME TypeOK, NEW r \in Recoverer, NEW l,
           \/ Rest(r, "idle")
           \/ \E d \in Call : /\ Go(r, "terminal read")
                              /\ mem' = [mem EXCEPT ![r] = [Fresh EXCEPT !.proof = d]]
           \/ NoProof /\ Go(r, l) /\ UNCHANGED mem
           \/ NoProof /\ Rest(r, l)
           \/ RetryRecovery(r)
    PROVE  /\ Bystanders(r)
           /\ \/ pc'[r] \in {"idle", "terminal read", "recover"}
              \/ NoProof /\ pc'[r] = l /\ (mem'[r] = mem[r] \/ mem'[r] = Fresh)
<1>0. r \in Proc /\ pc \in [Proc -> Place] /\ mem \in [Proc -> Mem]
  BY ProcKinds DEF TypeOK, LocalTypeOK
<1>1. CASE Rest(r, "idle")
  BY <1>0, <1>1, AloneAtRest
<1>2. CASE \E d \in Call : /\ Go(r, "terminal read")
                          /\ mem' = [mem EXCEPT ![r] = [Fresh EXCEPT !.proof = d]]
  BY <1>0, <1>2 DEF Go, Bystanders
<1>3. CASE NoProof /\ Go(r, l) /\ UNCHANGED mem
  BY <1>0, <1>3, Alone
<1>4. CASE NoProof /\ Rest(r, l)
  BY <1>0, <1>4, AloneAtRest
<1>5. CASE RetryRecovery(r)
  BY <1>0, <1>5 DEF RetryRecovery, Retry, Rest, Go, Bystanders
<1>6. QED
  BY <1>1, <1>2, <1>3, <1>4, <1>5

(* A recoverer reaches its takeover and its final write only through the   *)
(* looks that these rest on.                                               *)
LEMMA RecovererMoves ==
    ASSUME TypeOK, KnowledgeHolds, NEW r \in Recoverer, RecovererStep(r)
    PROVE  Bystanders(r) /\ RecovererTurns(r)
<1>0. r \in Proc /\ pc \in [Proc -> Place] /\ mem \in [Proc -> Mem]
  BY ProcKinds DEF TypeOK, LocalTypeOK
<1>1. ASSUME Bystanders(r), pc'[r] \notin SweptPlaces \cup {"recover write"}
      PROVE  Bystanders(r) /\ RecovererTurns(r)
  BY <1>1 DEF RecovererTurns
<1>2. CASE Recover(r) \/ RecoverRequest(r)
  <2>1. \E l \in {"recover", "spawn", "idle"} : Rest(r, l)
    BY <1>2 DEF Recover, RecoverRequest
  <2>2. QED
    BY <1>0, <1>1, <2>1, AloneAtRest DEF SweptPlaces
<1>3. CASE RecoverProof(r) \/ SweepProof(r) \/ FinishChanged(r) \/ SuccessorProof(r)
  <2>1. PICK l \in {"recover read", "sweep", "successor read"} :
           \/ Rest(r, "idle")
           \/ \E d \in Call : /\ Go(r, "terminal read")
                              /\ mem' = [mem EXCEPT ![r] = [Fresh EXCEPT !.proof = d]]
           \/ NoProof /\ Go(r, l) /\ UNCHANGED mem
           \/ NoProof /\ Rest(r, l)
           \/ RetryRecovery(r)
    BY <1>3 DEF RecoverProof, SweepProof, FinishChanged, SuccessorProof, ReadProof
  <2>2. /\ Bystanders(r)
        /\ pc'[r] \in {"idle", "terminal read", "recover", "recover read", "sweep", "successor read"}
    BY <2>1, LookTurns
  <2>3. QED
    BY <1>1, <2>2 DEF SweptPlaces
<1>4. CASE RecoverRead(r)
  BY <1>0, <1>4 DEF RecoverRead, Rest, Go, Remember, Bystanders, RecovererTurns, SweptPlaces
<1>5. CASE InspectOwner(r)
  BY <1>0, <1>5 DEF InspectOwner, Rest, Go, Bystanders, RecovererTurns, SweptPlaces
<1>6. CASE Settle(r)
  <2>1. /\ UNCHANGED <<admission, terminals, call>>
        /\ pc[r] = "settle" /\ SettledDown(mem[r].seen.owner)
        /\ \/ Rest(r, "idle")
           \/ \E d \in Call : /\ Go(r, "terminal read")
                              /\ mem' = [mem EXCEPT ![r] = [Fresh EXCEPT !.proof = d]]
           \/ NoProof /\ Go(r, "recover write") /\ UNCHANGED mem
    BY <1>6 DEF Settle, ReadProof
  <2>2. CASE NoProof /\ Go(r, "recover write") /\ UNCHANGED mem
    <3>1. Bystanders(r) /\ pc'[r] = "recover write" /\ mem'[r] = mem[r]
      BY <1>0, <2>2, Alone
    <3>2. QED
      BY <2>1, <2>2, <3>1 DEF RecovererTurns, SweptPlaces
  <2>3. CASE ~(NoProof /\ Go(r, "recover write") /\ UNCHANGED mem)
    <3>1. Bystanders(r) /\ pc'[r] \in {"idle", "terminal read"}
      BY <1>0, <2>1, <2>3, AloneAtRest DEF Go, Bystanders
    <3>2. QED
      BY <1>1, <3>1 DEF SweptPlaces
  <2>4. QED
    BY <2>2, <2>3
<1>7. CASE EnterRecovering(r)
  BY <1>0, <1>7 DEF EnterRecovering, Cas, Wrote, RetryRecovery, Retry, Rest, Go, Bystanders,
     RecovererTurns, SweptPlaces
<1>8. CASE SweepStale(r)
  <2>1. /\ UNCHANGED admission
        /\ \/ /\ sandboxes' = {} /\ Go(r, "finish proof")
              /\ mem' = [mem EXCEPT ![r] = [@ EXCEPT !.made = 0, !.empty = 0]]
           \/ Rest(r, "idle")
           \/ /\ Go(r, "sweep proof")
              /\ \E e \in {0, 1} : mem' = [mem EXCEPT ![r] =
                    [mem[r] EXCEPT !.made = mem[r].made + 1, !.empty = e]]
    BY <1>8 DEF SweepStale, SweepStep
  <2>2. CASE /\ sandboxes' = {} /\ Go(r, "finish proof")
             /\ mem' = [mem EXCEPT ![r] = [@ EXCEPT !.made = 0, !.empty = 0]]
    <3>1. /\ Bystanders(r) /\ pc'[r] = "finish proof"
          /\ mem'[r] = [mem[r] EXCEPT !.made = 0, !.empty = 0]
      BY <1>0, <2>2 DEF Go, Bystanders
    <3>2. mem[r] \in Mem
      BY <1>0
    <3>3. mem'[r].seen = mem[r].seen
      BY <3>1, <3>2 DEF Mem
    <3>4. QED
      BY <2>1, <2>2, <3>1, <3>3 DEF RecovererTurns, SweptPlaces
  <2>3. CASE Rest(r, "idle")
    <3>1. Bystanders(r) /\ pc'[r] = "idle"
      BY <1>0, <2>3, AloneAtRest
    <3>2. QED
      BY <1>1, <3>1 DEF SweptPlaces
  <2>4. CASE /\ Go(r, "sweep proof")
             /\ \E e \in {0, 1} : mem' = [mem EXCEPT ![r] =
                   [mem[r] EXCEPT !.made = mem[r].made + 1, !.empty = e]]
    <3>1. Bystanders(r) /\ pc'[r] = "sweep proof"
      BY <1>0, <2>4 DEF Go, Bystanders
    <3>2. QED
      BY <1>1, <3>1 DEF SweptPlaces
  <2>5. QED
    BY <2>1, <2>2, <2>3, <2>4
<1>9. CASE FinishProof(r)
  <2>1. /\ UNCHANGED admission /\ pc[r] = "finish proof"
        /\ \/ Rest(r, "idle")
           \/ \E d \in Call : /\ Go(r, "terminal read")
                              /\ mem' = [mem EXCEPT ![r] = [Fresh EXCEPT !.proof = d]]
           \/ NoProof /\ Go(r, "finish read") /\ UNCHANGED mem
    BY <1>9 DEF FinishProof, ReadProof
  <2>2. CASE Go(r, "finish read") /\ UNCHANGED mem
    <3>1. Bystanders(r) /\ pc'[r] = "finish read" /\ mem'[r] = mem[r]
      BY <1>0, <2>2, Alone
    <3>2. QED
      BY <2>1, <3>1 DEF RecovererTurns, SweptPlaces
  <2>3. CASE ~(Go(r, "finish read") /\ UNCHANGED mem)
    <3>1. Bystanders(r) /\ pc'[r] \in {"idle", "terminal read"}
      BY <1>0, <2>1, <2>3, AloneAtRest DEF Go, Bystanders
    <3>2. QED
      BY <1>1, <3>1 DEF SweptPlaces
  <2>4. QED
    BY <2>2, <2>3
<1>10. CASE FinishRead(r)
  <2>1. /\ UNCHANGED admission /\ pc[r] = "finish read"
        /\ \/ Go(r, "prepare write") /\ UNCHANGED mem
           \/ Go(r, "finish changed") /\ UNCHANGED mem
           \/ Rest(r, "idle")
           \/ RetryRecovery(r)
    BY <1>10 DEF FinishRead
  <2>2. CASE \E l \in {"prepare write", "finish changed"} : Go(r, l) /\ UNCHANGED mem
    <3>1. /\ Bystanders(r) /\ mem'[r] = mem[r]
          /\ pc'[r] \in {"prepare write", "finish changed"}
      BY <1>0, <2>2, Alone
    <3>2. QED
      BY <2>1, <3>1 DEF RecovererTurns, SweptPlaces
  <2>3. CASE Rest(r, "idle") \/ RetryRecovery(r)
    <3>1. Bystanders(r) /\ pc'[r] \in {"idle", "recover"}
      BY <1>0, <2>3 DEF RetryRecovery, Retry, Rest, Go, Bystanders
    <3>2. QED
      BY <1>1, <3>1 DEF SweptPlaces
  <2>4. QED
    BY <2>1, <2>2, <2>3
<1>11. CASE PrepareSuccessor(r)
  BY <1>0, <1>11 DEF PrepareSuccessor, Cas, Rest, Go, Bystanders, RecovererTurns, SweptPlaces
<1>12. CASE PrepareLost(r)
  BY <1>0, <1>12 DEF PrepareLost, RetryRecovery, Retry, Rest, Go, Bystanders, RecovererTurns,
     SweptPlaces
<1>13. CASE TerminalRead(r)
  BY <1>0, <1>13 DEF TerminalRead, Rest, Go, Bystanders, RecovererTurns, SweptPlaces
<1>14. CASE TerminalSweep(r)
  BY <1>0, <1>14 DEF TerminalSweep, SweepStep, Rest, Go, Bystanders, RecovererTurns, SweptPlaces
<1>15. QED
  BY <1>2, <1>3, <1>4, <1>5, <1>6, <1>7, <1>8, <1>9, <1>10, <1>11, <1>12, <1>13, <1>14
  DEF RecovererStep

(* A recoverer writes the admission in two places, entering recovery and   *)
(* preparing the successor, and both are the edges the owner's stage       *)
(* allows.                                                                 *)
LEMMA RecovererWrites ==
    ASSUME TypeOK, KnowledgeHolds, NEW r \in Recoverer, RecovererStep(r)
    PROVE  Writes(r)
<1>1. CASE admission' = admission
  BY <1>1 DEF Writes
<1>2. CASE admission' # admission
  <2>1. EnterRecovering(r) \/ PrepareSuccessor(r)
    BY <1>2 DEF RecovererStep, ReadProof, Recover, RecoverProof, RecoverRead,
       InspectOwner, Settle, SweepProof, SweepStale, FinishProof, FinishRead,
       FinishChanged, PrepareLost, SuccessorProof, RecoverRequest, TerminalRead,
       TerminalSweep
  <2>2. \A st, o, d : Becomes(st, o, d) => admission'.state = st
    BY DEF Becomes, NextRevision
  <2>3. CASE EnterRecovering(r)
    <3>1. pc[r] = "recover write" /\ EtagMatches(r)
      BY <1>2, <2>3 DEF EnterRecovering, Cas
    <3>2. Recovering
      BY <1>2, <2>3, EnterRecoveringEdge
    <3>3. admission'.state = "recovering"
      BY <2>2, <3>2 DEF Recovering
    <3>4. QED
      BY <3>1, <3>2, <3>3 DEF Writes, Edge
  <2>4. CASE PrepareSuccessor(r)
    <3>1. pc[r] = "prepare write" /\ EtagMatches(r)
      BY <1>2, <2>4 DEF PrepareSuccessor, Cas
    <3>2. Prepared
      BY <1>2, <2>4, PrepareSuccessorEdge
    <3>3. admission'.state = "prepared"
      BY <2>2, <3>2 DEF Prepared
    <3>4. QED
      BY <3>1, <3>2, <3>3 DEF Writes, Edge
  <2>5. QED
    BY <2>1, <2>3, <2>4
<1>3. QED
  BY <1>1, <1>2

(* A recoverer's step is a deed: it proves nothing and only takes          *)
(* sandboxes away.                                                         *)
LEMMA RecovererDeed ==
    ASSUME TypeOK, KnowledgeHolds, NEW r \in Recoverer, RecovererStep(r)
    PROVE  Deed(r)
<1>1. r \in Proc /\ r \notin Call /\ r \notin Canceller
  BY ProcAssumption, ProcKinds DEF Operator
<1>2. /\ UNCHANGED <<terminals, call>> /\ sandboxes' \subseteq sandboxes
  <2>1. CASE SweepStale(r) \/ TerminalSweep(r)
    BY <2>1 DEF SweepStale, TerminalSweep, SweepStep
  <2>2. CASE ~(SweepStale(r) \/ TerminalSweep(r))
    BY <2>2 DEF RecovererStep, ReadProof, Recover, RecoverProof, RecoverRead,
       InspectOwner, Settle, EnterRecovering, SweepProof, FinishProof, FinishRead,
       FinishChanged, PrepareSuccessor, PrepareLost, SuccessorProof, RecoverRequest, TerminalRead
  <2>3. QED
    BY <2>1, <2>2
<1>3. Adds(r)
  BY <1>2 DEF Adds
<1>4. Finishes
  BY <1>1, <1>2, RecovererMoves, NothingFinishes
<1>5. QED
  BY <1>1, <1>3, <1>4, RecovererMoves, RecovererWrites DEF Deed

-----------------------------------------------------------------------------

(* A canceller moves alone.                                                *)
LEMMA CancellerMoves ==
    ASSUME TypeOK, NEW k \in Canceller, CancellerStep(k)
    PROVE  Bystanders(k)
<1>0. k \in Proc /\ pc \in [Proc -> Place] /\ mem \in [Proc -> Mem]
  BY ProcKinds DEF TypeOK, LocalTypeOK
<1>1. CASE Cancel(k) \/ CancelPrepared(k) \/ RecordCancelled(k) \/ CancelLostRead(k)
  BY <1>0, <1>1 DEF Cancel, CancelPrepared, RecordCancelled, CancelLostRead, Cas, Reported,
     RetryCancellation, Retry, Rest, Go, Bystanders
<1>2. CASE CancelProof(k) \/ CancelLost(k) \/ CancelProofAgain(k)
  BY <1>0, <1>2 DEF CancelProof, CancelLost, CancelProofAgain, Reported, Rest, Go, Bystanders
<1>3. CASE CancelRead(k) \/ CancelReread(k) \/ StopOwner(k)
  BY <1>0, <1>3 DEF CancelRead, CancelReread, StopOwner, Reported, Remember, Rest, Go, Bystanders
<1>4. CASE RecordIntent(k)
  <2>1. CASE RetryCancellation(k)
    BY <1>0, <2>1 DEF RetryCancellation, Retry, Rest, Go, Bystanders
  <2>2. CASE ~RetryCancellation(k)
    <3>1. PICK a : Go(k, "stop owner") /\ mem' = [mem EXCEPT ![k] = [@ EXCEPT !.seen = a]]
      BY <1>4, <2>2 DEF RecordIntent, Cas, Wrote
    <3>2. QED
      BY <1>0, <3>1 DEF Go, Bystanders
  <2>3. QED
    BY <2>1, <2>2
<1>5. CASE PollOwner(k)
  BY <1>0, <1>5 DEF PollOwner, Learn, Go, Bystanders
<1>6. CASE CancelSweep(k)
  BY <1>0, <1>6 DEF CancelSweep, SweepStep, Learn, Go, Bystanders
<1>7. QED
  BY <1>1, <1>2, <1>3, <1>4, <1>5, <1>6 DEF CancellerStep

(* A canceller writes the admission in three places: withdrawing a         *)
(* prepared call, recording intent and recording the cancellation.         *)
LEMMA CancellerWrites ==
    ASSUME TypeOK, KnowledgeHolds, NEW k \in Canceller, CancellerStep(k)
    PROVE  Writes(k)
<1>1. CASE admission' = admission
  BY <1>1 DEF Writes
<1>2. CASE admission' # admission
  <2>1. CancelPrepared(k) \/ RecordIntent(k) \/ RecordCancelled(k)
    BY <1>2 DEF CancellerStep, Cancel, CancelProof, CancelRead, StopOwner, PollOwner,
       CancelSweep, CancelProofAgain, CancelReread, CancelLost, CancelLostRead
  <2>2. \A st, o, d : Becomes(st, o, d) => admission'.state = st
    BY DEF Becomes, NextRevision
  <2>3. CASE CancelPrepared(k)
    <3>1. Withdrawn
      BY <1>2, <2>3, CancelPreparedEdge
    <3>2. admission.state = "prepared" /\ admission'.state = "cancelled"
      BY <2>2, <3>1 DEF Withdrawn, NewAdmission
    <3>3. QED
      BY <3>1, <3>2 DEF Writes, Edge
  <2>4. CASE RecordIntent(k)
    <3>1. Intended
      BY <1>2, <2>4, RecordIntentEdge
    <3>2. admission'.state = "cancelling"
      BY <2>2, <3>1 DEF Intended
    <3>3. QED
      BY <3>1, <3>2 DEF Writes, Edge
  <2>5. CASE RecordCancelled(k)
    <3>1. Cancelled
      BY <1>2, <2>5, RecordCancelledEdge
    <3>2. admission'.state = "cancelled"
      BY <2>2, <3>1 DEF Cancelled
    <3>3. QED
      BY <3>1, <3>2 DEF Writes, Edge
  <2>6. QED
    BY <2>1, <2>3, <2>4, <2>5
<1>3. QED
  BY <1>1, <1>2

(* A canceller's step is a deed: it proves nothing and only takes          *)
(* sandboxes away.                                                         *)
LEMMA CancellerDeed ==
    ASSUME TypeOK, KnowledgeHolds, NEW k \in Canceller, CancellerStep(k)
    PROVE  Deed(k)
<1>1. k \in Proc /\ k \notin Call /\ k \notin Recoverer
  BY ProcAssumption, ProcKinds DEF Operator
<1>2. UNCHANGED terminals /\ sandboxes' \subseteq sandboxes
  <2>1. CASE CancelSweep(k)
    BY <2>1 DEF CancelSweep, SweepStep
  <2>2. CASE ~CancelSweep(k)
    BY <2>2 DEF CancellerStep, Cancel, CancelProof, CancelRead, CancelPrepared, RecordIntent,
       StopOwner, PollOwner, CancelProofAgain, CancelReread, RecordCancelled, CancelLost,
       CancelLostRead
  <2>3. QED
    BY <2>1, <2>2
<1>3. Adds(k)
  BY <1>2 DEF Adds
<1>4. Finishes
  <2>1. CASE UNCHANGED call
    BY <1>1, <2>1, CancellerMoves, NothingFinishes
  <2>2. CASE ~UNCHANGED call
    <3>1. StopOwner(k)
      BY <2>2 DEF CancellerStep, Cancel, CancelProof, CancelRead, CancelPrepared, RecordIntent,
         PollOwner, CancelSweep, CancelProofAgain, CancelReread, RecordCancelled, CancelLost,
         CancelLostRead
    <3>2. \A c \in Call : call'[c] = call[c] \/ (call[c] = "running" /\ call'[c] = "stopping")
      BY <3>1 DEF StopOwner, TypeOK, SharedTypeOK
    <3>3. \A c \in Call : pc'[c] = pc[c]
      BY <1>1, <3>1, ProcKinds DEF StopOwner, Go, TypeOK, LocalTypeOK
    <3>4. QED
      BY <3>2, <3>3 DEF Finishes, Alive
  <2>3. QED
    BY <2>1, <2>2
<1>5. QED
  BY <1>1, <1>3, <1>4, CancellerMoves, CancellerWrites DEF Deed

-----------------------------------------------------------------------------

(* Every step of the system is a deed of one process. *)
LEMMA StepDeed ==
    ASSUME TypeOK, KnowledgeHolds, Next
    PROVE  \E p \in Proc : Deed(p)
<1>1. ASSUME NEW c \in Call, ControllerStep(c) \/ ModalStep(c) PROVE Deed(c)
  BY <1>1, ControllerDeed, ModalDeed
<1>2. ASSUME NEW s \in Submitter, SubmitterStep(s) PROVE Deed(s)
  BY <1>2, SubmitterDeed
<1>3. ASSUME NEW r \in Recoverer, RecovererStep(r) \/ Spawn(r) PROVE Deed(r)
  BY <1>3, RecovererDeed, SpawnDeed
<1>4. ASSUME NEW k \in Canceller, CancellerStep(k) PROVE Deed(k)
  BY <1>4, CancellerDeed
<1>5. ASSUME NEW p \in Operator, OperatorFails(p) PROVE Deed(p)
  BY <1>5, FailureDeed
<1>6. Operator \subseteq Proc
  BY DEF Proc
<1>7. QED
  BY <1>1, <1>2, <1>3, <1>4, <1>5, <1>6, ProcKinds DEF Next

(* What recoverers and controllers rely on about ownership always holds,   *)
(* if a finished call no longer executes after the settling window.        *)
THEOREM OwnershipAlwaysHolds ==
    ASSUME StopModel # "lingering"
    PROVE  Spec => []OwnershipHolds
<1>1. Init => OwnershipHolds
  BY OwnershipInit
<1>2. TypeOK /\ KnowledgeHolds /\ OwnershipHolds /\ [Next]_vars => OwnershipHolds'
  <2> SUFFICES ASSUME TypeOK, KnowledgeHolds, OwnershipHolds, [Next]_vars
               PROVE  OwnershipHolds'
    OBVIOUS
  <2>1. CASE Next
    BY <2>1, StepDeed, OwnershipKept
  <2>2. CASE UNCHANGED vars
    BY <2>2 DEF vars, OwnershipHolds, TakeoverSound, SweepSound, RecoveredIsDead,
       OnlyOwnerEngaged, ProofIsOwners, NoStaleSandbox, Dead, Alive, EtagMatches, NoProof
  <2>3. QED
    BY <2>1, <2>2
<1>3. QED
  BY <1>1, <1>2, TypesAlwaysHold, KnowledgeAlwaysHolds, PTL DEF Spec

(* At most the owner works on the run, and nobody while it is prepared or  *)
(* being recovered.                                                        *)
THEOREM OnlyTheOwnerIsEngaged ==
    ASSUME StopModel # "lingering"
    PROVE  Spec => []OnlyOwnerEngaged
<1>1. OwnershipHolds => OnlyOwnerEngaged
  BY DEF OwnershipHolds
<1>2. QED
  BY <1>1, OwnershipAlwaysHolds, PTL

(* At most one terminal record becomes visible, and a run that has one is  *)
(* never prepared or recovered.                                            *)
THEOREM ProofIsAlwaysFinal ==
    ASSUME StopModel # "lingering"
    PROVE  Spec => []ProofIsFinal
<1>1. OwnershipHolds => ProofIsFinal
  BY DEF OwnershipHolds, ProofIsOwners, ProofIsFinal, Conflicting, NoProof
<1>2. QED
  BY <1>1, OwnershipAlwaysHolds, PTL

(* Every sandbox that runs belongs to the owner of the run.                *)
THEOREM SandboxesAreTheOwners ==
    ASSUME StopModel # "lingering"
    PROVE  Spec => []NoStaleSandbox
<1>1. OwnershipHolds => NoStaleSandbox
  BY DEF OwnershipHolds
<1>2. QED
  BY <1>1, OwnershipAlwaysHolds, PTL

-----------------------------------------------------------------------------
(* The refinement of RunOwnership. *)

(* The refinement mapping of Ownership, by name. *)
TheProof == IF terminals = {} THEN NoCall ELSE CHOOSE d \in terminals : TRUE

TheStage == CASE admission.state = "cancelling" -> "stopping"
              [] admission.state \in {"cancelled", "terminal"} -> "closed"
              [] OTHER -> "open"

SameRun == admission'.owner = admission.owner /\ TheProof' = TheProof /\ TheStage' = TheStage

(* The steps of RunOwnership under the mapping. *)
LEMMA MappedSteps ==
    /\ Ownership!Init <=> admission.owner = NoCall /\ TheProof = NoCall /\ TheStage = "open"
    /\ SameRun <=> UNCHANGED Ownership!vars
    /\ \A c \in Call : Ownership!Acquire(c) <=>
          /\ TheStage = "open" /\ admission.owner = NoCall /\ TheProof = NoCall
          /\ admission'.owner = c /\ TheProof' = TheProof /\ TheStage' = TheStage
    /\ Ownership!Release <=>
          /\ TheStage = "open" /\ admission.owner # NoCall /\ TheProof = NoCall
          /\ admission'.owner = NoCall /\ TheProof' = TheProof /\ TheStage' = TheStage
    /\ Ownership!Prove <=>
          /\ admission.owner # NoCall /\ TheProof = NoCall
          /\ TheProof' = admission.owner
          /\ admission'.owner = admission.owner /\ TheStage' = TheStage
    /\ Ownership!RequestStop <=>
          /\ TheStage = "open" /\ admission.owner # NoCall /\ TheStage' = "stopping"
          /\ admission'.owner = admission.owner /\ TheProof' = TheProof
    /\ Ownership!Close <=>
          /\ \/ TheStage = "stopping"
             \/ TheStage = "open" /\ admission.owner = NoCall
             \/ TheStage = "open" /\ TheProof # NoCall
          /\ TheStage' = "closed"
          /\ admission'.owner = admission.owner /\ TheProof' = TheProof
<1>1. Ownership!Init <=> admission.owner = NoCall /\ TheProof = NoCall /\ TheStage = "open"
  BY DEF Ownership!Init, TheProof, TheStage
<1>2. SameRun <=> UNCHANGED Ownership!vars
  BY DEF Ownership!vars, TheProof, TheStage, SameRun
<1>3. \A c \in Call : Ownership!Acquire(c) <=>
          /\ TheStage = "open" /\ admission.owner = NoCall /\ TheProof = NoCall
          /\ admission'.owner = c /\ TheProof' = TheProof /\ TheStage' = TheStage
  BY DEF Ownership!Acquire, TheProof, TheStage
<1>4. Ownership!Release <=>
          /\ TheStage = "open" /\ admission.owner # NoCall /\ TheProof = NoCall
          /\ admission'.owner = NoCall /\ TheProof' = TheProof /\ TheStage' = TheStage
  BY DEF Ownership!Release, TheProof, TheStage
<1>5. Ownership!Prove <=>
          /\ admission.owner # NoCall /\ TheProof = NoCall
          /\ TheProof' = admission.owner
          /\ admission'.owner = admission.owner /\ TheStage' = TheStage
  BY DEF Ownership!Prove, TheProof, TheStage
<1>6. Ownership!RequestStop <=>
          /\ TheStage = "open" /\ admission.owner # NoCall /\ TheStage' = "stopping"
          /\ admission'.owner = admission.owner /\ TheProof' = TheProof
  BY DEF Ownership!RequestStop, TheProof, TheStage
<1>7. Ownership!Close <=>
          /\ \/ TheStage = "stopping"
             \/ TheStage = "open" /\ admission.owner = NoCall
             \/ TheStage = "open" /\ TheProof # NoCall
          /\ TheStage' = "closed"
          /\ admission'.owner = admission.owner /\ TheProof' = TheProof
  BY DEF Ownership!Close, TheProof, TheStage
<1>8. QED
  BY <1>1, <1>2, <1>3, <1>4, <1>5, <1>6, <1>7

(* The stage is read off the state, the proof is the owner's record.       *)
Mapped ==
    /\ admission.state = "cancelling" => TheStage = "stopping"
    /\ admission.state \in {"cancelled", "terminal"} => TheStage = "closed"
    /\ admission.state \notin {"cancelling", "cancelled", "terminal"} => TheStage = "open"
    /\ terminals = {} => TheProof = NoCall
    /\ \A c : terminals = {c} => TheProof = c

(* The values of the refinement mapping, state by state of the admission.  *)
LEMMA MappedNow == Mapped
<1>1. \A c : terminals = {c} => TheProof = c
  <2> TAKE c
  <2>1. (CHOOSE d \in {c} : TRUE) \in {c}
    OBVIOUS
  <2>2. QED
    BY <2>1 DEF TheProof
<1>2. QED
  BY <1>1 DEF TheStage, TheProof, Mapped

(* The same of the next state.                                             *)
LEMMA MappedNext == Mapped'
BY MappedNow, PTL

(* Only proofs change what is proved, only edges change owner and stage.   *)
LEMMA SameProof ==
    ASSUME terminals' = terminals
    PROVE  TheProof' = TheProof
BY DEF TheProof

(* The publication of a terminal record is the abstract Prove.             *)
LEMMA PutProves ==
    ASSUME TypeOK, KnowledgeHolds, OwnershipHolds, NEW p \in Proc, Deed(p),
           terminals' # terminals
    PROVE  Ownership!Prove
<1>1. /\ p \in Call /\ pc[p] = "put" /\ terminals' = terminals \cup {p}
      /\ admission' = admission
  BY DEF Deed, Adds
<1>2. admission.owner = p /\ p # NoCall
  BY <1>1, NoCallAssumption DEF OwnershipHolds, OnlyOwnerEngaged, Engaged
<1>3. terminals = {} /\ terminals' = {p}
  BY <1>1, <1>2 DEF OwnershipHolds, ProofIsOwners, NoProof
<1>4. TheProof = NoCall /\ TheProof' = p
  BY <1>3, MappedNow, MappedNext DEF Mapped
<1>5. TheStage' = TheStage
  BY <1>1 DEF TheStage
<1>6. QED
  BY <1>1, <1>2, <1>4, <1>5, MappedSteps

(* Every edge of the admission is a step of the abstract run, or none.     *)
LEMMA EdgeMaps ==
    ASSUME TypeOK, KnowledgeHolds, OwnershipHolds, Edge, terminals' = terminals
    PROVE  Ownership!Next \/ SameRun
<1>0. /\ Mapped /\ Mapped' /\ TheProof' = TheProof
      /\ ProofIsOwners
      /\ admission \in Admission \cup {Missing} /\ terminals \subseteq Call
      /\ admission # Missing => ValidRevision(admission)
  BY MappedNow, MappedNext, SameProof
  DEF OwnershipHolds, TypeOK, SharedTypeOK, KnowledgeHolds, KnownOfRun
<1>1. \A st, o, d : Becomes(st, o, d) =>
          /\ admission'.state = st
          /\ admission'.owner = IF st = "prepared" THEN NoCall
                                ELSE IF admission.owner # NoCall THEN admission.owner ELSE o
  BY DEF Becomes, NextRevision
<1>2. admission.state = "prepared" => admission.owner = NoCall
  BY <1>0 DEF Missing, ValidRevision
<1>3. admission.state \in {"running", "failed", "recovering", "cancelling"} => admission.owner # NoCall
  BY <1>0 DEF Missing, ValidRevision
<1>4. admission.state \in {"missing", "prepared", "recovering"} => TheProof = NoCall
  BY <1>0 DEF ProofIsOwners, NoProof, Mapped
<1>5. CASE Created
  <2>1. /\ admission.state = "missing" /\ admission'.state = "prepared"
        /\ admission.owner = NoCall /\ admission'.owner = NoCall
    BY <1>5 DEF Created, Missing, NewAdmission
  <2>2. QED
    BY <1>0, <2>1 DEF SameRun, Mapped
<1>6. CASE Claimed
  <2>1. PICK c \in Call : admission.state = "prepared" /\ Becomes("running", c, NoCall)
    BY <1>6 DEF Claimed
  <2>2. admission.owner = NoCall /\ admission'.owner = c /\ admission'.state = "running"
    BY <1>1, <1>2, <2>1
  <2>3. Ownership!Acquire(c)
    BY <1>0, <1>4, <2>1, <2>2, MappedSteps DEF Mapped
  <2>4. QED
    BY <2>3 DEF Ownership!Next
<1>7. CASE Failed
  <2>1. /\ admission.state = "running" /\ admission'.state = "failed"
        /\ admission'.owner = admission.owner
    BY <1>1, <1>3, <1>7 DEF Failed
  <2>2. QED
    BY <1>0, <2>1 DEF SameRun, Mapped
<1>8. CASE Recovering
  <2>1. /\ admission.state \in {"running", "failed"} /\ admission'.state = "recovering"
        /\ admission'.owner = admission.owner
    BY <1>1, <1>3, <1>8 DEF Recovering
  <2>2. QED
    BY <1>0, <2>1 DEF SameRun, Mapped
<1>9. CASE Prepared
  <2>1. /\ admission.state = "recovering" /\ admission'.state = "prepared"
        /\ admission.owner # NoCall /\ admission'.owner = NoCall
    BY <1>1, <1>3, <1>9 DEF Prepared
  <2>2. Ownership!Release
    BY <1>0, <1>4, <2>1, MappedSteps DEF Mapped
  <2>3. QED
    BY <2>2 DEF Ownership!Next
<1>10. CASE Withdrawn
  <2>1. admission.state = "prepared"
    BY <1>10 DEF Withdrawn, NewAdmission
  <2>2. admission.owner = NoCall /\ admission'.state = "cancelled" /\ admission'.owner = NoCall
    BY <1>1, <1>2, <1>10, <2>1 DEF Withdrawn
  <2>3. Ownership!Close
    BY <1>0, <2>1, <2>2, MappedSteps DEF Mapped
  <2>4. QED
    BY <2>3 DEF Ownership!Next
<1>11. CASE Intended
  <2>1. /\ admission.state = "running" /\ admission'.state = "cancelling"
        /\ admission.owner # NoCall /\ admission'.owner = admission.owner
    BY <1>1, <1>3, <1>11 DEF Intended
  <2>2. Ownership!RequestStop
    BY <1>0, <2>1, MappedSteps DEF Mapped
  <2>3. QED
    BY <2>2 DEF Ownership!Next
<1>12. CASE Cancelled
  <2>1. /\ admission.state = "cancelling" /\ admission'.state = "cancelled"
        /\ admission'.owner = admission.owner
    BY <1>1, <1>3, <1>12 DEF Cancelled
  <2>2. Ownership!Close
    BY <1>0, <2>1, MappedSteps DEF Mapped
  <2>3. QED
    BY <2>2 DEF Ownership!Next
<1>13. CASE Proved
  <2>1. PICK d \in terminals : /\ admission.state \in Acknowledgeable /\ admission.owner # NoCall
                               /\ Becomes("terminal", NoCall, d)
    BY <1>13 DEF Proved
  <2>2. admission'.state = "terminal" /\ admission'.owner = admission.owner
    BY <1>1, <2>1
  <2>3. /\ terminals = {admission.owner}
        /\ admission.state \notin {"missing", "prepared", "recovering"}
    BY <1>0, <2>1 DEF ProofIsOwners, NoProof
  <2>4. TheProof # NoCall
    BY <1>0, <2>1, <2>3 DEF Mapped
  <2>5. CASE admission.state = "cancelled"
    BY <1>0, <2>2, <2>5 DEF SameRun, Mapped
  <2>6. CASE admission.state # "cancelled"
    <3>1. TheStage \in {"open", "stopping"} /\ TheStage' = "closed"
      BY <1>0, <2>1, <2>2, <2>6 DEF Mapped, Acknowledgeable
    <3>2. Ownership!Close
      BY <1>0, <2>2, <2>4, <3>1, MappedSteps
    <3>3. QED
      BY <3>2 DEF Ownership!Next
  <2>7. QED
    BY <2>5, <2>6
<1>14. QED
  BY <1>5, <1>6, <1>7, <1>8, <1>9, <1>10, <1>11, <1>12, <1>13 DEF Edge

(* The protocol implements the abstract ownership of a run: every step of  *)
(* the admission, the terminal objects, Modal and all the commands is a    *)
(* step of RunOwnership or leaves holder, proof and stage alone.           *)
THEOREM RunsAreOwned ==
    ASSUME StopModel # "lingering"
    PROVE  Spec => ImplementsOwnership
<1>1. Init => Ownership!Init
  <2> SUFFICES ASSUME Init PROVE Ownership!Init
    OBVIOUS
  <2>1. admission.owner = NoCall /\ admission.state = "missing" /\ terminals = {}
    BY DEF Init, Missing
  <2>2. QED
    BY <2>1, MappedNow, MappedSteps DEF Mapped
<1>2. TypeOK /\ KnowledgeHolds /\ OwnershipHolds /\ [Next]_vars
         => [Ownership!Next]_(Ownership!vars)
  <2> SUFFICES ASSUME TypeOK, KnowledgeHolds, OwnershipHolds, [Next]_vars
               PROVE  Ownership!Next \/ SameRun
    BY MappedSteps
  <2>1. CASE Next
    <3>1. PICK p \in Proc : Deed(p)
      BY <2>1, StepDeed
    <3>2. CASE terminals' # terminals
      BY <3>1, <3>2, PutProves DEF Ownership!Next
    <3>3. CASE terminals' = terminals /\ Edge
      BY <3>3, EdgeMaps
    <3>4. CASE terminals' = terminals /\ admission' = admission
      BY <3>4 DEF SameRun, TheProof, TheStage
    <3>5. QED
      BY <3>1, <3>2, <3>3, <3>4 DEF Deed, Writes
  <2>2. CASE UNCHANGED vars
    BY <2>2 DEF vars, SameRun, TheProof, TheStage
  <2>3. QED
    BY <2>1, <2>2
<1>3. QED
  BY <1>1, <1>2, TypesAlwaysHold, KnowledgeAlwaysHolds, OwnershipAlwaysHolds, PTL
  DEF Spec, ImplementsOwnership, Ownership!Spec
=============================================================================
