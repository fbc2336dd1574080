--------------------------- MODULE AdmissionLemmas ---------------------------
(***************************************************************************)
(* Lemmas for AdmissionProofs: which steps of one process leave what the   *)
(* others know intact, and which edge of the admission protocol each of    *)
(* the conditional writes takes.                                           *)
(***************************************************************************)
EXTENDS AdmissionInvariant, DetachedRunProofs

(* What one process knows, of whatever kind it is. *)
Knows(p) == Known(p) /\ (p \in Call => KnownOfCall(p))

(* The other processes stay where they are. *)
Others(p) == \A q \in Proc : q # p => pc'[q] = pc[q] /\ mem'[q] = mem[q]

(* The shared state moves forward only. *)
Progress ==
    /\ admission' = admission \/ Edge
    /\ terminals \subseteq terminals'
    /\ \A c \in Call : /\ call[c] = "finished" => call'[c] = "finished"
                       /\ call[c] = "unspawned" /\ call'[c] # "unspawned"
                             => pc'[c] # "unspawned"

(* What holds of each process, taken together with the run, is             *)
(* KnowledgeHolds.                                                         *)
LEMMA KnowledgeParts ==
    KnowledgeHolds <=> (\A p \in Proc : Knows(p)) /\ KnownOfRun
BY ProcKinds DEF KnowledgeHolds, Knows

(* An edge leads to one valid later revision. *)
LEMMA EdgeFacts ==
    ASSUME TypeOK, KnownOfRun, Edge
    PROVE  /\ admission' \in Admission
           /\ ValidRevision(admission')
           /\ admission'.revision = admission.revision + 1
           /\ admission.state = "cancelling" => admission'.state \in {"cancelled", "terminal"}
           /\ admission.state = "cancelled" => admission'.state = "terminal"
           /\ admission.state # "terminal"
           /\ NeverRun' => NeverRun
<1>1. admission \in Admission \cup {Missing} /\ terminals \subseteq Call
  BY DEF TypeOK, SharedTypeOK
<1>2. CASE Created
  BY <1>1, <1>2 DEF Created, NewAdmission, Admission, AdmissionState, MaybeCall, Missing,
     ValidRevision, NeverRun
<1>3. CASE Claimed
  <2>1. PICK c \in Call : /\ admission.state = "prepared"
                          /\ admission' = NextRevision(admission, "running", c, NoCall)
    BY <1>3 DEF Claimed, Becomes
  <2>2. admission \in Admission /\ admission.owner = NoCall /\ c # NoCall
    BY <1>1, <2>1, NoCallAssumption DEF Missing, KnownOfRun, ValidRevision
  <2>3. QED
    BY <2>1, <2>2 DEF NextRevision, Admission, AdmissionState, MaybeCall,
       ValidRevision, NeverRun
<1>4. CASE Proved
  <2>1. PICK d \in terminals : /\ admission.state \in Acknowledgeable
                               /\ admission.owner # NoCall
                               /\ admission' = NextRevision(admission, "terminal", NoCall, d)
    BY <1>4 DEF Proved, Becomes
  <2>2. d \in Call /\ d # NoCall
    BY <1>1, NoCallAssumption
  <2>3. admission \in Admission /\ admission.owner \in Call
    BY <1>1, <2>1 DEF Acknowledgeable, Missing, Admission, MaybeCall
  <2>4. QED
    BY <2>1, <2>2, <2>3, NoCallAssumption DEF NextRevision, Admission, AdmissionState,
       MaybeCall, ValidRevision, NeverRun, Acknowledgeable
<1>5. CASE Withdrawn
  BY <1>1, <1>5 DEF Withdrawn, Becomes, NextRevision, Admission, NewAdmission,
     AdmissionState, MaybeCall, Missing, ValidRevision, NeverRun
<1>6. CASE Failed \/ Recovering \/ Prepared \/ Intended \/ Cancelled
  BY <1>1, <1>6 DEF Failed, Recovering, Prepared, Intended, Cancelled, Becomes,
     NextRevision, Admission, AdmissionState, MaybeCall, Missing, ValidRevision,
     NeverRun, KnownOfRun
<1>7. QED
  BY <1>2, <1>3, <1>4, <1>5, <1>6 DEF Edge

(* Which edge led to a state. *)
LEMMA EdgeInto ==
    ASSUME Edge
    PROVE  /\ admission'.state = "running" => Claimed
           /\ admission'.state = "recovering" => Recovering
           /\ admission'.state = "cancelled" => Withdrawn \/ Cancelled
           /\ admission'.state = "terminal" => Proved
           /\ admission'.state = "failed" => Failed
           /\ admission'.state = "prepared" => Created \/ Prepared
<1>1. ASSUME NEW s, NEW c, NEW d, Becomes(s, c, d) PROVE admission'.state = s
  BY <1>1 DEF Becomes, NextRevision
<1>2. /\ Created => admission'.state = "prepared"
      /\ Prepared => admission'.state = "prepared"
  BY <1>1 DEF Created, Prepared, NewAdmission
<1>3. /\ Claimed => admission'.state = "running"
      /\ Proved => admission'.state = "terminal"
  BY <1>1 DEF Claimed, Proved
<1>4. /\ Failed => admission'.state = "failed"
      /\ Recovering => admission'.state = "recovering"
      /\ Intended => admission'.state = "cancelling"
  BY <1>1 DEF Failed, Recovering, Intended
<1>5. /\ Withdrawn => admission'.state = "cancelled"
      /\ Cancelled => admission'.state = "cancelled"
  BY <1>1 DEF Withdrawn, Cancelled
<1>6. QED
  BY <1>2, <1>3, <1>4, <1>5 DEF Edge

(* What a process knew it still knows after a step of another. *)
LEMMA StillCoherent ==
    ASSUME TypeOK, KnownOfRun, admission' = admission \/ Edge, NEW a, Coherent(a)
    PROVE  Coherent(a)'
<1>1. CASE admission' = admission
  BY <1>1 DEF Coherent
<1>2. CASE Edge
  <2>1. admission'.revision = admission.revision + 1
    BY <1>2, EdgeFacts
  <2>2. a.revision \in Int /\ admission.revision \in Int
    BY DEF Coherent, Admission, TypeOK, SharedTypeOK, Missing
  <2>3. QED
    BY <2>1, <2>2 DEF Coherent
<1>3. QED
  BY <1>1, <1>2

(* A process that does not move keeps its knowledge while the shared state *)
(* moves forward.                                                          *)
LEMMA StillKnows ==
    ASSUME TypeOK, KnowledgeHolds, Progress,
           NEW p \in Proc, pc'[p] = pc[p], mem'[p] = mem[p]
    PROVE  Knows(p)'
<1>1. KnownOfRun /\ Known(p) /\ (p \in Call => KnownOfCall(p))
  BY KnowledgeParts DEF Knows
<1>2. pc[p] \in Holding => Coherent(mem[p].seen)'
  BY <1>1, StillCoherent DEF Known, Progress
<1>3. ASSUME pc[p] \in Holding,
             mem[p].seen.state \in {"running", "failed", "cancelling"},
             call[mem[p].seen.owner] = "finished"
      PROVE  call'[mem[p].seen.owner] = "finished"
  <2>1. mem[p].seen.owner \in Call
    BY <1>1, <1>3 DEF Known, Coherent, Admission, MaybeCall, ValidRevision
  <2>2. QED
    BY <1>3, <2>1 DEF Progress
<1>4. pc[p] \in {"ack", "ack write"} => mem[p].proof \in terminals'
  BY <1>1 DEF Known, Progress
<1>5. pc[p] \in {"settle", "recover write"} => call'[mem[p].seen.owner] = "finished"
  BY <1>1, <1>3 DEF Known, Holding, RecoverHolds
<1>6. pc[p] \in StoppingHolds =>
         /\ mem[p].seen.state = "cancelling"
         /\ \/ mem[p].seen = admission'
            \/ admission'.state \in {"cancelled", "terminal"}
         /\ "stopped" \in mem[p].facts => call'[mem[p].seen.owner] = "finished"
  <2> SUFFICES ASSUME pc[p] \in StoppingHolds
               PROVE  /\ mem[p].seen.state = "cancelling"
                      /\ \/ mem[p].seen = admission'
                         \/ admission'.state \in {"cancelled", "terminal"}
                      /\ "stopped" \in mem[p].facts
                            => call'[mem[p].seen.owner] = "finished"
    OBVIOUS
  <2>1. /\ mem[p].seen.state = "cancelling"
        /\ mem[p].seen = admission \/ admission.state \in {"cancelled", "terminal"}
        /\ "stopped" \in mem[p].facts => call[mem[p].seen.owner] = "finished"
    BY <1>1 DEF Known
  <2>2. mem[p].seen = admission' \/ admission'.state \in {"cancelled", "terminal"}
    BY <1>1, <2>1, EdgeFacts DEF Progress
  <2>3. "stopped" \in mem[p].facts => call'[mem[p].seen.owner] = "finished"
    BY <1>3, <2>1 DEF Holding
  <2>4. QED
    BY <2>1, <2>2, <2>3
<1>7. Known(p)'
  BY <1>1, <1>2, <1>4, <1>5, <1>6 DEF Known
<1>8. p \in Call => KnownOfCall(p)'
  <2> SUFFICES ASSUME p \in Call PROVE KnownOfCall(p)'
    OBVIOUS
  <2>1. pc[p] = "unspawned" => call'[p] = "unspawned"
    BY <1>1 DEF KnownOfCall, Progress
  <2>2. NeverRun' => NeverRun
    <3>1. CASE admission' = admission
      BY <3>1 DEF NeverRun
    <3>2. CASE Edge
      BY <1>1, <3>2, EdgeFacts
    <3>3. QED
      BY <3>1, <3>2 DEF Progress
  <2>3. QED
    BY <1>1, <2>1, <2>2 DEF KnownOfCall
<1>9. QED
  BY <1>7, <1>8 DEF Knows

(* So a step is judged by what its own process knows, and by the run.      *)
LEMMA OwnStep ==
    ASSUME TypeOK, KnowledgeHolds, Progress, NEW p \in Proc, Others(p),
           Knows(p)', KnownOfRun'
    PROVE  KnowledgeHolds'
<1>1. \A q \in Proc : Knows(q)'
  <2> TAKE q \in Proc
  <2>1. CASE q = p
    BY <2>1
  <2>2. CASE q # p
    BY <2>2, StillKnows DEF Others
  <2>3. QED
    BY <2>1, <2>2
<1>2. QED
  BY <1>1, ProcKinds DEF KnowledgeHolds, Knows

(* Nothing but an edge of the admission and the end of some sandboxes.     *)
Calm == /\ admission' = admission \/ Edge
        /\ UNCHANGED <<terminals, call>>
        /\ sandboxes' \subseteq sandboxes

(* A run that nobody ever claimed was not claimed one step earlier either. *)
LEMMA NeverRunBefore ==
    ASSUME TypeOK, KnownOfRun, admission' = admission \/ Edge, NeverRun'
    PROVE  NeverRun
<1>1. CASE admission' = admission
  BY <1>1 DEF NeverRun
<1>2. CASE Edge
  BY <1>2, EdgeFacts
<1>3. QED
  BY <1>1, <1>2

(* A calm step preserves what is known of the run, and only moves forward. *)
LEMMA CalmRun ==
    ASSUME TypeOK, KnownOfRun, Calm
    PROVE  KnownOfRun' /\ Progress
<1>1. Progress
  BY DEF Calm, Progress
<1>2. NeverRun' => terminals' = {} /\ sandboxes' = {}
  BY NeverRunBefore DEF Calm, KnownOfRun
<1>3. CASE admission' = admission
  BY <1>1, <1>2, <1>3 DEF KnownOfRun, Calm
<1>4. CASE Edge
  <2>1. ValidRevision(admission')
    BY <1>4, EdgeFacts
  <2>2. admission \in Admission \cup {Missing}
    BY DEF TypeOK, SharedTypeOK
  <2>3. admission'.state = "recovering" => call'[admission'.owner] = "finished"
    <3> HAVE admission'.state = "recovering"
    <3>1. Recovering
      BY <1>4, EdgeInto
    <3>2. admission.owner # NoCall
      BY <3>1 DEF Recovering, KnownOfRun, ValidRevision, Missing
    <3>3. QED
      BY <3>1, <3>2 DEF Recovering, Becomes, NextRevision, Calm
  <2>4. admission'.state = "cancelled" /\ admission'.owner # NoCall
           => call'[admission'.owner] = "finished"
    <3> HAVE admission'.state = "cancelled" /\ admission'.owner # NoCall
    <3>1. Withdrawn \/ Cancelled
      BY <1>4, EdgeInto
    <3>2. Cancelled
      BY <3>1 DEF Withdrawn, Becomes, NextRevision, NewAdmission
    <3>3. admission.owner # NoCall
      BY <3>2 DEF Cancelled, KnownOfRun, ValidRevision, Missing
    <3>4. QED
      BY <3>2, <3>3 DEF Cancelled, Becomes, NextRevision, Calm
  <2>5. admission'.state = "terminal" => admission'.digest \in terminals'
    <3> HAVE admission'.state = "terminal"
    <3>1. Proved
      BY <1>4, EdgeInto
    <3>2. QED
      BY <3>1 DEF Proved, Becomes, NextRevision, Calm
  <2>6. QED
    BY <1>1, <1>2, <2>1, <2>3, <2>4, <2>5 DEF KnownOfRun
<1>5. QED
  BY <1>3, <1>4 DEF Calm

(* A call that goes on in a calm step still knows what calls know. *)
LEMMA CalmCall ==
    ASSUME TypeOK, KnowledgeHolds, Calm, NEW c \in Call, pc'[c] # "unspawned",
           pc[c] \in BeforeClaim => pc'[c] \in BeforeClaim
    PROVE  KnownOfCall(c)'
<1>1. NeverRun' => NeverRun
  BY NeverRunBefore DEF KnowledgeHolds, Calm
<1>2. QED
  BY <1>1 DEF KnowledgeHolds, KnownOfCall

(* A process whose next place needs no knowledge. *)
LEMMA CalmRest ==
    ASSUME TypeOK, KnowledgeHolds, NEW p \in Proc, NEW l, Rest(p, l), Calm,
           l \notin Holding, l # "ack",
           p \in Call => l # "unspawned" /\ (pc[p] \in BeforeClaim => l \in BeforeClaim)
    PROVE  KnowledgeHolds'
<1>1. /\ pc'[p] = l /\ mem'[p] = Fresh
      /\ Others(p)
  BY DEF Rest, Go, Others, TypeOK, LocalTypeOK
<1>2. Known(p)'
  <2>1. /\ l \notin StoppingHolds /\ l \notin Holding
        /\ l \notin {"ack", "ack write", "failed write", "cancel prepared", "inspect", "settle",
                     "recover write", "cancelled write"}
    BY DEF Holding, RecoverHolds, StoppingHolds
  <2>2. mem'[p].facts = {}
    BY <1>1 DEF Fresh
  <2>3. QED
    BY <1>1, <2>1, <2>2 DEF Known
<1>3. p \in Call => KnownOfCall(p)'
  BY <1>1, CalmCall
<1>4. QED
  BY <1>1, <1>2, <1>3, OwnStep, CalmRun DEF Knows, KnowledgeHolds

(* A process that starts its loop again, or ends it. *)
LEMMA CalmRetry ==
    ASSUME TypeOK, KnowledgeHolds, NEW p \in Proc, NEW l, NEW limit, NEW end,
           Retry(p, l, limit, end), Calm,
           l \notin Holding, end \notin Holding, end # "ack",
           l = "ack" => mem[p].proof \in terminals,
           p \in Call => /\ l # "unspawned" /\ end # "unspawned"
                         /\ pc[p] \notin BeforeClaim
    PROVE  KnowledgeHolds'
<1>1. CASE mem[p].tries + 1 < limit
  <2>1. /\ pc'[p] = l /\ Others(p)
        /\ mem'[p] = [Fresh EXCEPT !.tries = mem[p].tries + 1, !.proof = mem[p].proof]
    BY <1>1 DEF Retry, Go, Others, TypeOK, LocalTypeOK
  <2>2. mem'[p].facts = {} /\ mem'[p].proof = mem[p].proof
    BY <2>1 DEF Fresh
  <2>3. /\ l \notin StoppingHolds
        /\ l \notin {"ack write", "failed write", "cancel prepared", "inspect", "settle",
                     "recover write", "cancelled write"}
    BY DEF Holding, RecoverHolds, StoppingHolds
  <2>4. Known(p)'
    BY <2>1, <2>2, <2>3 DEF Known, Calm
  <2>5. p \in Call => KnownOfCall(p)'
    BY <2>1, CalmCall
  <2>6. QED
    BY <2>1, <2>4, <2>5, OwnStep, CalmRun DEF Knows, KnowledgeHolds
<1>2. CASE ~(mem[p].tries + 1 < limit)
  BY <1>2, CalmRest DEF Retry
<1>3. QED
  BY <1>1, <1>2

Assessing == {"inspect", "settle", "recover write"}
Unlearned == {"cancel", "cancel read", "intent write", "stop owner", "poll owner"}

(* A process that goes on with what it knows. *)
LEMMA CalmGo ==
    ASSUME TypeOK, KnowledgeHolds, NEW p \in Proc, NEW l, Calm, Others(p),
           pc'[p] = l, mem'[p].seen = mem[p].seen, mem'[p].facts = mem[p].facts,
           l \in Holding => pc[p] \in Holding,
           l \notin {"ack", "ack write", "failed write", "cancel prepared", "cancelled write"},
           l \in Assessing => pc[p] \in Assessing,
           l \in Assessing \ {"inspect"} => pc[p] \in Assessing \ {"inspect"},
           l \in Unlearned => pc[p] \in Unlearned,
           l \in StoppingHolds => pc[p] \in StoppingHolds,
           p \in Call => l # "unspawned" /\ (pc[p] \in BeforeClaim => l \in BeforeClaim)
    PROVE  KnowledgeHolds'
<1>1. KnownOfRun' /\ Progress /\ KnownOfRun
  BY CalmRun DEF KnowledgeHolds
<1>2. Known(p) /\ (l \in Holding => Coherent(mem[p].seen))
  BY DEF KnowledgeHolds, Known
<1>3. l \in Holding => Coherent(mem[p].seen)'
  <2> HAVE l \in Holding
  <2>1. PICK a : a = mem[p].seen
    OBVIOUS
  <2>2. Coherent(a)'
    BY <1>1, <1>2, <2>1, StillCoherent DEF Calm
  <2>3. QED
    BY <2>1, <2>2
<1>4. l \in Assessing => mem'[p].seen.state \in {"running", "failed"}
  BY <1>2 DEF Known, Assessing
<1>5. l \in Assessing \ {"inspect"} => call'[mem'[p].seen.owner] = "finished"
  BY <1>2 DEF Known, Assessing, Calm
<1>6. l \in Unlearned => mem'[p].facts = {}
  BY <1>2 DEF Known, Unlearned
<1>7. l \in StoppingHolds =>
         /\ mem'[p].seen.state = "cancelling"
         /\ \/ mem'[p].seen = admission'
            \/ admission'.state \in {"cancelled", "terminal"}
         /\ "stopped" \in mem'[p].facts => call'[mem'[p].seen.owner] = "finished"
  <2> HAVE l \in StoppingHolds
  <2>1. /\ mem[p].seen.state = "cancelling"
        /\ mem[p].seen = admission \/ admission.state \in {"cancelled", "terminal"}
        /\ "stopped" \in mem[p].facts => call[mem[p].seen.owner] = "finished"
    BY <1>2 DEF Known
  <2>2. mem[p].seen = admission' \/ admission'.state \in {"cancelled", "terminal"}
    BY <1>1, <2>1, EdgeFacts DEF Calm
  <2>3. QED
    BY <2>1, <2>2 DEF Calm
<1>8. Known(p)'
  BY <1>3, <1>4, <1>5, <1>6, <1>7 DEF Known, Assessing, Unlearned
<1>9. p \in Call => KnownOfCall(p)'
  BY CalmCall
<1>10. QED
  BY <1>1, <1>8, <1>9, OwnStep DEF Knows

(* A record is not newer than itself (the solver needs the bound as a      *)
(* fact).                                                                  *)
LEMMA SelfBound ==
    ASSUME NEW a \in Admission
    PROVE  a.revision <= a.revision
<1>1. a.revision \in Nat
  BY DEF Admission
<1>2. QED
  BY <1>1

(* A process that reads the admission to act on it. *)
LEMMA CalmRemember ==
    ASSUME TypeOK, KnowledgeHolds, NEW p \in Proc, NEW l, Remember(p, l),
           UNCHANGED <<admission, terminals, sandboxes, call>>,
           admission # Missing,
           l \notin {"ack", "settle", "recover write"},
           l = "ack write" => mem[p].proof \in terminals,
           l = "failed write" => admission.state = "running",
           l = "cancel prepared" => admission.state = "prepared",
           l = "inspect" => admission.state \in {"running", "failed"},
           l \in Unlearned => mem[p].facts = {},
           l \in StoppingHolds =>
              /\ admission.state = "cancelling"
              /\ "stopped" \in mem[p].facts => call[admission.owner] = "finished",
           l = "cancelled write" => "stopped" \in mem[p].facts,
           p \in Call => l # "unspawned" /\ (pc[p] \in BeforeClaim => l \in BeforeClaim)
    PROVE  KnowledgeHolds'
<1>1. pc'[p] = l /\ Others(p)
  BY DEF Remember, Go, Others, TypeOK, LocalTypeOK
<1>2. mem[p] \in Mem /\ mem'[p] = [mem[p] EXCEPT !.seen = admission]
  BY DEF Remember, TypeOK, LocalTypeOK
<1>3. /\ mem'[p].seen = admission /\ mem'[p].facts = mem[p].facts
      /\ mem'[p].proof = mem[p].proof
  BY <1>2 DEF Mem
<1>4. Coherent(mem[p].seen)'
  <2>1. admission \in Admission /\ ValidRevision(admission)
    BY DEF TypeOK, SharedTypeOK, KnowledgeHolds, KnownOfRun
  <2>2. admission.revision <= admission.revision
    BY <2>1, SelfBound
  <2>3. mem'[p].seen = admission /\ admission' = admission
    BY <1>3
  <2>4. QED
    BY <2>1, <2>2, <2>3 DEF Coherent
<1>5. Known(p)'
  <2>1. l \in StoppingHolds =>
           /\ mem'[p].seen.state = "cancelling" /\ mem'[p].seen = admission'
           /\ "stopped" \in mem'[p].facts => call'[mem'[p].seen.owner] = "finished"
    BY <1>3
  <2>2. /\ l = "ack write" => mem'[p].proof \in terminals'
        /\ l = "failed write" => mem'[p].seen.state = "running"
        /\ l = "cancel prepared" => mem'[p].seen.state = "prepared"
        /\ l = "inspect" => mem'[p].seen.state \in {"running", "failed"}
        /\ l \in Unlearned => mem'[p].facts = {}
        /\ l = "cancelled write" => "stopped" \in mem'[p].facts
    BY <1>3
  <2>3. QED
    BY <1>1, <1>4, <2>1, <2>2 DEF Known, Unlearned
<1>6. Calm
  BY DEF Calm
<1>7. p \in Call => KnownOfCall(p)'
  BY <1>1, <1>6, CalmCall
<1>8. QED
  BY <1>1, <1>5, <1>6, <1>7, OwnStep, CalmRun DEF Knows, KnowledgeHolds

(* An admission in a state other than missing exists. *)
LEMMA NotMissing ==
    ASSUME admission.state # "missing"
    PROVE  admission # Missing
BY DEF Missing

(* A matching etag means that the record held is the one stored, so what   *)
(* the validator checked on the former holds of the latter.                *)
LEMMA CasEdge ==
    ASSUME TypeOK, KnowledgeHolds, NEW p \in Proc, pc[p] \in Holding,
           NEW s, NEW c, NEW d, Accepted(mem[p].seen, NextRevision(mem[p].seen, s, c, d)),
           \/ EtagMatches(p) /\ admission' = NextRevision(mem[p].seen, s, c, d)
           \/ admission' = admission
    PROVE  \/ admission' = admission
           \/ /\ mem[p].seen = admission
              /\ Becomes(s, c, d)
              /\ Accepted(admission, admission')
              /\ s \in Allowed[admission.state]
BY DEF KnowledgeHolds, Known, Coherent, EtagMatches, Becomes, Accepted, ValidStep, NextRevision

(* Withdrawing is accepted for the first revision only. *)
LEMMA NewIsNew ==
    ASSUME admission \in Admission, ValidRevision(admission), admission.state = "prepared",
           Becomes("cancelled", NoCall, NoCall), Accepted(admission, admission')
    PROVE  admission = NewAdmission
<1>1. /\ admission.owner = NoCall /\ admission.digest = NoCall
      /\ admission'.state = "cancelled" /\ admission'.owner = NoCall
      /\ admission'.revision = admission.revision + 1
  BY DEF ValidRevision, Becomes, NextRevision, Accepted
<1>2. admission.revision = 0
  <2>1. admission'.revision = 1
    BY <1>1 DEF Accepted, ValidRevision
  <2>2. admission.revision \in Nat
    BY DEF Admission
  <2>3. QED
    BY <1>1, <2>1, <2>2
<1>3. admission = [revision |-> admission.revision, state |-> admission.state,
                   owner |-> admission.owner, digest |-> admission.digest]
  BY DEF Admission
<1>4. QED
  BY <1>1, <1>2, <1>3 DEF NewAdmission

-----------------------------------------------------------------------------
(* The conditional writes, one by one. *)

(* claim changes the admission along Claimed only. *)
LEMMA ClaimEdge ==
    ASSUME TypeOK, KnowledgeHolds, NEW c \in Call, Claim(c)
    PROVE  admission' = admission \/ Claimed
<1>0. c \in Proc
  BY ProcKinds
<1>1. /\ Accepted(mem[c].seen, NextRevision(mem[c].seen, "running", c, NoCall))
      /\ pc[c] = "claim write"
      /\ \/ /\ EtagMatches(c)
            /\ admission' = NextRevision(mem[c].seen, "running", c, NoCall)
         \/ admission' = admission
  BY DEF Claim, Cas
<1>2. \/ admission' = admission
      \/ /\ Becomes("running", c, NoCall) /\ Accepted(admission, admission')
         /\ "running" \in Allowed[admission.state]
  BY <1>0, <1>1, CasEdge DEF Holding
<1>3. admission' = admission \/ admission.state = "prepared"
  BY <1>2 DEF Accepted, Allowed, AdmissionState
<1>4. QED
  BY <1>1, <1>2, <1>3 DEF Claimed

(* _acknowledge_terminal changes the admission along Proved only. *)
LEMMA AcknowledgeEdge ==
    ASSUME TypeOK, KnowledgeHolds, NEW c \in Call, Acknowledge(c)
    PROVE  admission' = admission \/ Proved
<1>0. c \in Proc
  BY ProcKinds
<1>1. /\ Accepted(mem[c].seen, NextRevision(mem[c].seen, "terminal", NoCall, mem[c].proof))
      /\ pc[c] = "ack write"
      /\ \/ EtagMatches(c) /\ admission' = NextRevision(mem[c].seen, "terminal", NoCall, mem[c].proof)
         \/ admission' = admission
  BY DEF Acknowledge, Cas
<1>2. \/ admission' = admission
      \/ /\ Becomes("terminal", NoCall, mem[c].proof)
         /\ mem[c].seen = admission /\ Accepted(admission, admission')
         /\ "terminal" \in Allowed[admission.state]
  BY <1>0, <1>1, CasEdge DEF Holding, RecoverHolds, StoppingHolds
<1>3. mem[c].proof \in terminals
  BY <1>0, <1>1 DEF KnowledgeHolds, Known
<1>4. ASSUME Accepted(admission, admission'), Becomes("terminal", NoCall, mem[c].proof)
      PROVE  admission.state \in Acknowledgeable /\ admission.owner # NoCall
  BY <1>4 DEF Accepted, ValidStep, ValidRevision, Becomes, NextRevision, Allowed,
     AdmissionState, Acknowledgeable
<1>5. QED
  BY <1>0, <1>1, <1>2, <1>3, <1>4 DEF Proved, Accepted, Allowed, AdmissionState, KnowledgeHolds, Known

(* mark_failed changes the admission along Failed only. *)
LEMMA MarkFailedEdge ==
    ASSUME TypeOK, KnowledgeHolds, NEW c \in Call, MarkFailed(c)
    PROVE  admission' = admission \/ Failed
<1>0. c \in Proc
  BY ProcKinds
<1>1. /\ Accepted(mem[c].seen, NextRevision(mem[c].seen, "failed", NoCall, NoCall))
      /\ pc[c] = "failed write"
      /\ \/ EtagMatches(c) /\ admission' = NextRevision(mem[c].seen, "failed", NoCall, NoCall)
         \/ admission' = admission
  BY DEF MarkFailed, Cas
<1>2. \/ admission' = admission
      \/ /\ Becomes("failed", NoCall, NoCall)
         /\ mem[c].seen = admission /\ Accepted(admission, admission')
         /\ "failed" \in Allowed[admission.state]
  BY <1>0, <1>1, CasEdge DEF Holding, RecoverHolds, StoppingHolds
<1>5. QED
  BY <1>0, <1>1, <1>2 DEF Failed, Accepted, Allowed, AdmissionState, KnowledgeHolds, Known

(* The recovering write changes the admission along Recovering only. *)
LEMMA EnterRecoveringEdge ==
    ASSUME TypeOK, KnowledgeHolds, NEW r \in Recoverer, EnterRecovering(r)
    PROVE  admission' = admission \/ Recovering
<1>0. r \in Proc
  BY ProcKinds
<1>1. /\ Accepted(mem[r].seen, NextRevision(mem[r].seen, "recovering", NoCall, NoCall))
      /\ pc[r] = "recover write"
      /\ \/ EtagMatches(r) /\ admission' = NextRevision(mem[r].seen, "recovering", NoCall, NoCall)
         \/ admission' = admission
  BY DEF EnterRecovering, Cas
<1>2. \/ admission' = admission
      \/ /\ Becomes("recovering", NoCall, NoCall)
         /\ mem[r].seen = admission /\ Accepted(admission, admission')
         /\ "recovering" \in Allowed[admission.state]
  BY <1>0, <1>1, CasEdge DEF Holding, RecoverHolds, StoppingHolds
<1>5. QED
  BY <1>0, <1>1, <1>2 DEF Recovering, Accepted, Allowed, AdmissionState, KnowledgeHolds, Known, Holding, RecoverHolds

(* The prepare write changes the admission along Prepared only. *)
LEMMA PrepareSuccessorEdge ==
    ASSUME TypeOK, KnowledgeHolds, NEW r \in Recoverer, PrepareSuccessor(r)
    PROVE  admission' = admission \/ Prepared
<1>0. r \in Proc
  BY ProcKinds
<1>1. /\ Accepted(mem[r].seen, NextRevision(mem[r].seen, "prepared", NoCall, NoCall))
      /\ pc[r] = "prepare write"
      /\ \/ EtagMatches(r) /\ admission' = NextRevision(mem[r].seen, "prepared", NoCall, NoCall)
         \/ admission' = admission
  BY DEF PrepareSuccessor, Cas
<1>2. \/ admission' = admission
      \/ /\ Becomes("prepared", NoCall, NoCall)
         /\ mem[r].seen = admission /\ Accepted(admission, admission')
         /\ "prepared" \in Allowed[admission.state]
  BY <1>0, <1>1, CasEdge DEF Holding, RecoverHolds, StoppingHolds
<1>3. admission' = admission \/ admission.state \in {"recovering"}
  BY <1>2 DEF Accepted, Allowed, AdmissionState
<1>5. QED
  BY <1>0, <1>1, <1>2, <1>3 DEF Prepared, Accepted, Allowed, AdmissionState, KnowledgeHolds, Known

(* Cancelling prepared work changes the admission along Withdrawn only. *)
LEMMA CancelPreparedEdge ==
    ASSUME TypeOK, KnowledgeHolds, NEW k \in Canceller, CancelPrepared(k)
    PROVE  admission' = admission \/ Withdrawn
<1>0. k \in Proc
  BY ProcKinds
<1>1. CASE admission' = admission
  BY <1>1
<1>2. CASE admission' # admission
  <2>1. /\ Accepted(mem[k].seen, NextRevision(mem[k].seen, "cancelled", NoCall, NoCall))
        /\ pc[k] = "cancel prepared"
        /\ \/ /\ EtagMatches(k)
              /\ admission' = NextRevision(mem[k].seen, "cancelled", NoCall, NoCall)
           \/ admission' = admission
    BY <1>2 DEF CancelPrepared, Cas
  <2>2. mem[k].seen.state = "prepared" /\ Coherent(mem[k].seen)
    BY <1>0, <2>1 DEF KnowledgeHolds, Known, Holding
  <2>3. /\ Becomes("cancelled", NoCall, NoCall)
        /\ mem[k].seen = admission /\ Accepted(admission, admission')
    BY <1>0, <1>2, <2>1, CasEdge DEF Holding
  <2>4. admission = NewAdmission
    BY <2>2, <2>3, NewIsNew DEF Coherent
  <2>5. QED
    BY <2>3, <2>4 DEF Withdrawn
<1>3. QED
  BY <1>1, <1>2

(* The write of cancellation intent takes the edge Intended only. *)
LEMMA RecordIntentEdge ==
    ASSUME TypeOK, KnowledgeHolds, NEW k \in Canceller, RecordIntent(k)
    PROVE  admission' = admission \/ Intended
<1>0. k \in Proc
  BY ProcKinds
<1>1. /\ Accepted(mem[k].seen, NextRevision(mem[k].seen, "cancelling", NoCall, NoCall))
      /\ pc[k] = "intent write"
      /\ \/ EtagMatches(k) /\ admission' = NextRevision(mem[k].seen, "cancelling", NoCall, NoCall)
         \/ admission' = admission
  BY DEF RecordIntent, Cas
<1>2. \/ admission' = admission
      \/ /\ Becomes("cancelling", NoCall, NoCall)
         /\ mem[k].seen = admission /\ Accepted(admission, admission')
         /\ "cancelling" \in Allowed[admission.state]
  BY <1>0, <1>1, CasEdge DEF Holding, RecoverHolds, StoppingHolds
<1>3. admission' = admission \/ admission.state \in {"running"}
  BY <1>2 DEF Accepted, Allowed, AdmissionState
<1>5. QED
  BY <1>0, <1>1, <1>2, <1>3 DEF Intended, Accepted, Allowed, AdmissionState, KnowledgeHolds, Known

(* The final write of a cancellation takes the edge Cancelled only. *)
LEMMA RecordCancelledEdge ==
    ASSUME TypeOK, KnowledgeHolds, NEW k \in Canceller, RecordCancelled(k)
    PROVE  admission' = admission \/ Cancelled
<1>0. k \in Proc
  BY ProcKinds
<1>1. /\ Accepted(mem[k].seen, NextRevision(mem[k].seen, "cancelled", NoCall, NoCall))
      /\ pc[k] = "cancelled write"
      /\ \/ EtagMatches(k) /\ admission' = NextRevision(mem[k].seen, "cancelled", NoCall, NoCall)
         \/ admission' = admission
  BY DEF RecordCancelled, Cas
<1>2. \/ admission' = admission
      \/ /\ Becomes("cancelled", NoCall, NoCall)
         /\ mem[k].seen = admission /\ Accepted(admission, admission')
         /\ "cancelled" \in Allowed[admission.state]
  BY <1>0, <1>1, CasEdge DEF Holding, RecoverHolds, StoppingHolds
<1>5. QED
  BY <1>0, <1>1, <1>2 DEF Cancelled, Accepted, Allowed, AdmissionState, KnowledgeHolds, Known, StoppingHolds
=============================================================================
