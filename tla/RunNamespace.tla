----------------------------- MODULE RunNamespace -----------------------------
(***************************************************************************)
(* What one machine remembers of one run id (receipts.py,                  *)
(* run_reference.py): a reference that routes later commands to an engine, *)
(* and for Modal a receipt of every attempt to spawn a controller.  The    *)
(* files are written by several commands, which exclude each other with a  *)
(* lock of the run id and die at any step; a lock dies with its holder.    *)
(*                                                                         *)
(* The id may be given by hand (--run-id), so attached Docker launches and *)
(* detached submissions of different requests can meet on it.  A request   *)
(* belongs to one engine, because it contains the plan.                    *)
(***************************************************************************)
EXTENDS Naturals, Sequences, FiniteSets, SequencesExt

CONSTANTS Submitter,      \* commands that submit a Modal request
          Recoverer,      \* recoveries that spawn from the published request
          ModalRequest,   \* requests of the engine modal
          DockerRequest,  \* the request of the attached launch
          Owner,          \* the process of the attached launch
          NoProc,         \* not a process
          AttemptCap      \* bound on the attempts of the receipt

Namer == Submitter \cup Recoverer

ASSUME NamespaceAssumption ==
    /\ Submitter \cap Recoverer = {} /\ {NoProc, Owner} \cap Namer = {}
    /\ NoProc # Owner
    /\ DockerRequest \notin ModalRequest
    /\ AttemptCap \in Nat

VARIABLES held,       \* who holds the lock of the run id
          reference,  \* run-references/<id>.json
          receipt,    \* receipts/<id>.json
          admitted,   \* the request of the durable admission, in the bucket
          claimed,    \* that admission has left "prepared"
          spawned,    \* controller calls the provider has started
          namer       \* pc and locals of the Modal commands

namespaceVars == <<held, reference, receipt, admitted, claimed, spawned, namer>>

Request == ModalRequest \cup {DockerRequest}

Missing    == [status |-> "missing"]
Unreadable == [status |-> "unreadable"]
Bound(q)   == [status |-> "bound", request |-> q]

(* One attempt to spawn: who made it, and its call once the spawn returned *)
(* (0 before).  A receipt without a reference was left by an older release *)
(* (Legacy).                                                               *)
Attempt(p, c) == [by |-> p, call |-> c]
Receipt(q, attempts) == [status |-> "kept", request |-> q, attempts |-> attempts]
Legacy(q) == Receipt(q, <<Attempt(NoProc, 0)>>)

Fresh == [pc |-> "start", request |-> DockerRequest, mem |-> Missing, call |-> 0]

NamespaceInit ==
    /\ held = NoProc /\ reference = Missing
    /\ receipt \in {Missing} \cup {Legacy(q) : q \in ModalRequest}
    /\ admitted = Missing /\ claimed = FALSE /\ spawned = 0
    /\ namer = [p \in Namer |-> Fresh]

-----------------------------------------------------------------------------
(* RunReferenceStore.admission: what both files must say before a command  *)
(* of the engine that owns request q goes on.                              *)

ReferenceAllows(q, new, tolerant) ==
    \/ reference = Missing
    \/ reference = Unreadable /\ tolerant
    \/ reference = Bound(q) /\ ~new

ReceiptAllows(q, new, tolerant) ==
    \/ receipt = Missing
    \/ receipt = Unreadable /\ tolerant
    \/ /\ receipt.status = "kept" /\ ~new
       /\ q # DockerRequest /\ receipt.request = q

(* Faulty variant of Admits: a command that may reuse a binding forgets    *)
(* to compare the receipt. *)
AdmitsByReference(q, new, lostReference, lostReceipt) ==
    ReferenceAllows(q, new, lostReference)

Admits(q, new, lostReference, lostReceipt) ==
    /\ ReferenceAllows(q, new, lostReference)
    /\ ReceiptAllows(q, new, lostReceipt)

(* ReceiptStore.lock *)
Acquire(p) == held = NoProc /\ held' = p
Release(p) == held = p /\ held' = NoProc

(* RunReferenceStore.create, under the lock: an equal reference is kept.   *)
CreateReference(q) ==
    /\ Admits(q, FALSE, FALSE, FALSE)
    /\ reference' = Bound(q)

-----------------------------------------------------------------------------
(* ReceiptStore.write: evidence is only ever added to.  The last attempt   *)
(* may gain its call, and a new attempt may follow.                        *)
AppendOnly(old, new) ==
    old # Missing =>
       /\ old.request = new.request
       /\ \/ IsPrefix(old.attempts, new.attempts)
          \/ /\ Len(old.attempts) = Len(new.attempts)
             /\ Front(old.attempts) = Front(new.attempts)
             /\ Last(old.attempts).by = Last(new.attempts).by
             /\ Last(old.attempts).call = 0

Writable(r) ==
    /\ Admits(r.request, FALSE, TRUE, FALSE)
    /\ AppendOnly(receipt, r)

(* Faulty variant of WithIntent: the receipt is opened before its attempt. *)
WithoutAttempt(p) ==
    IF receipt = Missing THEN Receipt(namer[p].request, <<>>)
    ELSE [receipt EXCEPT !.attempts = Append(@, Attempt(p, 0))]

(* What SubmissionService._record_intent writes next, and _record_spawn.   *)
WithIntent(p) ==
    IF receipt = Missing THEN Receipt(namer[p].request, <<Attempt(p, 0)>>)
    ELSE [receipt EXCEPT !.attempts = Append(@, Attempt(p, 0))]

WithCall(p) ==
    [namer[p].mem EXCEPT !.attempts[Len(namer[p].mem.attempts)].call = namer[p].call]

-----------------------------------------------------------------------------
(* The Modal commands. *)

Attempts == IF receipt.status = "kept" THEN Len(receipt.attempts) ELSE 0

At(p, l)  == namer[p].pc = l
Step(p, from, to) == At(p, from) /\ namer' = [namer EXCEPT ![p].pc = to]

(* submit: admission of the run id for the whole command. *)
SubmitAdmits(p) ==
    /\ p \in Submitter /\ At(p, "start") /\ Acquire(p) /\ Attempts < AttemptCap
    /\ \E q \in ModalRequest :
          /\ Admits(q, FALSE, FALSE, FALSE)
          /\ namer' = [namer EXCEPT ![p].pc = "bind", ![p].request = q]
    /\ UNCHANGED <<reference, receipt, admitted, claimed, spawned>>

(* submit: the routing reference precedes everything that is published. *)
RecordBinding(p) ==
    /\ Step(p, "bind", "admit")
    /\ CreateReference(namer[p].request)
    /\ UNCHANGED <<held, receipt, admitted, claimed, spawned>>

(* submit: the durable admission is created, or observed to be prepared    *)
(* work of the same request.                                               *)
CreateOrObserve(p) ==
    /\ Step(p, "admit", "intend")
    /\ admitted = Missing \/ (admitted = Bound(namer[p].request) /\ ~claimed)
    /\ admitted' = Bound(namer[p].request)
    /\ UNCHANGED <<held, reference, receipt, claimed, spawned>>

(* recover_request: unreadable files do not stop an explicit recovery.     *)
RecoverAdmits(p) ==
    /\ p \in Recoverer /\ At(p, "start") /\ Acquire(p) /\ Attempts < AttemptCap
    /\ admitted # Missing /\ ~claimed
    /\ Admits(admitted.request, FALSE, TRUE, TRUE)
    /\ namer' = [namer EXCEPT ![p].pc = "intend", ![p].request = admitted.request]
    /\ UNCHANGED <<reference, receipt, admitted, claimed, spawned>>

(* Faulty variant of RecordIntent: nothing is written before the spawn,    *)
(* and the intent is only kept in memory.                                  *)
IntendInMemory(p) ==
    /\ At(p, "intend") /\ receipt # Unreadable
    /\ namer' = [namer EXCEPT ![p].pc = "spawn", ![p].mem = WithIntent(p)]
    /\ UNCHANGED <<held, reference, receipt, admitted, claimed, spawned>>

(* Faulty variant of RecordIntent: every command starts a fresh receipt.   *)
IntendAfresh(p) ==
    /\ At(p, "intend") /\ receipt # Unreadable
    /\ receipt' = Receipt(namer[p].request, <<Attempt(p, 0)>>)
    /\ namer' = [namer EXCEPT ![p].pc = "spawn", ![p].mem = receipt']
    /\ UNCHANGED <<held, reference, admitted, claimed, spawned>>

(* The intent to spawn is on disk before the provider is called; a         *)
(* recovery spawns all the same when the write raises, applied or not.     *)
RecordIntent(p) ==
    /\ At(p, "intend")
    /\ \/ /\ receipt # Unreadable /\ Writable(WithIntent(p))
          /\ receipt' = WithIntent(p)
          /\ \/ namer' = [namer EXCEPT ![p].pc = "spawn", ![p].mem = receipt']
             \/ p \in Recoverer /\ Step(p, "intend", "spawn")
       \/ p \in Recoverer /\ Step(p, "intend", "spawn") /\ UNCHANGED receipt
    /\ UNCHANGED <<held, reference, admitted, claimed, spawned>>

SpawnCall(p) ==
    /\ At(p, "spawn")
    /\ spawned' = spawned + 1
    /\ namer' = [namer EXCEPT ![p].pc = "record", ![p].call = spawned']
    /\ UNCHANGED <<held, reference, receipt, admitted, claimed>>

(* The call joins the attempt the command itself appended.  A recovery     *)
(* ignores a write that fails.                                             *)
RecordSpawn(p) ==
    /\ Step(p, "record", "end")
    /\ \/ /\ namer[p].mem # Missing /\ receipt # Unreadable
          /\ Writable(WithCall(p))
          /\ receipt' = WithCall(p)
       \/ p \in Recoverer /\ UNCHANGED receipt
    /\ UNCHANGED <<held, reference, admitted, claimed, spawned>>

(* A command ends, raises or dies: its lock is free.  One that has spawned *)
(* nothing is run again.                                                   *)
NamerLeaves(p) ==
    /\ namer[p].pc \notin {"start", "gone"} /\ Release(p)
    /\ namer' = [namer EXCEPT ![p] = IF @.call = 0 THEN Fresh ELSE [@ EXCEPT !.pc = "gone"]]
    /\ UNCHANGED <<reference, receipt, admitted, claimed, spawned>>

NamerStep(p) ==
    \/ SubmitAdmits(p) \/ RecordBinding(p) \/ CreateOrObserve(p)
    \/ RecoverAdmits(p) \/ RecordIntent(p) \/ SpawnCall(p) \/ RecordSpawn(p)
    \/ NamerLeaves(p)

-----------------------------------------------------------------------------
(* The rest of the world. *)

(* A spawned controller claims the admission; a later recovery of the run  *)
(* returns it to prepared (modules Controller and Recovery).               *)
AdmissionMoves ==
    /\ admitted # Missing /\ spawned > 0
    /\ claimed' = ~claimed
    /\ UNCHANGED <<held, reference, receipt, admitted, spawned, namer>>

(* A file is damaged, and stays so: no command overwrites it.  A damaged   *)
(* reference to an attached run only hides the run, and is left out.       *)
FileDamaged ==
    /\ \/ /\ reference.status = "bound" /\ reference.request # DockerRequest
          /\ reference' = Unreadable /\ UNCHANGED receipt
       \/ receipt.status = "kept" /\ receipt' = Unreadable /\ UNCHANGED reference
    /\ UNCHANGED <<held, admitted, claimed, spawned, namer>>

-----------------------------------------------------------------------------
(* Properties. *)

NamespaceTypeOK ==
    /\ held \in Namer \cup {NoProc, Owner}
    /\ reference \in {Missing, Unreadable} \cup {Bound(q) : q \in Request}
    /\ \/ receipt \in {Missing, Unreadable}
       \/ /\ receipt.status = "kept" /\ receipt.request \in ModalRequest
          /\ receipt.attempts # <<>>
          /\ \A i \in 1..Len(receipt.attempts) :
                receipt.attempts[i].call \in 0..spawned
    /\ admitted \in {Missing} \cup {Bound(q) : q \in ModalRequest}
    /\ claimed \in BOOLEAN

(* A run id has one family of records: a readable reference and a readable *)
(* receipt are of the same request (RunReferenceStore.admission).          *)
OneFamily ==
    reference.status = "bound" /\ receipt.status = "kept"
        => reference.request = receipt.request

(* Evidence of a spawn is never lost or reassigned: while the receipt is   *)
(* readable, attempts stay in their place and a call stays with its        *)
(* attempt (ReceiptStore._validate_append_only).                           *)
EvidenceGrows ==
    [][receipt.status = "kept" /\ receipt' # Unreadable =>
         /\ receipt'.request = receipt.request
         /\ \A i \in 1..Len(receipt.attempts) :
              /\ i <= Len(receipt'.attempts)
              /\ receipt'.attempts[i].by = receipt.attempts[i].by
              /\ receipt.attempts[i].call \in {0, receipt'.attempts[i].call}]_namespaceVars

(* Every spawn of a submission has left its attempt in the receipt,        *)
(* wherever the command died (SubmissionService._record_and_spawn).        *)
SpawnLeavesEvidence ==
    \A p \in Submitter :
        namer[p].call # 0 /\ receipt # Unreadable =>
            /\ receipt.status = "kept"
            /\ \E i \in 1..Len(receipt.attempts) : receipt.attempts[i].by = p
=============================================================================
