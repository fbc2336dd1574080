---------------------------- MODULE NamespaceProofs ----------------------------
(***************************************************************************)
(* What one machine remembers of a run id, for every number of commands    *)
(* that compete for it: its files are of one request, the receipt only     *)
(* grows, and a submission that has called the provider is in it.          *)
(***************************************************************************)
EXTENDS LocalProofs

NamerPhase == {"start", "bind", "admit", "intend", "spawn", "record", "end", "gone"}

AttemptType == [by : Namer \cup {NoProc}, call : Nat]

Kept == [status : {"kept"}, request : ModalRequest, attempts : Seq(AttemptType)]

NamerType == [pc : NamerPhase, request : Request, mem : {Missing} \cup Kept, call : Nat]

(* A receipt is never without an attempt, and names calls that were made.  *)
ReceiptSound(r, calls) ==
    /\ r \in Kept /\ r.attempts # <<>>
    /\ \A i \in 1..Len(r.attempts) : r.attempts[i].call <= calls

(* The receipt tells of an attempt of p. *)
Attested(p) ==
    /\ receipt.status = "kept"
    /\ \E i \in 1..Len(receipt.attempts) : receipt.attempts[i].by = p

(* What the locals of a Modal command say. *)
NamerSound(p) ==
    /\ namer[p].pc # "start" => namer[p].request \in ModalRequest
    /\ namer[p].call <= spawned
    /\ namer[p].mem # Missing => ReceiptSound(namer[p].mem, spawned)
    /\ p \in Submitter /\ (namer[p].pc = "spawn" \/ namer[p].call # 0) =>
          receipt = Unreadable \/ Attested(p)

NamespaceSound ==
    /\ held \in Namer \cup {NoProc, Owner}
    /\ reference \in {Missing, Unreadable} \cup {Bound(q) : q \in Request}
    /\ admitted \in {Missing} \cup {Bound(q) : q \in ModalRequest}
    /\ claimed \in BOOLEAN /\ spawned \in Nat
    /\ namer \in [Namer -> NamerType]
    /\ receipt \in {Missing, Unreadable} \/ ReceiptSound(receipt, spawned)
    /\ OneFamily
    /\ \A p \in Namer : NamerSound(p)

-----------------------------------------------------------------------------
(* Receipts. *)

(* The three conditions a file can be in.                                  *)
LEMMA Statuses ==
    /\ Missing.status = "missing" /\ Unreadable.status = "unreadable"
    /\ Missing # Unreadable
    /\ \A r \in Kept : r.status = "kept" /\ r # Missing /\ r # Unreadable
    /\ \A q : Bound(q).status = "bound" /\ Bound(q).request = q
              /\ Bound(q) # Missing /\ Bound(q) # Unreadable
BY DEF Missing, Unreadable, Kept, Bound

(* ReceiptStore._validate_append_only keeps every attempt in its place.    *)
LEMMA AppendGrows ==
    ASSUME NEW old \in Kept, NEW new \in Kept, AppendOnly(old, new)
    PROVE  /\ new.request = old.request
           /\ \A i \in 1..Len(old.attempts) :
                 /\ i <= Len(new.attempts)
                 /\ new.attempts[i].by = old.attempts[i].by
                 /\ old.attempts[i].call \in {0, new.attempts[i].call}
<1> DEFINE s == old.attempts
           t == new.attempts
<1>1. /\ s \in Seq(AttemptType) /\ t \in Seq(AttemptType) /\ old # Missing
      /\ Len(s) \in Nat /\ Len(t) \in Nat
  BY Statuses DEF Kept
<1>2. /\ old.request = new.request
      /\ \/ Len(s) <= Len(t) /\ SubSeq(s, 1, Len(s)) = SubSeq(t, 1, Len(s))
         \/ /\ Len(s) = Len(t)
            /\ SubSeq(s, 1, Len(s) - 1) = SubSeq(t, 1, Len(t) - 1)
            /\ s[Len(s)].by = t[Len(t)].by
            /\ s[Len(s)].call = 0
  BY <1>1 DEF AppendOnly, IsPrefix, Front, Last
<1> HIDE DEF s, t
<1>3. ASSUME NEW i \in 1..Len(s)
      PROVE  i <= Len(t) /\ t[i].by = s[i].by /\ s[i].call \in {0, t[i].call}
  <2>1. CASE Len(s) <= Len(t) /\ SubSeq(s, 1, Len(s)) = SubSeq(t, 1, Len(s))
    <3>1. SubSeq(s, 1, Len(s))[i] = s[i] /\ SubSeq(t, 1, Len(s))[i] = t[i]
      BY <1>1, <2>1
    <3> QED BY <1>1, <2>1, <3>1
  <2>2. CASE /\ Len(s) = Len(t)
             /\ SubSeq(s, 1, Len(s) - 1) = SubSeq(t, 1, Len(t) - 1)
             /\ s[Len(s)].by = t[Len(t)].by
             /\ s[Len(s)].call = 0
    <3>1. CASE i = Len(s) BY <1>1, <2>2, <3>1
    <3>2. CASE i < Len(s)
      <4>1. SubSeq(s, 1, Len(s) - 1)[i] = s[i] /\ SubSeq(t, 1, Len(t) - 1)[i] = t[i]
        BY <1>1, <2>2, <3>2
      <4> QED BY <1>1, <2>2, <4>1
    <3> QED BY <1>1, <3>1, <3>2
  <2> QED BY <1>2, <2>1, <2>2
<1> QED BY <1>2, <1>3 DEF s, t

(* The intent to spawn of p is the last attempt of the receipt it writes.  *)
LEMMA IntentAttests ==
    ASSUME NamespaceSound, NEW p \in Namer, receipt # Unreadable,
           namer[p].request \in ModalRequest
    PROVE  /\ ReceiptSound(WithIntent(p), spawned)
           /\ \E i \in 1..Len(WithIntent(p).attempts) : WithIntent(p).attempts[i].by = p
<1> DEFINE a == Attempt(p, 0)
<1>1. a \in AttemptType /\ a.by = p /\ a.call = 0 BY DEF Attempt, AttemptType
<1>2. spawned \in Nat BY DEF NamespaceSound
<1> HIDE DEF a
<1>3. CASE receipt = Missing
  <2>1. /\ WithIntent(p).status = "kept" /\ WithIntent(p).attempts = <<a>>
        /\ WithIntent(p) \in Kept
    BY <1>1, <1>3 DEF WithIntent, Receipt, Kept, a
  <2> QED BY <1>1, <1>2, <2>1 DEF ReceiptSound
<1>4. CASE receipt # Missing
  <2>1. ReceiptSound(receipt, spawned) BY <1>4 DEF NamespaceSound
  <2>2. receipt \in Kept /\ receipt.attempts \in Seq(AttemptType)
    BY <2>1 DEF ReceiptSound, Kept
  <2>3. WithIntent(p) = [receipt EXCEPT !.attempts = Append(receipt.attempts, a)]
    BY <1>4 DEF WithIntent, a
  <2> DEFINE t == Append(receipt.attempts, a)
  <2>4. /\ t \in Seq(AttemptType) /\ Len(t) = Len(receipt.attempts) + 1
        /\ Len(receipt.attempts) \in Nat /\ t # <<>>
        /\ t[Len(t)] = a
        /\ \A i \in 1..Len(receipt.attempts) : t[i] = receipt.attempts[i]
    BY <1>1, <2>2
  <2> HIDE DEF t
  <2>5. WithIntent(p) \in Kept /\ WithIntent(p).attempts = t
    BY <2>2, <2>3, <2>4 DEF Kept, t
  <2>6. \A i \in 1..Len(t) : t[i].call <= spawned
    <3> TAKE i \in 1..Len(t)
    <3>1. CASE i = Len(t) BY <1>1, <1>2, <2>4, <3>1
    <3>2. CASE i \in 1..Len(receipt.attempts) BY <2>1, <2>4, <3>2 DEF ReceiptSound
    <3> QED BY <2>4, <3>1, <3>2
  <2>7. Len(t) \in 1..Len(t) BY <2>4
  <2> QED BY <1>1, <2>4, <2>5, <2>6, <2>7 DEF ReceiptSound
<1> QED BY <1>3, <1>4

(* The call of p joins the receipt it remembers.                           *)
LEMMA CallRecorded ==
    ASSUME NamespaceSound, NEW p \in Namer, namer[p].mem # Missing
    PROVE  ReceiptSound(WithCall(p), spawned)
<1> DEFINE r == namer[p].mem
           s == r.attempts
           n == Len(s)
           a == [s[n] EXCEPT !.call = namer[p].call]
           t == [s EXCEPT ![n] = a]
<1>1. /\ NamerSound(p) /\ namer[p] \in NamerType /\ spawned \in Nat
      /\ ReceiptSound(r, spawned) /\ r \in Kept /\ namer[p].call \in Nat
      /\ namer[p].call <= spawned
  BY DEF NamespaceSound, NamerSound, NamerType, ReceiptSound
<1>2. /\ s \in Seq(AttemptType) /\ s # <<>> /\ n \in Nat /\ n \in 1..n
      /\ \A i \in 1..n : s[i] \in AttemptType /\ s[i].call <= spawned
  BY <1>1 DEF ReceiptSound, Kept
<1>3. WithCall(p) = [r EXCEPT !.attempts = t] BY DEF WithCall
<1>4. a \in AttemptType /\ a.call = namer[p].call BY <1>1, <1>2 DEF AttemptType
<1> HIDE DEF a
<1>5. /\ t \in Seq(AttemptType) /\ Len(t) = n /\ t[n] = a
      /\ \A i \in 1..n : i # n => t[i] = s[i]
  BY <1>2, <1>4
<1> HIDE DEF t
<1>6. t # <<>> BY <1>2, <1>5
<1>7. WithCall(p) \in Kept /\ WithCall(p).attempts = t
  BY <1>1, <1>3, <1>5 DEF Kept
<1> QED BY <1>1, <1>2, <1>4, <1>5, <1>6, <1>7 DEF ReceiptSound

(* Later calls do no harm to it.                                           *)
LEMMA CallsGrow ==
    ASSUME NEW r, NEW m \in Nat, NEW n \in Nat, m <= n, ReceiptSound(r, m)
    PROVE  ReceiptSound(r, n)
<1>1. \A i \in 1..Len(r.attempts) : r.attempts[i] \in AttemptType
  BY DEF ReceiptSound, Kept
<1>2. \A i \in 1..Len(r.attempts) : r.attempts[i].call \in Nat
  BY <1>1 DEF AttemptType
<1> QED BY <1>2 DEF ReceiptSound

-----------------------------------------------------------------------------
(* What one step may do to the files of the run id. *)

(* No call is forgotten, and a receipt is damaged or appended to. *)
ReceiptMoves ==
    /\ spawned' \in Nat /\ spawned' >= spawned
    /\ \/ receipt' = receipt
       \/ receipt' = Unreadable
       \/ /\ receipt # Unreadable /\ AppendOnly(receipt, receipt')
          /\ ReceiptSound(receipt', spawned)

(* A receipt that is kept or damaged still tells of every attempt.         *)
LEMMA AttestedStays ==
    ASSUME NamespaceSound, ReceiptMoves, NEW p, receipt = Unreadable \/ Attested(p)
    PROVE  receipt' = Unreadable \/ Attested(p)'
<1>1. CASE receipt' = receipt BY <1>1 DEF Attested
<1>2. CASE receipt' = Unreadable BY <1>2
<1>3. CASE /\ receipt # Unreadable /\ AppendOnly(receipt, receipt')
           /\ ReceiptSound(receipt', spawned)
  <2>0. receipt' \in Kept BY <1>3 DEF ReceiptSound
  <2>1. Attested(p) BY <1>3
  <2>2. receipt # Missing BY <2>1, Statuses DEF Attested
  <2>3. receipt \in Kept BY <1>3, <2>2 DEF NamespaceSound, ReceiptSound
  <2>4. PICK i \in 1..Len(receipt.attempts) : receipt.attempts[i].by = p
    BY <2>1 DEF Attested
  <2>5. i <= Len(receipt'.attempts) /\ receipt'.attempts[i].by = p
    BY <1>3, <2>0, <2>3, <2>4, AppendGrows
  <2>6. receipt'.status = "kept" /\ Len(receipt'.attempts) \in Nat
    BY <2>0, Statuses DEF Kept
  <2>7. i \in 1..Len(receipt'.attempts) BY <2>3, <2>4, <2>5, <2>6 DEF Kept
  <2> QED BY <2>5, <2>6, <2>7 DEF Attested
<1> QED BY <1>1, <1>2, <1>3 DEF ReceiptMoves

(* A step of p leaves every other command as sound as it was.              *)
LEMMA NamerWhole ==
    ASSUME NamespaceSound, ReceiptMoves, NEW p \in Namer,
           held' \in Namer \cup {NoProc, Owner},
           reference' \in {Missing, Unreadable} \cup {Bound(q) : q \in Request},
           admitted' \in {Missing} \cup {Bound(q) : q \in ModalRequest},
           claimed' \in BOOLEAN,
           namer' \in [Namer -> NamerType],
           \A q \in Namer : q # p => namer'[q] = namer[q],
           OneFamily', NamerSound(p)'
    PROVE  NamespaceSound'
<1>0. spawned \in Nat /\ spawned' \in Nat /\ spawned' >= spawned
      /\ namer \in [Namer -> NamerType]
  BY DEF NamespaceSound, ReceiptMoves
<1>1. \A r : ReceiptSound(r, spawned) => ReceiptSound(r, spawned') BY <1>0, CallsGrow
<1>2. receipt' \in {Missing, Unreadable} \/ ReceiptSound(receipt', spawned')
  <2>1. CASE receipt' = receipt BY <1>1, <2>1 DEF NamespaceSound
  <2>2. CASE receipt' = Unreadable BY <2>2
  <2>3. CASE ReceiptSound(receipt', spawned) BY <1>1, <2>3
  <2> QED BY <2>1, <2>2, <2>3 DEF ReceiptMoves
<1>3. ASSUME NEW q \in Namer, q # p PROVE NamerSound(q)'
  <2>1. NamerSound(q) /\ namer'[q] = namer[q] /\ namer[q].call \in Nat
    BY <1>0, <1>3 DEF NamespaceSound, NamerType
  <2>3. namer'[q].mem # Missing => ReceiptSound(namer'[q].mem, spawned')
    BY <1>1, <2>1 DEF NamerSound
  <2>4. q \in Submitter /\ (namer[q].pc = "spawn" \/ namer[q].call # 0) =>
           receipt' = Unreadable \/ Attested(q)'
    BY <2>1, AttestedStays DEF NamerSound
  <2>5. namer'[q].call <= spawned'
    BY <1>0, <2>1 DEF NamerSound
  <2> QED BY <2>1, <2>3, <2>4, <2>5 DEF NamerSound
<1> QED BY <1>0, <1>2, <1>3 DEF NamespaceSound

(* Both files together: admission refuses a request that is not theirs.    *)
LEMMA ReferenceAgrees ==
    ASSUME NamespaceSound, NEW q \in Request, CreateReference(q), UNCHANGED receipt
    PROVE  /\ OneFamily'
           /\ reference' \in {Missing, Unreadable} \cup {Bound(r) : r \in Request}
<1>1. /\ reference' = Bound(q)
      /\ \/ receipt \in {Missing, Unreadable}
         \/ receipt.status = "kept" /\ receipt.request = q
  BY DEF CreateReference, Admits, ReceiptAllows
<1>2. OneFamily' BY <1>1, Statuses DEF OneFamily
<1> QED BY <1>1, <1>2

(* ... and the receipt that is written is the reference's.                  *)
LEMMA WriteMoves ==
    ASSUME NamespaceSound, NEW r, ReceiptSound(r, spawned), Writable(r), receipt # Unreadable,
           receipt' = r, UNCHANGED <<reference, spawned>>
    PROVE  ReceiptMoves /\ OneFamily'
<1>1. r \in Kept /\ r.status = "kept" BY Statuses DEF ReceiptSound
<1>2. ReceiptMoves BY <1>1 DEF ReceiptMoves, ReceiptSound, Writable, NamespaceSound
<1>3. reference \in {Missing, Unreadable} \/ reference = Bound(r.request)
  BY DEF Writable, Admits, ReferenceAllows
<1>4. OneFamily' BY <1>1, <1>3, Statuses DEF OneFamily
<1> QED BY <1>2, <1>4

-----------------------------------------------------------------------------
(* The Modal commands. *)

(* Moves of one command that leave the receipt alone.                       *)
LEMMA NamerTurns ==
    ASSUME NamespaceSound, NEW p \in Namer,
           \/ SubmitAdmits(p) \/ RecordBinding(p) \/ CreateOrObserve(p)
           \/ RecoverAdmits(p) \/ SpawnCall(p) \/ NamerLeaves(p)
    PROVE  NamespaceSound'
<1>0. /\ namer \in [Namer -> NamerType] /\ namer[p] \in NamerType /\ NamerSound(p)
      /\ spawned \in Nat /\ namer[p].call \in Nat /\ OneFamily
      /\ held \in Namer \cup {NoProc, Owner} /\ claimed \in BOOLEAN
      /\ reference \in {Missing, Unreadable} \cup {Bound(q) : q \in Request}
      /\ admitted \in {Missing} \cup {Bound(q) : q \in ModalRequest}
  BY DEF NamespaceSound, NamerType
<1>1. CASE SubmitAdmits(p)
  <2>1. PICK q \in ModalRequest : namer' = [namer EXCEPT ![p].pc = "bind", ![p].request = q]
    BY <1>1 DEF SubmitAdmits
  <2>2. q \in Request BY DEF Request
  <2>3. namer' = [namer EXCEPT ![p] = [namer[p] EXCEPT !.pc = "bind", !.request = q]]
    BY <2>1
  <2>4. [namer[p] EXCEPT !.pc = "bind", !.request = q] \in NamerType
    BY <1>0, <2>2 DEF NamerType, NamerPhase
  <2>5. /\ namer' \in [Namer -> NamerType] /\ \A o \in Namer : o # p => namer'[o] = namer[o]
        /\ namer'[p].pc = "bind" /\ namer'[p].request = q
        /\ namer'[p].mem = namer[p].mem /\ namer'[p].call = namer[p].call
    BY <1>0, <2>3, <2>4 DEF NamerType
  <2>6. UNCHANGED <<reference, receipt, admitted, claimed, spawned>> /\ held' = p
    BY <1>1 DEF SubmitAdmits, Acquire
  <2>7. NamerSound(p)' BY <1>0, <2>5, <2>6 DEF NamerSound, Attested
  <2>8. ReceiptMoves /\ OneFamily' BY <1>0, <2>6 DEF ReceiptMoves, OneFamily
  <2> QED BY <1>0, <2>5, <2>6, <2>7, <2>8, NamerWhole
<1>2. ASSUME NEW from \in NamerPhase \ {"start", "spawn"}, NEW to \in NamerPhase \ {"spawn"},
             Step(p, from, to), UNCHANGED <<held, receipt, claimed, spawned>>,
             OneFamily',
             reference' \in {Missing, Unreadable} \cup {Bound(q) : q \in Request},
             admitted' \in {Missing} \cup {Bound(q) : q \in ModalRequest}
      PROVE  NamespaceSound'
  <2>1. /\ namer' \in [Namer -> NamerType] /\ \A o \in Namer : o # p => namer'[o] = namer[o]
        /\ namer'[p].pc = to /\ namer'[p].request = namer[p].request
        /\ namer'[p].mem = namer[p].mem /\ namer'[p].call = namer[p].call
        /\ namer[p].pc = from
    BY <1>0, <1>2 DEF Step, At, NamerType
  <2>2. NamerSound(p)' BY <1>0, <1>2, <2>1 DEF NamerSound, Attested
  <2>3. ReceiptMoves BY <1>0, <1>2 DEF ReceiptMoves
  <2> QED BY <1>0, <1>2, <2>1, <2>2, <2>3, NamerWhole
<1>3. CASE RecordBinding(p)
  <2>1. /\ Step(p, "bind", "admit") /\ CreateReference(namer[p].request)
        /\ UNCHANGED <<held, receipt, admitted, claimed, spawned>>
    BY <1>3 DEF RecordBinding
  <2>2. namer[p].request \in Request BY <1>0 DEF NamerType
  <2> QED BY <1>0, <1>2, <2>1, <2>2, ReferenceAgrees DEF NamerPhase
<1>4. CASE CreateOrObserve(p)
  <2>1. /\ Step(p, "admit", "intend") /\ admitted' = Bound(namer[p].request)
        /\ UNCHANGED <<held, reference, receipt, claimed, spawned>>
    BY <1>4 DEF CreateOrObserve
  <2>2. namer[p].request \in ModalRequest BY <1>0, <2>1 DEF NamerSound, Step, At
  <2>3. OneFamily' BY <1>0, <2>1 DEF OneFamily
  <2> QED BY <1>0, <1>2, <2>1, <2>2, <2>3 DEF NamerPhase
<1>5. CASE RecoverAdmits(p)
  <2>1. /\ admitted # Missing /\ held' = p
        /\ UNCHANGED <<reference, receipt, admitted, claimed, spawned>>
        /\ namer' = [namer EXCEPT ![p] = [namer[p] EXCEPT !.pc = "intend",
                                                         !.request = admitted.request]]
        /\ p \in Recoverer
    BY <1>5 DEF RecoverAdmits, Acquire
  <2>2. admitted.request \in ModalRequest BY <1>0, <2>1, Statuses
  <2>3. admitted.request \in Request BY <2>2 DEF Request
  <2>4. [namer[p] EXCEPT !.pc = "intend", !.request = admitted.request] \in NamerType
    BY <1>0, <2>3 DEF NamerType, NamerPhase
  <2>5. /\ namer' \in [Namer -> NamerType] /\ \A o \in Namer : o # p => namer'[o] = namer[o]
        /\ namer'[p].pc = "intend" /\ namer'[p].request = admitted.request
        /\ namer'[p].mem = namer[p].mem /\ namer'[p].call = namer[p].call
    BY <1>0, <2>1, <2>4 DEF NamerType
  <2>6. NamerSound(p)' BY <1>0, <2>1, <2>2, <2>5 DEF NamerSound, Attested
  <2>7. ReceiptMoves /\ OneFamily' BY <1>0, <2>1 DEF ReceiptMoves, OneFamily
  <2> QED BY <1>0, <2>1, <2>5, <2>6, <2>7, NamerWhole
<1>6. CASE SpawnCall(p)
  <2>1. /\ namer[p].pc = "spawn" /\ spawned' = spawned + 1
        /\ UNCHANGED <<held, reference, receipt, admitted, claimed>>
        /\ namer' = [namer EXCEPT ![p] = [namer[p] EXCEPT !.pc = "record",
                                                         !.call = spawned']]
    BY <1>6 DEF SpawnCall, At
  <2>2. spawned' \in Nat /\ spawned' >= spawned BY <1>0, <2>1
  <2>3. [namer[p] EXCEPT !.pc = "record", !.call = spawned'] \in NamerType
    BY <1>0, <2>2 DEF NamerType, NamerPhase
  <2>4. /\ namer' \in [Namer -> NamerType] /\ \A o \in Namer : o # p => namer'[o] = namer[o]
        /\ namer'[p].pc = "record" /\ namer'[p].request = namer[p].request
        /\ namer'[p].mem = namer[p].mem /\ namer'[p].call = spawned'
    BY <1>0, <2>1, <2>3 DEF NamerType
  <2>5. ReceiptMoves /\ OneFamily' BY <1>0, <2>1, <2>2 DEF ReceiptMoves, OneFamily
  <2>6. p \in Submitter => receipt' = Unreadable \/ Attested(p)'
    BY <1>0, <2>1 DEF NamerSound, Attested
  <2>7. namer'[p].mem # Missing => ReceiptSound(namer'[p].mem, spawned')
    BY <1>0, <2>2, <2>4, CallsGrow DEF NamerSound
  <2>8. NamerSound(p)' BY <1>0, <2>1, <2>2, <2>4, <2>6, <2>7 DEF NamerSound
  <2> QED BY <1>0, <2>1, <2>4, <2>5, <2>8, NamerWhole
<1>7. CASE NamerLeaves(p)
  <2>1. /\ namer[p].pc \notin {"start", "gone"} /\ held' = NoProc
        /\ UNCHANGED <<reference, receipt, admitted, claimed, spawned>>
        /\ namer' = [namer EXCEPT ![p] = IF namer[p].call = 0 THEN Fresh
                                         ELSE [namer[p] EXCEPT !.pc = "gone"]]
    BY <1>7 DEF NamerLeaves, Release
  <2>2. Fresh \in NamerType /\ Fresh.pc = "start" /\ Fresh.mem = Missing /\ Fresh.call = 0
    BY DEF Fresh, NamerType, NamerPhase, Request
  <2>3. LET new == [namer[p] EXCEPT !.pc = "gone"]
        IN /\ new \in NamerType /\ new.pc = "gone" /\ new.mem = namer[p].mem
           /\ new.request = namer[p].request /\ new.call = namer[p].call
    BY <1>0 DEF NamerType, NamerPhase
  <2>4. /\ namer' \in [Namer -> NamerType] /\ \A o \in Namer : o # p => namer'[o] = namer[o]
        /\ \/ namer'[p] = Fresh
           \/ /\ namer'[p].pc = "gone" /\ namer'[p].mem = namer[p].mem
              /\ namer'[p].request = namer[p].request /\ namer'[p].call = namer[p].call
    BY <1>0, <2>1, <2>2, <2>3
  <2>5. NamerSound(p)' BY <1>0, <2>1, <2>2, <2>4 DEF NamerSound, Attested
  <2>6. ReceiptMoves /\ OneFamily' BY <1>0, <2>1 DEF ReceiptMoves, OneFamily
  <2> QED BY <1>0, <2>1, <2>4, <2>5, <2>6, NamerWhole
<1> QED BY <1>1, <1>3, <1>4, <1>5, <1>6, <1>7

(* The intent, written before the provider is called.                       *)
LEMMA IntentKeeps ==
    ASSUME NamespaceSound, NEW p \in Namer, RecordIntent(p)
    PROVE  NamespaceSound' /\ ReceiptMoves
<1>0. /\ namer \in [Namer -> NamerType] /\ namer[p] \in NamerType /\ NamerSound(p)
      /\ spawned \in Nat /\ namer[p].call \in Nat /\ OneFamily
      /\ held \in Namer \cup {NoProc, Owner} /\ claimed \in BOOLEAN
      /\ reference \in {Missing, Unreadable} \cup {Bound(q) : q \in Request}
      /\ admitted \in {Missing} \cup {Bound(q) : q \in ModalRequest}
  BY DEF NamespaceSound, NamerType
<1>1. /\ namer[p].pc = "intend" /\ UNCHANGED <<held, reference, admitted, claimed, spawned>>
      /\ \/ /\ receipt # Unreadable /\ Writable(WithIntent(p))
            /\ receipt' = WithIntent(p)
         \/ p \in Recoverer /\ UNCHANGED receipt
      /\ \/ /\ namer' = [namer EXCEPT ![p].pc = "spawn", ![p].mem = receipt']
            /\ receipt # Unreadable /\ receipt' = WithIntent(p)
         \/ namer' = [namer EXCEPT ![p].pc = "spawn"]
  BY DEF RecordIntent, At, Step
<1>2. namer[p].request \in ModalRequest BY <1>0, <1>1 DEF NamerSound
<1>3. receipt # Unreadable =>
         /\ ReceiptSound(WithIntent(p), spawned)
         /\ \E i \in 1..Len(WithIntent(p).attempts) : WithIntent(p).attempts[i].by = p
  BY <1>2, IntentAttests
<1>4. ReceiptMoves /\ OneFamily'
  <2>1. CASE UNCHANGED receipt BY <1>0, <1>1, <2>1 DEF ReceiptMoves, OneFamily
  <2>2. CASE /\ receipt # Unreadable /\ Writable(WithIntent(p))
             /\ receipt' = WithIntent(p)
    BY <1>1, <1>3, <2>2, WriteMoves
  <2> QED BY <1>1, <2>1, <2>2
<1>5. /\ namer' \in [Namer -> NamerType] /\ \A o \in Namer : o # p => namer'[o] = namer[o]
      /\ namer'[p].pc = "spawn" /\ namer'[p].request = namer[p].request
      /\ namer'[p].call = namer[p].call
      /\ namer'[p].mem # Missing => ReceiptSound(namer'[p].mem, spawned)
  <2>1. CASE namer' = [namer EXCEPT ![p].pc = "spawn"]
    BY <1>0, <2>1 DEF NamerType, NamerPhase, NamerSound
  <2>2. CASE /\ namer' = [namer EXCEPT ![p].pc = "spawn", ![p].mem = receipt']
             /\ receipt # Unreadable /\ receipt' = WithIntent(p)
    <3>1. ReceiptSound(receipt', spawned) /\ receipt' \in Kept
      BY <1>3, <2>2 DEF ReceiptSound
    <3>2. namer' = [namer EXCEPT ![p] = [namer[p] EXCEPT !.pc = "spawn", !.mem = receipt']]
      BY <2>2
    <3>3. [namer[p] EXCEPT !.pc = "spawn", !.mem = receipt'] \in NamerType
      BY <1>0, <3>1 DEF NamerType, NamerPhase
    <3> QED BY <1>0, <3>1, <3>2, <3>3 DEF NamerType
  <2> QED BY <1>1, <2>1, <2>2
<1>6. p \in Submitter => receipt' = Unreadable \/ Attested(p)'
  <2> SUFFICES ASSUME p \in Submitter PROVE Attested(p)' OBVIOUS
  <2>1. p \notin Recoverer BY NamespaceAssumption
  <2>2. receipt # Unreadable /\ receipt' = WithIntent(p) BY <1>1, <2>1
  <2>3. WithIntent(p).status = "kept" BY <1>3, <2>2, Statuses DEF ReceiptSound
  <2> QED BY <1>3, <2>2, <2>3 DEF Attested
<1>7. NamerSound(p)' BY <1>0, <1>1, <1>2, <1>5, <1>6 DEF NamerSound
<1> QED BY <1>0, <1>1, <1>4, <1>5, <1>7, NamerWhole

(* The call, added to the attempt of the command.                           *)
LEMMA SpawnKeeps ==
    ASSUME NamespaceSound, NEW p \in Namer, RecordSpawn(p)
    PROVE  NamespaceSound' /\ ReceiptMoves
<1>0. /\ namer \in [Namer -> NamerType] /\ namer[p] \in NamerType /\ NamerSound(p)
      /\ spawned \in Nat /\ namer[p].call \in Nat /\ OneFamily
      /\ held \in Namer \cup {NoProc, Owner} /\ claimed \in BOOLEAN
      /\ reference \in {Missing, Unreadable} \cup {Bound(q) : q \in Request}
      /\ admitted \in {Missing} \cup {Bound(q) : q \in ModalRequest}
  BY DEF NamespaceSound, NamerType
<1>1. /\ namer[p].pc = "record" /\ namer' = [namer EXCEPT ![p].pc = "end"]
      /\ UNCHANGED <<held, reference, admitted, claimed, spawned>>
      /\ \/ /\ namer[p].mem # Missing /\ receipt # Unreadable
            /\ Writable(WithCall(p)) /\ receipt' = WithCall(p)
         \/ UNCHANGED receipt
  BY DEF RecordSpawn, At, Step
<1>2. ReceiptMoves /\ OneFamily'
  <2>1. CASE UNCHANGED receipt BY <1>0, <1>1, <2>1 DEF ReceiptMoves, OneFamily
  <2>2. CASE /\ namer[p].mem # Missing /\ receipt # Unreadable
             /\ Writable(WithCall(p)) /\ receipt' = WithCall(p)
    BY <1>1, <2>2, CallRecorded, WriteMoves
  <2> QED BY <1>1, <2>1, <2>2
<1>3. /\ namer' \in [Namer -> NamerType] /\ \A o \in Namer : o # p => namer'[o] = namer[o]
      /\ namer'[p].pc = "end" /\ namer'[p].request = namer[p].request
      /\ namer'[p].mem = namer[p].mem /\ namer'[p].call = namer[p].call
  BY <1>0, <1>1 DEF NamerType, NamerPhase
<1>4. p \in Submitter /\ namer[p].call # 0 => receipt' = Unreadable \/ Attested(p)'
  BY <1>0, <1>2, AttestedStays DEF NamerSound
<1>5. NamerSound(p)' BY <1>0, <1>1, <1>3, <1>4 DEF NamerSound
<1> QED BY <1>0, <1>1, <1>2, <1>3, <1>5, NamerWhole

-----------------------------------------------------------------------------
(* The rest of the world. *)

(* Steps that leave the commands alone.                                     *)
LEMMA WorldWhole ==
    ASSUME NamespaceSound, UNCHANGED <<admitted, spawned, namer>>,
           receipt' = receipt \/ receipt' = Unreadable,
           held' \in Namer \cup {NoProc, Owner},
           reference' \in {Missing, Unreadable} \cup {Bound(q) : q \in Request},
           claimed' \in BOOLEAN, OneFamily'
    PROVE  NamespaceSound' /\ ReceiptMoves
<1>1. spawned \in Nat /\ namer \in [Namer -> NamerType] BY DEF NamespaceSound
<1>2. ReceiptMoves BY <1>1 DEF ReceiptMoves
<1>3. receipt' \in {Missing, Unreadable} \/ ReceiptSound(receipt', spawned')
  BY DEF NamespaceSound
<1>4. ASSUME NEW p \in Namer PROVE NamerSound(p)'
  <2>1. NamerSound(p) BY DEF NamespaceSound
  <2>2. receipt = Unreadable \/ Attested(p) => receipt' = Unreadable \/ Attested(p)'
    BY <1>2, AttestedStays
  <2> QED BY <2>1, <2>2 DEF NamerSound
<1> QED BY <1>2, <1>3, <1>4 DEF NamespaceSound

(* The controller's claim, damage to a file, and the attached launch.       *)
LEMMA WorldKeeps ==
    ASSUME NamespaceSound, AdmissionMoves \/ FileDamaged \/ LocalNext
    PROVE  NamespaceSound' /\ ReceiptMoves
<1>0. /\ OneFamily /\ held \in Namer \cup {NoProc, Owner} /\ claimed \in BOOLEAN
      /\ reference \in {Missing, Unreadable} \cup {Bound(q) : q \in Request}
  BY DEF NamespaceSound
<1>1. CASE UNCHANGED <<reference, receipt, admitted, spawned, namer>>
           /\ held' \in {held, NoProc, Owner} /\ claimed' \in BOOLEAN
  <2>1. OneFamily' BY <1>0, <1>1 DEF OneFamily
  <2> QED BY <1>0, <1>1, <2>1, WorldWhole
<1>2. CASE AdmissionMoves BY <1>1, <1>2 DEF AdmissionMoves
<1>3. CASE FileDamaged
  <2>1. /\ UNCHANGED <<held, admitted, claimed, spawned, namer>>
        /\ \/ reference' = Unreadable /\ UNCHANGED receipt
           \/ receipt' = Unreadable /\ UNCHANGED reference
    BY <1>3 DEF FileDamaged
  <2>2. OneFamily' BY <2>1, Statuses DEF OneFamily
  <2> QED BY <1>0, <2>1, <2>2, WorldWhole
<1>4. CASE OwnerPublishes
  <2>1. /\ CreateReference(DockerRequest) /\ held' = NoProc
        /\ UNCHANGED <<receipt, admitted, claimed, spawned, namer>>
    BY <1>4 DEF OwnerPublishes, Release
  <2>2. DockerRequest \in Request BY DEF Request
  <2> QED BY <1>0, <2>1, <2>2, ReferenceAgrees, WorldWhole
<1>5. CASE OwnerReserves
  BY <1>0, <1>1, <1>5 DEF OwnerReserves, Acquire
<1>6. CASE Signal \/ OwnerDies
  BY <1>0, <1>1, <1>6 DEF Signal, OwnerDies
<1>7. CASE \/ OwnerChecks \/ OwnerLocks \/ OwnerInitializes
           \/ OwnerRecordsRunning \/ LoopStarts \/ CancelOnce
           \/ OwnerRecordsEnd \/ OwnerWitnesses \/ OwnerUnlocks \/ OwnerReported
           \/ ComposeStarts \/ ComposeCreates \/ ComposeEnds \/ HarborEnds
  <2>1. UNCHANGED namespaceVars
    BY <1>7 DEF OwnerChecks, OwnerLocks, OwnerInitializes, OwnerRecordsRunning, LoopStarts,
                CancelOnce, OwnerRecordsEnd, OwnerWitnesses, OwnerUnlocks, OwnerReported,
                ComposeStarts, ComposeCreates, ComposeEnds, HarborEnds
  <2> QED BY <1>0, <1>1, <2>1 DEF namespaceVars
<1>8. CASE \E p \in Command \cup {Owner} :
              CancelStep(p) \/ StatusBegins(p) \/ ReportStep(p) \/ CommandFails(p)
  <2>1. PICK p \in Command \cup {Owner} :
              CancelStep(p) \/ StatusBegins(p) \/ ReportStep(p) \/ CommandFails(p)
    BY <1>8
  <2>2. Quiet
    BY <2>1 DEF CancelStep, CancelBegins, CancelAsks, CancelQueues, CancelPublishes,
                CancelWaits, StatusBegins, ReportStep, CleanStep, CleanRefused,
                CleanEnters, Enter, CleanScans, CleanRemoves, ObservationFails,
                ReadResult, ReadExecution, ProbeOwner, ReportIs, CommandFails
  <2> QED BY <1>0, <1>1, <2>2 DEF Quiet, namespaceVars
<1> QED BY <1>2, <1>3, <1>4, <1>5, <1>6, <1>7, <1>8 DEF LocalNext, OwnerStep

-----------------------------------------------------------------------------
(* The invariant holds in every behaviour. *)

(* At first there is at most a receipt of an older release.                 *)
LEMMA NamespaceAtFirst == Init => NamespaceSound
<1> SUFFICES ASSUME NamespaceInit PROVE NamespaceSound BY DEF Init
<1>1. /\ held = NoProc /\ reference = Missing /\ admitted = Missing
      /\ claimed = FALSE /\ spawned = 0 /\ namer = [p \in Namer |-> Fresh]
      /\ receipt \in {Missing} \cup {Legacy(q) : q \in ModalRequest}
  BY DEF NamespaceInit
<1>2. Fresh \in NamerType /\ Fresh.pc = "start" /\ Fresh.mem = Missing /\ Fresh.call = 0
  BY DEF Fresh, NamerType, NamerPhase, Request
<1>3. ASSUME NEW q \in ModalRequest PROVE ReceiptSound(Legacy(q), 0)
  <2>1. Attempt(NoProc, 0) \in AttemptType /\ Attempt(NoProc, 0).call = 0
    BY DEF Attempt, AttemptType
  <2>2. Legacy(q) \in Kept /\ Legacy(q).attempts = <<Attempt(NoProc, 0)>>
    BY <2>1 DEF Legacy, Receipt, Kept
  <2> HIDE DEF Attempt
  <2> QED BY <2>1, <2>2 DEF ReceiptSound
<1>4. OneFamily BY <1>1, Statuses DEF OneFamily
<1>5. \A p \in Namer : NamerSound(p) BY <1>1, <1>2 DEF NamerSound
<1> QED BY <1>1, <1>2, <1>3, <1>4, <1>5 DEF NamespaceSound

(* Every step keeps it, and appends to the receipt at most.                 *)
LEMMA NamespaceStays == NamespaceSound /\ [Next]_vars => NamespaceSound' /\ ReceiptMoves
<1> SUFFICES ASSUME NamespaceSound, [Next]_vars PROVE NamespaceSound' /\ ReceiptMoves
  OBVIOUS
<1>1. CASE UNCHANGED vars
  <2>1. UNCHANGED <<held, reference, receipt, admitted, claimed, spawned, namer>>
    BY <1>1 DEF vars, namespaceVars
  <2>2. OneFamily' BY <2>1 DEF OneFamily, NamespaceSound
  <2> QED BY <2>1, <2>2, WorldWhole DEF NamespaceSound
<1>2. ASSUME NEW p \in Namer, NamerStep(p) PROVE NamespaceSound' /\ ReceiptMoves
  <2>1. CASE RecordIntent(p) BY <2>1, IntentKeeps
  <2>2. CASE RecordSpawn(p) BY <2>2, SpawnKeeps
  <2>3. CASE \/ SubmitAdmits(p) \/ RecordBinding(p) \/ CreateOrObserve(p)
             \/ RecoverAdmits(p) \/ SpawnCall(p) \/ NamerLeaves(p)
    <3>1. spawned \in Nat BY DEF NamespaceSound
    <3>2. receipt' = receipt /\ spawned' \in {spawned, spawned + 1}
      BY <2>3 DEF SubmitAdmits, RecordBinding, CreateOrObserve, RecoverAdmits, SpawnCall,
                  NamerLeaves
    <3>3. ReceiptMoves BY <3>1, <3>2 DEF ReceiptMoves
    <3> QED BY <2>3, <3>3, NamerTurns
  <2> QED BY <1>2, <2>1, <2>2, <2>3 DEF NamerStep
<1>3. CASE Next BY <1>2, <1>3, WorldKeeps DEF Next, NamespaceNext
<1> QED BY <1>1, <1>3

(* A run id has one family of records: a readable reference and a readable *)
(* receipt are of the same request (RunReferenceStore.admission).          *)
THEOREM IdHasOneFamily == Spec => []OneFamily
<1>1. NamespaceSound => OneFamily BY DEF NamespaceSound
<1> QED BY <1>1, NamespaceAtFirst, NamespaceStays, PTL DEF Spec

(* A submission that called the provider has its attempt in the receipt,   *)
(* wherever it died (SubmissionService._record_and_spawn).                 *)
THEOREM SpawnsAreAttested == Spec => []SpawnLeavesEvidence
<1>1. NamespaceSound => SpawnLeavesEvidence
  BY DEF NamespaceSound, NamerSound, Attested, SpawnLeavesEvidence, Namer
<1> QED BY <1>1, NamespaceAtFirst, NamespaceStays, PTL DEF Spec

(* The receipt only grows: attempts stay in their place and a call stays   *)
(* with its attempt (ReceiptStore._validate_append_only).                  *)
THEOREM ReceiptsGrow == Spec => EvidenceGrows
<1> DEFINE Grows ==
      receipt.status = "kept" /\ receipt' # Unreadable =>
         /\ receipt'.request = receipt.request
         /\ \A i \in 1..Len(receipt.attempts) :
              /\ i <= Len(receipt'.attempts)
              /\ receipt'.attempts[i].by = receipt.attempts[i].by
              /\ receipt.attempts[i].call \in {0, receipt'.attempts[i].call}
<1>1. ASSUME NamespaceSound, ReceiptMoves PROVE Grows
  <2> SUFFICES ASSUME receipt.status = "kept", receipt' # Unreadable PROVE Grows
    OBVIOUS
  <2>1. receipt \in Kept BY <1>1, Statuses DEF NamespaceSound, ReceiptSound
  <2>2. CASE receipt' = receipt
    <3>1. Len(receipt.attempts) \in Nat BY <2>1 DEF Kept
    <3> QED BY <2>2, <3>1
  <2>3. CASE AppendOnly(receipt, receipt') /\ ReceiptSound(receipt', spawned)
    <3>1. receipt' \in Kept BY <2>3 DEF ReceiptSound
    <3> QED BY <2>1, <2>3, <3>1, AppendGrows
  <2> QED BY <1>1, <2>2, <2>3 DEF ReceiptMoves
<1>2. NamespaceSound /\ [Next]_vars => NamespaceSound' BY NamespaceStays
<1>3. NamespaceSound /\ [Next]_vars => [Grows]_namespaceVars BY <1>1, NamespaceStays
<1> QED BY <1>2, <1>3, NamespaceAtFirst, PTL DEF Spec, EvidenceGrows

(* The variables keep their types.                                         *)
THEOREM LocalTypes == Spec => []TypeOK
<1>1. ASSUME NamespaceSound PROVE NamespaceTypeOK
  <2>1. ASSUME receipt \notin {Missing, Unreadable}
        PROVE  /\ receipt.status = "kept" /\ receipt.request \in ModalRequest
               /\ receipt.attempts # <<>>
               /\ \A i \in 1..Len(receipt.attempts) :
                     receipt.attempts[i].call \in 0..spawned
    <3>1. ReceiptSound(receipt, spawned) /\ spawned \in Nat
      BY <1>1, <2>1 DEF NamespaceSound
    <3>2. \A i \in 1..Len(receipt.attempts) : receipt.attempts[i] \in AttemptType
      BY <3>1 DEF ReceiptSound, Kept
    <3>3. \A i \in 1..Len(receipt.attempts) : receipt.attempts[i].call \in Nat
      BY <3>2 DEF AttemptType
    <3> QED BY <3>1, <3>3 DEF ReceiptSound, Kept
  <2> QED BY <1>1, <2>1 DEF NamespaceSound, NamespaceTypeOK
<1>2. ASSUME LocalSound, OutputSound, NamespaceTypeOK PROVE TypeOK
  <2>1. \A p \in Command \cup {Owner} : command[p] \in CommandType
    BY <1>2 DEF LocalSound, Types, Reporter
  <2>2. \A p \in Command \cup {Owner} :
           command[p].round \in 0..2 /\ command[p].listed \subseteq Container
    BY <2>1 DEF CommandType
  <2>3. owner.signalled \in BOOLEAN /\ owner.cancelled \in BOOLEAN
    BY <1>2 DEF LocalSound, Types, OwnerType
  <2> QED
    BY <1>2, <2>2, <2>3 DEF TypeOK, LocalSound, Types, OutputSound, Outcome, FileNames, Reporter
<1> QED BY <1>1, <1>2, NamespaceAtFirst, NamespaceStays, OutputsTyped, PTL DEF Spec

=============================================================================
