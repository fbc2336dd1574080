--------------------------- MODULE CalibrationProofs ---------------------------
(***************************************************************************)
(* What holds of every calibration attempt, whatever the number of         *)
(* requests, their worst cases, their prices and the failures: the broker  *)
(* never grants more than the attempt's allocation; its ledger, the spend  *)
(* file its parent reads and the sum the runner settles on cover what the  *)
(* requests cost; a drain the runner has seen is the end of all spending.  *)
(***************************************************************************)
EXTENDS CalibrationInvariant, FiniteSetTheorems, WellFoundedInduction, TLAPS

(* The sums stay within the allocation because a reservation is given back *)
(* whole or replaced by a price that fits: nothing else enters the cost.   *)
LedgerSound ==
    /\ cost \in Int /\ reserved \in Int
    /\ reservations \in [Request -> Nat]
    /\ charge \in [Request -> Nat]
    /\ WithinAllocation

(* A drained broker cannot be activated again, the file says "draining"    *)
(* only of a broker that is, or is gone, and there is no second broker.    *)
DrainSound ==
    /\ gate \in GateType
    /\ gate.draining => gate.activated /\ ~gate.active
    /\ file.draining => gate.draining \/ ~Alive
    /\ drained => gate.draining \/ ~Alive
    /\ pc = "start" => proc = "none" /\ ~drained /\ ~file.draining

-----------------------------------------------------------------------------
(* Sums over the requests.  A fact about all ordinals is proved from a     *)
(* smallest one that violates it.                                          *)

(* Induction over the ordinals, for a set of them.                         *)
LEMMA UpToTheLast ==
    ASSUME NEW P, 0 \in P,
           \A n \in 0..(MaxRequests - 1) : n \in P => n + 1 \in P
    PROVE  0..MaxRequests \subseteq P
<1> DEFINE Bad   == {n \in 0..MaxRequests : n \notin P}
           Worse == {0..n : n \in Bad}
<1> SUFFICES ASSUME Bad # {} PROVE FALSE
  OBVIOUS
<1>1. Worse # {} /\ Worse \subseteq FiniteSubsetsOf(Nat)
  <2>1. \A n \in Bad : 0..n \in SUBSET Nat /\ IsFiniteSet(0..n)
    BY FS_Interval, LedgerAssumption
  <2>. HIDE DEF Bad
  <2>2. \A n \in Bad : 0..n \in FiniteSubsetsOf(Nat)
    BY <2>1 DEF FiniteSubsetsOf
  <2>. QED
    BY <2>2
<1>2. PICK x \in Worse :
         \A y \in Worse : ~(<<y, x>> \in StrictSubsetOrdering(Nat))
  <2>. HIDE DEF Worse
  <2>. QED
    BY <1>1, WFMin, FS_StrictSubsetOrderingWellFounded, Zenon
<1>3. PICK n \in Bad : x = 0..n
  BY <1>2
<1>4. n - 1 \in Bad
  BY LedgerAssumption
<1>5. <<0..(n - 1), 0..n>> \in StrictSubsetOrdering(Nat)
  <2>1. n \in 0..n /\ n \notin 0..(n - 1) /\ 0..(n - 1) \subseteq 0..n
    BY LedgerAssumption
  <2>2. 0..(n - 1) \in SUBSET Nat /\ 0..n \in SUBSET Nat
    BY LedgerAssumption
  <2>. QED
    BY <2>1, <2>2 DEF StrictSubsetOrdering
<1>. QED
  BY <1>2, <1>3, <1>4, <1>5

(* What a request adds to a total.                                         *)
Share(a, R, q) == IF q \in R THEN a[q] ELSE 0

(* g holds the totals over the first ordinals, up to N.                    *)
Partial(g, a, R, N) ==
    /\ g \in [0..N -> Int] /\ g[0] = 0
    /\ \A n \in 1..N : g[n] = g[n - 1] + Share(a, R, n)

(* There are such partial totals.                                          *)
LEMMA PartialExists ==
    ASSUME NEW a \in [Request -> Int], NEW R
    PROVE  \E g : Partial(g, a, R, MaxRequests)
<1> DEFINE P == {n \in 0..MaxRequests : \E g : Partial(g, a, R, n)}
<1>1. 0 \in P
  <2>1. Partial([k \in 0..0 |-> 0], a, R, 0)
    BY DEF Partial
  <2>. QED
    BY <2>1, LedgerAssumption
<1>2. ASSUME NEW n \in 0..(MaxRequests - 1), n \in P PROVE n + 1 \in P
  <2>1. PICK g : Partial(g, a, R, n)
    BY <1>2
  <2> DEFINE h == [k \in 0..(n + 1) |->
                     IF k = n + 1 THEN g[n] + Share(a, R, n + 1) ELSE g[k]]
  <2>2. Share(a, R, n + 1) \in Int
    BY LedgerAssumption DEF Share, Request
  <2>3. Partial(h, a, R, n + 1)
    BY <2>1, <2>2, LedgerAssumption DEF Partial
  <2>. QED
    BY <2>3, LedgerAssumption
<1>3. 0..MaxRequests \subseteq P
  <2>. HIDE DEF P
  <2>. QED
    BY <1>1, <1>2, UpToTheLast
<1>. QED
  BY <1>3, LedgerAssumption

(* The recursive definition of a total computes them.                      *)
LEMMA TotalIsPartial ==
    ASSUME NEW a \in [Request -> Int], NEW R
    PROVE  \E g : Partial(g, a, R, MaxRequests) /\ Total(a, R) = g[MaxRequests]
<1> DEFINE F(u) == [n \in 0..MaxRequests |->
                      IF n = 0 THEN 0
                      ELSE u[n - 1] + (IF n \in R THEN a[n] ELSE 0)]
           h == CHOOSE u : u = F(u)
<1>1. \E u : u = F(u)
  <2>1. PICK g : Partial(g, a, R, MaxRequests)
    BY PartialExists
  <2>2. g = F(g)
    BY <2>1 DEF Partial, Share
  <2>. QED
    BY <2>2
<1>2. h = F(h)
  <2>. HIDE DEF F
  <2>. QED
    BY <1>1
<1>3. Total(a, R) = h[MaxRequests]
  BY Zenon DEF Total
<1>4. h[0] = 0 /\ \A n \in 1..MaxRequests : h[n] = h[n - 1] + Share(a, R, n)
  <2>. HIDE DEF h
  <2>. QED
    BY <1>2, LedgerAssumption DEF Share
<1>5. h \in [0..MaxRequests -> Int]
  <2> DEFINE Q == {n \in 0..MaxRequests : h[n] \in Int}
  <2>. HIDE DEF h
  <2>1. 0 \in Q
    BY <1>4, LedgerAssumption
  <2>2. ASSUME NEW n \in 0..(MaxRequests - 1), n \in Q PROVE n + 1 \in Q
    BY <2>2, <1>4, LedgerAssumption DEF Request, Share
  <2>3. 0..MaxRequests \subseteq Q
    <3>. HIDE DEF Q
    <3>. QED
      BY <2>1, <2>2, UpToTheLast
  <2>. QED
    BY <2>3, <1>2, LedgerAssumption
<1>. QED
  BY <1>3, <1>4, <1>5 DEF Partial

(* Two totals together cover a third if they do for each request.          *)
LEMMA TotalsCover ==
    ASSUME NEW a \in [Request -> Int], NEW b \in [Request -> Int],
           NEW c \in [Request -> Int], NEW R, NEW S, NEW T,
           \A q \in Request : Share(c, T, q) <= Share(a, R, q) + Share(b, S, q)
    PROVE  Total(c, T) <= Total(a, R) + Total(b, S)
<1>1. PICK g : Partial(g, a, R, MaxRequests) /\ Total(a, R) = g[MaxRequests]
  BY TotalIsPartial
<1>2. PICK h : Partial(h, b, S, MaxRequests) /\ Total(b, S) = h[MaxRequests]
  BY TotalIsPartial
<1>3. PICK k : Partial(k, c, T, MaxRequests) /\ Total(c, T) = k[MaxRequests]
  BY TotalIsPartial
<1> DEFINE P == {n \in 0..MaxRequests : k[n] <= g[n] + h[n]}
<1>4. 0 \in P
  BY <1>1, <1>2, <1>3, LedgerAssumption DEF Partial
<1>5. ASSUME NEW n \in 0..(MaxRequests - 1), n \in P PROVE n + 1 \in P
  <2>1. n + 1 \in Request
    BY LedgerAssumption DEF Request
  <2>2. /\ g[n + 1] = g[n] + Share(a, R, n + 1)
        /\ h[n + 1] = h[n] + Share(b, S, n + 1)
        /\ k[n + 1] = k[n] + Share(c, T, n + 1)
        /\ g[n] \in Int /\ h[n] \in Int /\ k[n] \in Int
    BY <1>1, <1>2, <1>3, LedgerAssumption DEF Partial
  <2>3. /\ Share(a, R, n + 1) \in Int /\ Share(b, S, n + 1) \in Int
        /\ Share(c, T, n + 1) \in Int
    BY <2>1 DEF Share
  <2>. QED
    BY <2>1, <2>2, <2>3, <1>5, LedgerAssumption
<1>6. 0..MaxRequests \subseteq P
  <2>. HIDE DEF P
  <2>. QED
    BY <1>4, <1>5, UpToTheLast
<1>. QED
  BY <1>1, <1>2, <1>3, <1>6, LedgerAssumption DEF Partial

(* A total with the amount of one request replaced.                        *)
LEMMA TotalReplaced ==
    ASSUME NEW a \in [Request -> Int], NEW b \in [Request -> Int],
           NEW R, NEW r \in Request, r \in R,
           \A q \in Request : q # r => b[q] = a[q]
    PROVE  Total(b, R) = Total(a, R) - a[r] + b[r]
<1>1. PICK g : Partial(g, a, R, MaxRequests) /\ Total(a, R) = g[MaxRequests]
  BY TotalIsPartial
<1>2. PICK h : Partial(h, b, R, MaxRequests) /\ Total(b, R) = h[MaxRequests]
  BY TotalIsPartial
<1> DEFINE P == {n \in 0..MaxRequests :
                   h[n] = IF n < r THEN g[n] ELSE g[n] - a[r] + b[r]}
<1>3. 0 \in P
  BY <1>1, <1>2, LedgerAssumption DEF Partial, Request
<1>4. ASSUME NEW n \in 0..(MaxRequests - 1), n \in P PROVE n + 1 \in P
  <2>1. n + 1 \in Request
    BY LedgerAssumption DEF Request
  <2>2. /\ g[n + 1] = g[n] + Share(a, R, n + 1)
        /\ h[n + 1] = h[n] + Share(b, R, n + 1)
        /\ g[n] \in Int /\ h[n] \in Int
    BY <1>1, <1>2, LedgerAssumption DEF Partial
  <2>3. a[n + 1] \in Int /\ b[n + 1] \in Int /\ a[r] \in Int /\ b[r] \in Int
    BY <2>1
  <2>4. h[n] = IF n < r THEN g[n] ELSE g[n] - a[r] + b[r]
    BY <1>4
  <2>5. n \in Int /\ r \in Int /\ n + 1 \in 0..MaxRequests
    BY LedgerAssumption DEF Request
  <2>6. h[n + 1] = IF n + 1 < r THEN g[n + 1] ELSE g[n + 1] - a[r] + b[r]
    <3>1. CASE n + 1 = r
      <4>1. h[n] = g[n]
        BY <2>4, <2>5, <3>1
      <4>2. Share(a, R, n + 1) = a[r] /\ Share(b, R, n + 1) = b[r]
        BY <3>1 DEF Share
      <4>. QED
        BY <2>2, <2>3, <2>5, <3>1, <4>1, <4>2
    <3>2. CASE n + 1 # r
      <4>1. /\ Share(b, R, n + 1) = Share(a, R, n + 1)
            /\ Share(a, R, n + 1) \in Int
        BY <2>1, <2>3, <3>2 DEF Share
      <4>. QED
        BY <2>2, <2>3, <2>4, <2>5, <3>2, <4>1
    <3>. QED
      BY <3>1, <3>2
  <2>. QED
    BY <2>5, <2>6
<1>5. 0..MaxRequests \subseteq P
  <2>. HIDE DEF P
  <2>. QED
    BY <1>3, <1>4, UpToTheLast
<1>6. MaxRequests \in P /\ ~(MaxRequests < r)
  BY <1>5, LedgerAssumption DEF Request
<1>. QED
  BY <1>1, <1>2, <1>6

(* A total of no shares is 0.                                              *)
LEMMA TotalNothing ==
    ASSUME NEW a \in [Request -> Int], NEW R,
           \A q \in Request : Share(a, R, q) = 0
    PROVE  Total(a, R) = 0
<1>1. PICK g : Partial(g, a, R, MaxRequests) /\ Total(a, R) = g[MaxRequests]
  BY TotalIsPartial
<1> DEFINE P == {n \in 0..MaxRequests : g[n] = 0}
<1>2. 0 \in P
  BY <1>1, LedgerAssumption DEF Partial
<1>3. ASSUME NEW n \in 0..(MaxRequests - 1), n \in P PROVE n + 1 \in P
  <2>1. n + 1 \in Request /\ n + 1 \in 1..MaxRequests /\ (n + 1) - 1 = n
    BY LedgerAssumption DEF Request
  <2>. QED
    BY <1>3, <1>1, <2>1, LedgerAssumption DEF Partial
<1>4. 0..MaxRequests \subseteq P
  <2>. HIDE DEF P
  <2>. QED
    BY <1>2, <1>3, UpToTheLast
<1>. QED
  BY <1>1, <1>4, LedgerAssumption

(* Totals are integers, and no less if no share is.                        *)
LEMMA TotalGrows ==
    ASSUME NEW a \in [Request -> Int], NEW b \in [Request -> Int], NEW R, NEW S,
           \A q \in Request : Share(a, R, q) <= Share(b, S, q)
    PROVE  /\ Total(a, R) \in Int /\ Total(b, S) \in Int
           /\ Total(a, R) <= Total(b, S)
<1> DEFINE none == [q \in Request |-> 0]
<1>1. PICK g : Partial(g, a, R, MaxRequests) /\ Total(a, R) = g[MaxRequests]
  BY TotalIsPartial
<1>2. PICK h : Partial(h, b, S, MaxRequests) /\ Total(b, S) = h[MaxRequests]
  BY TotalIsPartial
<1>3. Total(a, R) \in Int /\ Total(b, S) \in Int
  BY <1>1, <1>2, LedgerAssumption DEF Partial
<1>4. \A q \in Request : Share(none, {}, q) = 0
  BY DEF Share
<1>5. Total(none, {}) = 0
  BY <1>4, TotalNothing
<1>6. \A q \in Request : Share(a, R, q) <= Share(b, S, q) + Share(none, {}, q)
  BY DEF Share
<1>7. Total(a, R) <= Total(b, S) + Total(none, {})
  BY <1>6, TotalsCover
<1>. QED
  BY <1>3, <1>4, <1>5, <1>7

(* Equal shares make equal totals.                                         *)
LEMMA TotalSame ==
    ASSUME NEW a \in [Request -> Int], NEW b \in [Request -> Int], NEW R, NEW S,
           \A q \in Request : Share(a, R, q) = Share(b, S, q)
    PROVE  Total(a, R) = Total(b, S)
<1>1. \A q \in Request : Share(a, R, q) \in Int
  BY DEF Share
<1>2. /\ \A q \in Request : Share(a, R, q) <= Share(b, S, q)
      /\ \A q \in Request : Share(b, S, q) <= Share(a, R, q)
  BY <1>1
<1>3. /\ Total(a, R) \in Int /\ Total(b, S) \in Int
      /\ Total(a, R) <= Total(b, S)
  BY <1>2, TotalGrows
<1>4. Total(b, S) <= Total(a, R)
  BY <1>2, TotalGrows
<1>. QED
  BY <1>3, <1>4

(* Amounts that are not negative have a total that is not.                 *)
LEMMA TotalNat ==
    ASSUME NEW a \in [Request -> Nat], NEW R
    PROVE  Total(a, R) \in Nat
<1> DEFINE none == [q \in Request |-> 0]
<1>1. a \in [Request -> Int] /\ none \in [Request -> Int]
  OBVIOUS
<1>2. \A q \in Request : Share(none, R, q) = 0 /\ Share(none, R, q) <= Share(a, R, q)
  BY DEF Share
<1>3. Total(none, R) = 0
  BY <1>1, <1>2, TotalNothing
<1>4. Total(a, R) \in Int /\ Total(none, R) <= Total(a, R)
  BY <1>1, <1>2, TotalGrows
<1>. QED
  BY <1>3, <1>4

-----------------------------------------------------------------------------
(* The ledger. *)

(* The end of the broker's process leaves an empty ledger, in which the    *)
(* allocation is not exceeded.                                             *)
LEMMA KilledLedger ==
    ASSUME LedgerSound, Killed
    PROVE  LedgerSound'
BY LedgerAssumption DEF LedgerSound, Killed, WithinAllocation

(* No action of a request's handler lets the ledger exceed the allocation. *)
LEMMA HandlerKeepsLedger ==
    ASSUME LedgerSound, NEW r \in Request, Handler(r)
    PROVE  LedgerSound'
<1> USE LedgerAssumption DEF LedgerSound, WithinAllocation
<1>1. CASE Admit(r)
  BY <1>1 DEF Admit, Reserve, Covers
<1>2. CASE Send(r)
  BY <1>2 DEF Send, ledgerVars
<1>3. CASE Refuse(r)
  BY <1>3 DEF Refuse, ledgerVars
<1>4. CASE Release(r)
  BY <1>4 DEF Release, ReleaseUnforwarded, Unreserve
<1>5. CASE Price(r)
  <2>1. charge[r] \in Nat /\ reservations[r] \in Nat
    OBVIOUS
  <2>2. charge' = charge /\ Settle(r, charge[r])
    BY <1>5 DEF Price
  <2>3. /\ reserved' = reserved - reservations[r]
        /\ reservations' \in [Request -> Nat]
    BY <2>2 DEF Settle, Unreserve
  <2>4. /\ cost' \in Int
        /\ cost' = cost \/ (cost' = cost + charge[r]
             /\ cost + reserved - reservations[r] + charge[r] <= Allocation)
    BY <2>1, <2>2 DEF Settle
  <2>. QED
    BY <2>1, <2>2, <2>3, <2>4
<1>6. CASE Retain(r)
  BY <1>6 DEF Retain, RetainUnknown
<1>7. CASE Record(r)
  BY <1>7 DEF Record, ledgerVars, askVars
<1>. QED
  BY <1>1, <1>2, <1>3, <1>4, <1>5, <1>6, <1>7 DEF Handler

(* Neither does any other step of the broker or of the runner.             *)
LEMMA LedgerKept ==
    ASSUME LedgerSound, [Next]_vars
    PROVE  LedgerSound'
<1> DEFINE Still == UNCHANGED <<ledgerVars, charge>>
<1>1. ASSUME Still PROVE LedgerSound'
  BY <1>1 DEF LedgerSound, WithinAllocation, ledgerVars
<1>2. CASE BrokerStep
  <2>1. CASE \E r \in Request : Handler(r)
    BY <2>1, HandlerKeepsLedger
  <2>2. CASE Exit \/ Crash
    BY <2>2, KilledLedger DEF Exit, Crash
  <2>3. CASE (\E t \in Thread : SnapshotBegins(t)) \/ SnapshotEnds \/ WriteFails
    BY <1>1, <2>3 DEF SnapshotBegins, SnapshotEnds, WriteFails, askVars
  <2>4. CASE Control
    BY <1>1, <2>4 DEF Control, ReadActivate, ReadDrain, ReadLateHeartbeat,
                      ReadEnd, askVars
  <2>5. CASE Watch \/ Stop \/ Expire
    BY <1>1, <2>5 DEF Watch, Stop, Expire, askVars
  <2>. QED
    BY <1>2, <2>1, <2>2, <2>3, <2>4, <2>5 DEF BrokerStep
<1>3. CASE RunnerStep
  <2>1. CASE Clean \/ Sweep
    BY <2>1, KilledLedger DEF Clean, Sweep
  <2>2. CASE StartSidecar \/ SidecarStarted \/ Probe \/ ProbeAnswered
               \/ MainDiscovered \/ Activate \/ Activated \/ CommandEnds
    BY <1>1, <2>2 DEF StartSidecar, SidecarStarted, Probe, ConsumeProbe,
         ProbeAnswered, MainDiscovered, Activate, Activated, CommandEnds,
         Engine, Local, brokerVars, askVars
  <2>3. CASE RemoveContainers \/ RemovalFails \/ Drain \/ Drained
               \/ FinalLedger \/ ReadLedger
    BY <1>1, <2>3 DEF RemoveContainers, RemovalFails, Drain, Drained,
         FinalLedger, ReadLedger, Engine, brokerVars, askVars
  <2>4. CASE CloseFailed \/ CloseValid \/ CleanFails \/ AccountFailure
               \/ AccountSuccess \/ MarkFailed \/ RunnerDies
    BY <1>1, <2>4 DEF CloseFailed, CloseValid, ClosePipe, CleanFails,
         AccountFailure, AccountSuccess, MarkFailed, RunnerDies, Engine,
         Local, brokerVars, askVars
  <2>. QED
    BY <1>3, <2>1, <2>2, <2>3, <2>4 DEF RunnerStep
<1>4. CASE UNCHANGED vars
  BY <1>1, <1>4 DEF vars, brokerVars, askVars
<1>. QED
  BY <1>2, <1>3, <1>4 DEF Next

(* Every state of every attempt: what is settled and reserved stays within *)
(* the allocation, under concurrent requests, retained reservations and    *)
(* prices above the reservation.                                           *)
THEOREM AllocationIsNeverExceeded == Spec => []WithinAllocation
<1>1. Init => LedgerSound
  BY LedgerAssumption DEF Init, BrokerInit, LedgerInit, LedgerSound,
                          WithinAllocation
<1>2. LedgerSound /\ [Next]_vars => LedgerSound'
  BY LedgerKept
<1>3. LedgerSound => WithinAllocation
  BY DEF LedgerSound
<1>. QED
  BY <1>1, <1>2, <1>3, PTL DEF Spec

-----------------------------------------------------------------------------
(* The drain. *)

(* With the process its authority ends, and the file is what it was.       *)
LEMMA KilledDrain ==
    ASSUME DrainSound, Killed, UNCHANGED drained, pc' # "start"
    PROVE  DrainSound'
BY DEF DrainSound, Killed, Closed, GateType, Alive

(* While the broker runs and nothing but its threads acts, its gate moves  *)
(* from closed over active to draining and is never opened again.          *)
LEMMA BrokerKeepsDrain ==
    ASSUME DrainSound, BrokerStep, UNCHANGED runnerVars
    PROVE  DrainSound'
<1> USE DEF DrainSound, GateType, Alive
<1>0. drained' = drained /\ pc' = pc
  BY DEF runnerVars
<1>1. CASE \E t \in Thread : SnapshotBegins(t)
  BY <1>0, <1>1 DEF SnapshotBegins, gateVars, procVars
<1>2. CASE SnapshotEnds
  BY <1>0, <1>2 DEF SnapshotEnds, gateVars, procVars
<1>3. CASE WriteFails
  BY <1>0, <1>3 DEF WriteFails, Invalidate
<1>4. CASE \E r \in Request : Handler(r)
  <2> PICK r \in Request : Handler(r)
    BY <1>4
  <2>1. CASE Refuse(r)
    BY <1>0, <2>1 DEF Refuse, Invalidate, Owe, fileVars
  <2>2. CASE Admit(r) \/ Record(r)
    BY <1>0, <2>2 DEF Admit, Record, Owe, gateVars, procVars
  <2>3. CASE Send(r) \/ Release(r) \/ Price(r) \/ Retain(r)
    BY <1>0, <2>3 DEF Send, Release, Price, Retain, gateVars, procVars, fileVars
  <2>. QED
    BY <2>1, <2>2, <2>3 DEF Handler
<1>5. CASE Control
  <2>1. CASE ReadActivate
    BY <1>0, <2>1 DEF ReadActivate, Reject, Invalidate, Owe
  <2>2. CASE ReadDrain
    BY <1>0, <2>2 DEF ReadDrain, Reject, Invalidate, Owe
  <2>3. CASE ReadLateHeartbeat
    BY <1>0, <2>3 DEF ReadLateHeartbeat, Reject, Invalidate, Owe
  <2>4. CASE ReadEnd
    BY <1>0, <2>4 DEF ReadEnd, gateVars, fileVars
  <2>. QED
    BY <1>5, <2>1, <2>2, <2>3, <2>4 DEF Control
<1>6. CASE Watch
  BY <1>0, <1>6 DEF Watch, Invalidate, Owe
<1>7. CASE Stop
  BY <1>0, <1>7 DEF Stop, Invalidate, Owe
<1>8. CASE Exit \/ Crash
  <2>1. Alive /\ Killed
    BY <1>8 DEF Exit, Crash
  <2>. QED
    BY <1>0, <2>1, KilledDrain
<1>9. CASE Expire
  BY <1>0, <1>9 DEF Expire, procVars, fileVars
<1>. QED
  BY <1>1, <1>2, <1>3, <1>4, <1>5, <1>6, <1>7, <1>8, <1>9 DEF BrokerStep

(* The runner's steps leave the gate to the broker, but for its end, the   *)
(* start of the only broker and the probe's token.                         *)
LEMMA RunnerKeepsDrain ==
    ASSUME DrainSound, RunnerStep
    PROVE  DrainSound'
<1> DEFINE Idle == /\ UNCHANGED <<gate, file, proc>> /\ pc' # "start"
                   /\ drained' => drained
<1>1. ASSUME Idle PROVE DrainSound'
  BY <1>1 DEF DrainSound, GateType, Alive
<1>2. CASE Clean \/ Sweep
  BY <1>2, KilledDrain DEF Clean, Sweep, Phase, Final, runnerVars
<1>3. CASE StartSidecar
  BY <1>3 DEF StartSidecar, Phase, Owe, gateVars, DrainSound, GateType, Alive
<1>4. CASE Probe
  BY <1>4 DEF Probe, ConsumeProbe, Phase, Owe, procVars, DrainSound, GateType,
              Alive
<1>5. CASE Drained
  BY <1>5 DEF Drained, Phase, brokerVars, gateVars, fileVars, procVars,
              DrainSound, GateType, Alive
<1>6. CASE SidecarStarted \/ ProbeAnswered \/ MainDiscovered \/ Activate
             \/ Activated \/ CommandEnds
  BY <1>1, <1>6 DEF SidecarStarted, ProbeAnswered, MainDiscovered, Activate,
       Activated, CommandEnds, Phase, Engine, Local, brokerVars, gateVars,
       fileVars, procVars
<1>7. CASE RemoveContainers \/ RemovalFails \/ Drain \/ FinalLedger
             \/ ReadLedger
  BY <1>1, <1>7 DEF RemoveContainers, RemovalFails, Drain, FinalLedger,
       ReadLedger, Phase, Engine, brokerVars, gateVars, fileVars, procVars
<1>8. CASE CloseFailed \/ CloseValid \/ CleanFails
  BY <1>1, <1>8 DEF CloseFailed, CloseValid, ClosePipe, CleanFails, Phase,
       Engine, gateVars, fileVars, procVars
<1>9. CASE AccountFailure \/ AccountSuccess \/ MarkFailed \/ RunnerDies
  BY <1>1, <1>9 DEF AccountFailure, AccountSuccess, MarkFailed, RunnerDies,
       Phase, Engine, Local, brokerVars, gateVars, fileVars, procVars
<1>. QED
  BY <1>2, <1>3, <1>4, <1>5, <1>6, <1>7, <1>8, <1>9 DEF RunnerStep

(* Only a send forwards, and only while the broker is active.              *)
LEMMA ForwardedByTheActive ==
    ASSUME [Next]_vars
    PROVE  forwarded' = forwarded \/ (Alive /\ gate.active)
<1> DEFINE Same == forwarded' = forwarded
<1>1. CASE BrokerStep
  <2>1. CASE \E r \in Request : Handler(r)
    BY <2>1 DEF Handler, Admit, Send, Refuse, Release, Price, Retain, Record,
                Unlocked
  <2>2. CASE (\E t \in Thread : SnapshotBegins(t)) \/ SnapshotEnds \/ WriteFails
               \/ Exit \/ Crash
    BY <2>2 DEF SnapshotBegins, SnapshotEnds, WriteFails, Exit, Crash, Killed,
                askVars
  <2>3. CASE Control \/ Watch \/ Stop \/ Expire
    BY <2>3 DEF Control, ReadActivate, ReadDrain, ReadLateHeartbeat, ReadEnd,
                Watch, Stop, Expire, askVars
  <2>. QED
    BY <1>1, <2>1, <2>2, <2>3 DEF BrokerStep
<1>2. CASE RunnerStep
  <2>1. CASE StartSidecar \/ SidecarStarted \/ Probe \/ ProbeAnswered
               \/ MainDiscovered \/ Activate \/ Activated \/ CommandEnds
    BY <2>1 DEF StartSidecar, SidecarStarted, Probe, ConsumeProbe,
         ProbeAnswered, MainDiscovered, Activate, Activated, CommandEnds,
         Engine, Local, brokerVars, askVars
  <2>2. CASE RemoveContainers \/ RemovalFails \/ Drain \/ Drained
               \/ FinalLedger \/ ReadLedger
    BY <2>2 DEF RemoveContainers, RemovalFails, Drain, Drained, FinalLedger,
         ReadLedger, Engine, brokerVars, askVars
  <2>3. CASE CloseFailed \/ CloseValid \/ Clean \/ CleanFails \/ AccountFailure
               \/ AccountSuccess \/ MarkFailed \/ Sweep \/ RunnerDies
    BY <2>3 DEF CloseFailed, CloseValid, ClosePipe, Clean, CleanFails, Killed,
         AccountFailure, AccountSuccess, MarkFailed, Sweep, RunnerDies, Engine,
         Local, brokerVars, askVars
  <2>. QED
    BY <1>2, <2>1, <2>2, <2>3 DEF RunnerStep
<1>3. CASE UNCHANGED vars
  BY <1>3 DEF vars, brokerVars, askVars
<1>. QED
  BY <1>1, <1>2, <1>3 DEF Next

(* So the order of the drain is kept by every step.                        *)
LEMMA DrainStays ==
    ASSUME DrainSound, [Next]_vars
    PROVE  DrainSound'
<1>1. CASE RunnerStep
  BY <1>1, RunnerKeepsDrain
<1>2. CASE BrokerStep /\ UNCHANGED runnerVars
  BY <1>2, BrokerKeepsDrain
<1>3. CASE UNCHANGED vars
  BY <1>3 DEF vars, brokerVars, runnerVars, gateVars, fileVars, procVars,
              DrainSound, GateType, Alive
<1>. QED
  BY <1>1, <1>2, <1>3 DEF Next

(* What the runner saw in ledger.json holds of the broker from then on:    *)
(* nothing is forwarded after a drain that was seen, whatever requests     *)
(* were admitted before it and whatever fails.                             *)
THEOREM DrainEndsSpending == Spec => DrainIsFinal
<1>1. Init => DrainSound
  BY DEF Init, BrokerInit, Closed, NoFile, DrainSound, GateType, Alive
<1>2. DrainSound /\ [Next]_vars => DrainSound'
  BY DrainStays
<1>3. DrainSound /\ [Next]_vars => [drained => forwarded' = forwarded]_vars
  BY ForwardedByTheActive DEF DrainSound
<1>. QED
  BY <1>1, <1>2, <1>3, PTL DEF Spec, DrainIsFinal
-----------------------------------------------------------------------------
(* Types.  What is reserved stays a natural number because it is the sum   *)
(* of the reservations.                                                    *)

(* Amounts are natural numbers.                                            *)
LEMMA AmountsAreNat ==
    ASSUME TypeOK
    PROVE  /\ reservations \in [Request -> Nat] /\ worst \in [Request -> Nat]
           /\ charge \in [Request -> Nat] /\ cost \in Nat /\ reserved \in Nat
<1>1. Amounts \cup {0} \subseteq Nat /\ Charges \cup {0} \subseteq Nat
  BY LedgerAssumption
<1>. QED
  BY <1>1 DEF TypeOK, BrokerTypeOK, LedgerTypeOK

(* One reservation can be taken out of the sum of them all.                *)
LEMMA ReservationIsThere ==
    ASSUME TypeOK, BooksSound, NEW r \in Request
    PROVE  /\ reserved - reservations[r] \in Nat
           /\ reserved - reservations[r]
                = Total([reservations EXCEPT ![r] = 0], Request)
<1> DEFINE less == [reservations EXCEPT ![r] = 0]
<1>1. reservations \in [Request -> Nat] /\ less \in [Request -> Nat]
  BY AmountsAreNat
<1>2. /\ reservations \in [Request -> Int] /\ less \in [Request -> Int]
      /\ less[r] = 0 /\ \A q \in Request : q # r => less[q] = reservations[q]
  BY <1>1
<1>3. Total(less, Request) \in Nat
  BY <1>1, TotalNat
<1>4. Total(less, Request)
        = Total(reservations, Request) - reservations[r] + less[r]
  <2>. HIDE DEF less
  <2>. QED
    BY <1>2, TotalReplaced
<1>5. reserved = Total(reservations, Request)
  BY DEF BooksSound
<1>6. reserved \in Nat /\ reservations[r] \in Nat
  BY AmountsAreNat
<1>. QED
  BY <1>2, <1>3, <1>4, <1>5, <1>6

(* The end of the process leaves initial values.                           *)
LEMMA KilledTypes ==
    ASSUME BrokerTypeOK, Killed,
           pipe' = pipe, pipeOpen' \in BOOLEAN, beating' \in BOOLEAN,
           agent' \in BOOLEAN, faults' \in 0..FaultCap
    PROVE  BrokerTypeOK'
<1>1. gate' \in GateType
  BY DEF Killed, Closed, GateType
<1>2. LedgerTypeOK'
  BY DEF Killed, LedgerTypeOK
<1>3. stage' \in [Request -> Stage]
  BY DEF Killed, Stage
<1>4. /\ UNCHANGED <<worst, forwarded, charge>> /\ records' = {}
      /\ owes' = {} /\ writer' = NoThread /\ proc' = "dead"
      /\ reading' = FALSE /\ stopping' = FALSE /\ expired' = FALSE
  BY DEF Killed
<1>. QED
  BY <1>1, <1>2, <1>3, <1>4 DEF BrokerTypeOK

(* A request's handler.                                                    *)
LEMMA HandlerTypes ==
    ASSUME TypeOK, BooksSound, NEW r \in Request, Handler(r)
    PROVE  BrokerTypeOK'
<1> USE LedgerAssumption DEF TypeOK, BrokerTypeOK, LedgerTypeOK, Stage,
        procVars, parentVars
<1>0. reserved - reservations[r] \in Nat /\ r \in Thread
  BY ReservationIsThere DEF Thread
<1>1. CASE Admit(r)
  <2>1. PICK amount \in Amounts :
           Reserve(r, amount) /\ worst' = [worst EXCEPT ![r] = amount]
    BY <1>1 DEF Admit
  <2>2. /\ worst' \in [Request -> Amounts \cup {0}]
        /\ reservations' \in [Request -> Amounts \cup {0}]
        /\ reserved' \in Nat /\ UNCHANGED <<cost, fatal>>
    BY <2>1 DEF Reserve
  <2>. QED
    BY <1>0, <1>1, <2>2 DEF Admit, To, Owe, gateVars
<1>2. CASE Send(r)
  <2>1. PICK c \in IF gate.keyed THEN Charges ELSE {0} :
           charge' = [charge EXCEPT ![r] = c]
    BY <1>2 DEF Send
  <2>2. charge' \in [Request -> Charges \cup {0}]
    BY <2>1
  <2>. QED
    BY <1>0, <1>2, <2>2 DEF Send, To, ledgerVars, gateVars, fileVars
<1>3. CASE Refuse(r)
  <2>1. gate' \in GateType /\ stopping' \in BOOLEAN
    BY <1>3 DEF Refuse, Invalidate, GateType
  <2>2. owes' \subseteq Thread /\ writer' \in owes' \cup {NoThread}
    BY <1>0, <1>3 DEF Refuse, Owe, fileVars
  <2>. QED
    BY <1>3, <2>1, <2>2 DEF Refuse, To, ledgerVars, GateType
<1>4. CASE Release(r)
  BY <1>0, <1>4 DEF Release, ReleaseUnforwarded, Unreserve, To, gateVars,
                    fileVars
<1>5. CASE Price(r)
  <2>1. charge[r] \in Nat
    BY AmountsAreNat
  <2>2. /\ cost' \in Nat /\ fatal' \in BOOLEAN
        /\ reserved' = reserved - reservations[r]
        /\ reservations' = [reservations EXCEPT ![r] = 0]
    <3>1. Settle(r, charge[r])
      BY <1>5 DEF Price
    <3>2. cost' = cost \/ cost' = cost + charge[r]
      BY <3>1 DEF Settle
    <3>3. fatal' = fatal \/ fatal' = TRUE
      BY <3>1, Zenon DEF Settle
    <3>4. Unreserve(r)
      BY <3>1, Zenon DEF Settle
    <3>5. cost' \in Nat
      BY <2>1, <3>2
    <3>. QED
      BY <3>3, <3>4, <3>5 DEF Unreserve
  <2>3. reservations' \in [Request -> Amounts \cup {0}]
    BY <2>2
  <2>. QED
    BY <1>0, <1>5, <2>2, <2>3 DEF Price, To, gateVars, fileVars
<1>6. CASE Retain(r)
  BY <1>6 DEF Retain, RetainUnknown, To, gateVars, fileVars
<1>7. CASE Record(r)
  BY <1>0, <1>7 DEF Record, To, Owe, ledgerVars, gateVars
<1>. QED
  BY <1>1, <1>2, <1>3, <1>4, <1>5, <1>6, <1>7 DEF Handler

(* The other steps of the broker.                                          *)
LEMMA BrokerTypes ==
    ASSUME TypeOK, proc # "dead" => BooksSound, BrokerStep
    PROVE  BrokerTypeOK'
<1> USE DEF TypeOK, BrokerTypeOK, parentVars, askVars, gateVars, ledgerVars,
        LedgerTypeOK
<1>0. Main \in Thread /\ Reader \in Thread
  BY DEF Thread
<1>1. CASE \E t \in Thread : SnapshotBegins(t)
  BY <1>1 DEF SnapshotBegins, procVars
<1>2. CASE SnapshotEnds
  BY <1>2 DEF SnapshotEnds, procVars
<1>3. CASE WriteFails
  <2>1. gate' \in GateType /\ stopping' \in BOOLEAN /\ reading' \in BOOLEAN
    BY <1>3 DEF WriteFails, Invalidate, GateType
  <2>2. stage' \in [Request -> Stage]
    BY <1>3 DEF WriteFails, At, Stage
  <2>3. owes' \subseteq Thread /\ writer' \in owes' \cup {NoThread}
    BY <1>3 DEF WriteFails
  <2>4. faults' \in 0..FaultCap
    BY <1>3, BrokerAssumption DEF WriteFails
  <2>. QED
    BY <1>3, <2>1, <2>2, <2>3, <2>4 DEF WriteFails, GateType
<1>4. CASE \E r \in Request : Handler(r)
  <2>1. BooksSound
    BY <1>4 DEF Handler, Admit, Send, Refuse, Release, Price, Retain, Record,
                Unlocked, Alive
  <2>. QED
    BY <1>4, <2>1, HandlerTypes
<1>5. CASE Control
  <2>1. gate' \in GateType /\ stopping' \in BOOLEAN /\ reading' \in BOOLEAN
    BY <1>5 DEF Control, ReadActivate, ReadDrain, ReadLateHeartbeat, ReadEnd,
                Reject, Invalidate, GateType
  <2>2. owes' \subseteq Thread /\ writer' \in owes' \cup {NoThread}
    BY <1>0, <1>5 DEF Control, ReadActivate, ReadDrain, ReadLateHeartbeat,
                      ReadEnd, Reject, Owe, fileVars
  <2>3. /\ pipe' \in {"none", "activate", "drain"}
        /\ UNCHANGED <<pipeOpen, beating, agent, proc, faults, ledgerVars,
                       askVars, expired>>
    BY <1>5 DEF Control, ReadActivate, ReadDrain, ReadLateHeartbeat, ReadEnd
  <2>. QED
    BY <2>1, <2>2, <2>3 DEF GateType
<1>6. CASE Watch \/ Stop
  <2>1. gate' \in GateType /\ stopping' \in BOOLEAN
    BY <1>6 DEF Watch, Stop, Invalidate, GateType
  <2>. QED
    BY <1>0, <1>6, <2>1 DEF Watch, Stop, Owe, GateType
<1>7. CASE Exit \/ Crash
  <2>1. Killed /\ UNCHANGED parentVars /\ faults' \in 0..FaultCap
    BY <1>7, BrokerAssumption DEF Exit, Crash
  <2>. QED
    BY <2>1, KilledTypes
<1>8. CASE Expire
  BY <1>8 DEF Expire, procVars, fileVars
<1>. QED
  BY <1>1, <1>2, <1>3, <1>4, <1>5, <1>6, <1>7, <1>8 DEF BrokerStep

-----------------------------------------------------------------------------
(* The broker's books.  Most steps leave every sum alone; each of the      *)
(* others changes the entry of one request.                                *)

(* Whatever the provider took within its bounds is paid or still reserved. *)
LEMMA BooksCover ==
    ASSUME TypeOK, BooksSound, SpendSound, Bounded
    PROVE  Taken(Request) <= cost + reserved
<1>1. /\ reservations \in [Request -> Int] /\ charge \in [Request -> Int]
      /\ worst \in [Request -> Nat] /\ charge \in [Request -> Nat]
  BY AmountsAreNat
<1>2. Paid \in [Request -> Int]
  BY <1>1 DEF Paid
<1>3. ASSUME NEW q \in Request
      PROVE  Share(charge, Request, q)
               <= Share(Paid, Request, q) + Share(reservations, Request, q)
  <2>1. charge[q] \in Nat /\ worst[q] \in Nat
    BY <1>1
  <2>2. q \in forwarded => charge[q] <= worst[q]
    BY DEF Bounded
  <2>3. q \notin forwarded => charge[q] = 0
    BY DEF SpendSound
  <2>4. reservations[q] \in {0, worst[q]}
    BY DEF BooksSound, RequestSound
  <2>5. Paid[q] = IF q \in forwarded /\ reservations[q] = 0
                       /\ charge[q] <= worst[q] THEN charge[q] ELSE 0
    BY DEF Paid
  <2>. QED
    BY <2>1, <2>2, <2>3, <2>4, <2>5 DEF Share
<1>4. Total(charge, Request) <= Total(Paid, Request) + Total(reservations, Request)
  BY <1>1, <1>2, <1>3, TotalsCover
<1>. QED
  BY <1>4 DEF BooksSound, Taken

(* A step that touches no request, no price and no file.                   *)
BooksStay ==
    /\ UNCHANGED <<cost, reserved, reservations, askVars, writer, seen, file>>
    /\ owes \subseteq owes'

(* A step that touches no book keeps the broker's books in order.          *)
LEMMA StillBooks ==
    ASSUME BooksSound, BooksStay
    PROVE  BooksSound'
<1> USE DEF BooksStay, askVars
<1>1. Paid' = Paid /\ Counted' = Counted
  BY DEF Paid, Counted
<1>2. \A r \in Request : RequestSound(r)'
  BY DEF BooksSound, RequestSound
<1>3. CountSound'
  BY <1>1 DEF BooksSound, CountSound
<1>4. SnapshotSound'
  BY DEF BooksSound, SnapshotSound, Bounded, Taken
<1>5. cost' = Total(Paid, Request)' /\ reserved' = Total(reservations, Request)'
  BY <1>1 DEF BooksSound
<1>. QED
  BY <1>2, <1>3, <1>4, <1>5 DEF BooksSound

(* What the file vouches for and what was taken change only by a write or  *)
(* a send.                                                                 *)
LEMMA StillSpent ==
    ASSUME FileSound, SpendSound, UNCHANGED <<file, forwarded, charge>>,
           \A r \in forwarded : worst'[r] = worst[r]
    PROVE  FileSound' /\ SpendSound'
<1>1. Bounded' <=> Bounded
  BY DEF Bounded
<1>. QED
  BY <1>1 DEF FileSound, SpendSound, DocumentTyped, Vouches, Taken

(* The start of a snapshot: the cost that is read covers every finished    *)
(* request without a reservation.                                          *)
LEMMA SnapshotBeginsBooks ==
    ASSUME TypeOK, BooksSound, SpendSound, NEW t \in Thread, SnapshotBegins(t)
    PROVE  BooksSound'
<1> USE DEF SnapshotBegins, ledgerVars, askVars
<1>1. Paid' = Paid /\ Counted' = Counted
  BY DEF Paid, Counted
<1>2. \A r \in Request : RequestSound(r)'
  BY DEF BooksSound, RequestSound
<1>3. CountSound'
  BY <1>1 DEF BooksSound, CountSound
<1>4. SnapshotSound'
  <2> DEFINE R == {r \in records : reservations[r] = 0}
  <2>1. /\ charge \in [Request -> Int] /\ charge \in [Request -> Nat]
        /\ worst \in [Request -> Nat] /\ cost \in Nat
    BY AmountsAreNat
  <2>2. Paid \in [Request -> Int]
    BY <2>1 DEF Paid
  <2>3. ASSUME Bounded, NEW q \in Request
        PROVE  Share(charge, R, q) <= Share(Paid, Request, q)
    <3>1. Paid[q] = IF q \in forwarded /\ reservations[q] = 0
                         /\ charge[q] <= worst[q] THEN charge[q] ELSE 0
      BY DEF Paid
    <3>2. charge[q] \in Nat /\ Paid[q] \in Nat
      BY <2>1, <3>1
    <3>3. q \in R => charge[q] = Paid[q]
      BY <2>3, <3>1 DEF Bounded, SpendSound
    <3>. QED
      BY <3>2, <3>3 DEF Share
  <2>4. Bounded => Total(charge, R) <= Total(Paid, Request)
    BY <2>1, <2>2, <2>3, TotalGrows
  <2>5. seen'.cost = cost /\ cost = Total(Paid, Request)
    BY DEF BooksSound
  <2>. QED
    BY <2>1, <2>4, <2>5 DEF SnapshotSound, Bounded, Taken
<1>5. cost' = Total(Paid, Request)' /\ reserved' = Total(reservations, Request)'
  BY <1>1 DEF BooksSound
<1>. QED
  BY <1>2, <1>3, <1>4, <1>5 DEF BooksSound

(* Ordinals up to the number of requests so far.                           *)
LEMMA CountedUpTo ==
    ASSUME CountSound
    PROVE  /\ Cardinality(Counted) \in 0..MaxRequests
           /\ Counted = 1..Cardinality(Counted)
<1>1. PICK n \in 0..MaxRequests : Counted = 1..n
  BY DEF CountSound
<1>2. Cardinality(1..n) = n
  BY FS_Interval, LedgerAssumption
<1>. QED
  BY <1>1, <1>2

(* The end of a snapshot: the file covers all finished requests, by the    *)
(* cost that was read first or by the reservations that were read last.    *)
LEMMA SnapshotEndsBooks ==
    ASSUME TypeOK, BooksSound, FileSound, SpendSound, SnapshotEnds
    PROVE  BooksSound' /\ FileSound' /\ SpendSound'
<1> USE DEF SnapshotEnds, ledgerVars, askVars
<1> DEFINE n == Cardinality(Counted)
<1>1. Paid' = Paid /\ Counted' = Counted /\ (Bounded' <=> Bounded)
  BY DEF Paid, Counted, Bounded
<1>2. n \in 0..MaxRequests /\ Counted = 1..n
  BY CountedUpTo DEF BooksSound
<1>3. /\ file'.count = n /\ file'.records = records
      /\ file'.cost = seen.cost /\ file'.reserved = reserved
  OBVIOUS
<1>4. forwarded \subseteq Counted /\ records \subseteq Counted
  BY DEF BooksSound, RequestSound, Counted, TypeOK, BrokerTypeOK
<1>5. BooksSound'
  <2>1. \A r \in Request : RequestSound(r)'
    BY DEF BooksSound, RequestSound
  <2>2. CountSound'
    <3>1. \A r \in Request : r <= n \/ stage[r] = "idle"
      BY <1>2 DEF Counted, Request
    <3>. HIDE DEF n
    <3>2. /\ Counted' = Counted /\ stage' = stage /\ records' = records
          /\ file'.count = n /\ file'.records = records
      BY <1>1, <1>3
    <3>3. file'.count <= n /\ file'.count <= Cardinality(Counted')
      BY <1>2, <3>2 DEF n
    <3>. QED
      BY <1>2, <3>1, <3>2, <3>3 DEF CountSound
  <2>3. SnapshotSound'
    BY DEF SnapshotSound, Unread
  <2>4. cost' = Total(Paid, Request)' /\ reserved' = Total(reservations, Request)'
    BY <1>1 DEF BooksSound
  <2>. QED
    BY <2>1, <2>2, <2>3, <2>4 DEF BooksSound
<1>6. FileSound'
  <2> DEFINE R == {r \in records : reservations[r] = 0}
  <2>1. DocumentTyped(file)'
    <3>1. seen.cost \in Nat /\ reserved \in Nat
      BY AmountsAreNat DEF BooksSound, SnapshotSound
    <3>. QED
      BY <1>2, <1>3, <1>4, <3>1 DEF DocumentTyped
  <2>2. forwarded' \subseteq 1..file'.count
    BY <1>2, <1>3, <1>4
  <2>3. ASSUME Bounded PROVE Total(charge, records) <= seen.cost + reserved
    <3>1. /\ charge \in [Request -> Int] /\ charge \in [Request -> Nat]
          /\ worst \in [Request -> Nat] /\ reservations \in [Request -> Int]
      BY AmountsAreNat
    <3>2. ASSUME NEW q \in Request
          PROVE  Share(charge, records, q)
                   <= Share(charge, R, q) + Share(reservations, Request, q)
      <4>1. charge[q] \in Nat /\ worst[q] \in Nat
        BY <3>1
      <4>2. reservations[q] \in {0, worst[q]}
        BY DEF BooksSound, RequestSound
      <4>3. charge[q] <= worst[q]
        BY <2>3, <4>1 DEF Bounded, SpendSound
      <4>. QED
        BY <4>1, <4>2, <4>3 DEF Share
    <3>3. Total(charge, records)
            <= Total(charge, R) + Total(reservations, Request)
      <4>. HIDE DEF R
      <4>. QED
        BY <3>1, <3>2, TotalsCover
    <3>4. Total(charge, R) <= seen.cost
      BY <2>3 DEF BooksSound, SnapshotSound, Taken
    <3>5. reserved = Total(reservations, Request) /\ reserved \in Nat
      BY AmountsAreNat DEF BooksSound
    <3>6. /\ Total(charge, R) \in Int /\ Total(charge, records) \in Int
          /\ seen.cost \in Int
      <4>1. \A S : Total(charge, S) \in Nat
        BY <3>1, TotalNat
      <4>. QED
        BY <4>1 DEF BooksSound, SnapshotSound
    <3>. QED
      BY <3>3, <3>4, <3>5, <3>6
  <2>4. Bounded' => Vouches(file, file.records)'
    BY <1>1, <1>3, <2>3 DEF Vouches, Taken
  <2>. QED
    BY <2>1, <2>2, <2>4 DEF FileSound
<1>7. SpendSound'
  BY <1>1 DEF SpendSound, Taken
<1>. QED
  BY <1>5, <1>6, <1>7

(* A step of one request leaves the others' entries as they were.          *)
OthersAlone(r) ==
    \A q \in Request : q # r =>
        /\ stage'[q] = stage[q] /\ worst'[q] = worst[q]
        /\ reservations'[q] = reservations[q]
        /\ q \in forwarded' <=> q \in forwarded
        /\ q \in records' <=> q \in records

(* When one request moves, what is known of every other request still      *)
(* holds of it.                                                            *)
LEMMA OthersSound ==
    ASSUME BooksSound, NEW r \in Request, OthersAlone(r), RequestSound(r)'
    PROVE  \A q \in Request : RequestSound(q)'
BY DEF BooksSound, RequestSound, OthersAlone

(* A request the file counts stays counted by it.                          *)
LEMMA StillCounted ==
    ASSUME BooksSound, NEW r \in Request, OthersAlone(r), UNCHANGED file,
           owes \subseteq owes', records \subseteq records',
           stage[r] # "idle", stage'[r] # "idle", r <= file.count
    PROVE  CountSound'
<1>1. Counted' = Counted
  BY DEF Counted, OthersAlone
<1>. QED
  BY <1>1 DEF BooksSound, CountSound, OthersAlone

(* A request that was handled past the write of the file is counted by it. *)
LEMMA HandledIsCounted ==
    ASSUME BooksSound, NEW r \in Request,
           Noted(r) \/ stage[r] \in {"refused", "sent", "settled", "retained",
                                     "released"}
    PROVE  r <= file.count /\ stage[r] # "idle"
BY DEF BooksSound, CountSound, Noted, At

(* Outside of a snapshot there is nothing to be kept about one.            *)
LEMMA NoSnapshot ==
    ASSUME BooksSound, writer = NoThread, UNCHANGED <<writer, seen>>
    PROVE  SnapshotSound'
BY DEF BooksSound, SnapshotSound

(* During one, requests that are not finished may settle.                  *)
LEMMA SnapshotGoesOn ==
    ASSUME TypeOK, BooksSound, NEW r \in Request, OthersAlone(r),
           r \notin records, UNCHANGED <<records, writer, seen, charge, worst, forwarded>>
    PROVE  SnapshotSound'
<1>1. {q \in records' : reservations'[q] = 0}
        = {q \in records : reservations[q] = 0}
  BY DEF OthersAlone, TypeOK, BrokerTypeOK
<1>2. Bounded' <=> Bounded
  BY DEF Bounded
<1>3. Taken({q \in records : reservations[q] = 0})'
        = Taken({q \in records : reservations[q] = 0})
  BY <1>1 DEF Taken
<1>. QED
  BY <1>2, <1>3 DEF BooksSound, SnapshotSound

(* A new request.                                                          *)
LEMMA AdmitBooks ==
    ASSUME TypeOK, BooksSound, FileSound, NEW r \in Request, Admit(r)
    PROVE  BooksSound' /\ UNCHANGED <<file, forwarded, charge>>
             /\ \A q \in forwarded : worst'[q] = worst[q]
<1> DEFINE n == Cardinality(Counted)
<1>1. PICK amount \in Amounts :
         Reserve(r, amount) /\ worst' = [worst EXCEPT ![r] = amount]
  BY DEF Admit
<1>2. n \in 0..MaxRequests /\ Counted = 1..n /\ r = n + 1
  BY CountedUpTo DEF BooksSound, Admit
<1>. HIDE DEF n
<1>3. stage[r] = "idle"
  <2>1. r \notin Counted
    BY <1>2
  <2>. QED
    BY <2>1 DEF Counted
<1>4. r \notin forwarded /\ r \notin records /\ reservations[r] = 0
  BY <1>3 DEF BooksSound, RequestSound
<1>5. amount \in Nat \ {0}
  BY LedgerAssumption
<1>6. /\ reservations \in [Request -> Int] /\ reservations' \in [Request -> Int]
      /\ reservations' = [reservations EXCEPT ![r] = amount]
      /\ reserved' = reserved + amount /\ cost' = cost
      /\ stage' = [stage EXCEPT ![r] = "admitted"]
      /\ stage \in [Request -> Stage]
      /\ worst \in [Request -> Nat] /\ reserved \in Nat
  <2>1. reservations \in [Request -> Nat] /\ worst \in [Request -> Nat]
          /\ reserved \in Nat
    BY AmountsAreNat
  <2>2. stage \in [Request -> Stage]
    BY DEF TypeOK, BrokerTypeOK
  <2>3. /\ reservations' = [reservations EXCEPT ![r] = amount]
        /\ reserved' = reserved + amount /\ cost' = cost
    BY <1>1 DEF Reserve
  <2>4. reservations \in [Request -> Int] /\ reservations' \in [Request -> Int]
    BY <1>5, <2>1, <2>3
  <2>5. stage' = [stage EXCEPT ![r] = "admitted"]
    BY DEF Admit, To
  <2>. QED
    BY <2>1, <2>2, <2>3, <2>4, <2>5
<1>7. UNCHANGED <<file, forwarded, charge, records, writer, seen>>
        /\ owes' = owes \cup {r} /\ writer = NoThread
  BY DEF Admit, Owe, Unlocked
<1>8. OthersAlone(r)
  BY <1>1, <1>6, <1>7 DEF OthersAlone
<1>9. /\ stage'[r] = "admitted" /\ worst'[r] = amount
      /\ reservations'[r] = amount
  BY <1>1, <1>6
<1>10. \A q \in Request : RequestSound(q)'
  <2>1. RequestSound(r)'
    BY <1>4, <1>5, <1>7, <1>9 DEF RequestSound
  <2>. QED
    BY <1>8, <2>1, OthersSound
<1>11. CountSound'
  <2>1. Counted' = 1..(n + 1)
    <3>1. Counted' = Counted \cup {r}
      BY <1>3, <1>8, <1>9 DEF Counted, OthersAlone
    <3>. QED
      BY <1>2, <3>1
  <2>2. n + 1 \in 0..MaxRequests
    BY <1>2, LedgerAssumption DEF Request
  <2>3. Cardinality(1..(n + 1)) = n + 1
    BY <1>2, FS_Interval, LedgerAssumption
  <2>4. file'.count <= n + 1
    <3>1. file.count <= n /\ file'.count = file.count
      BY <1>7 DEF BooksSound, CountSound, n
    <3>2. file.count \in 0..MaxRequests
      BY DEF FileSound, DocumentTyped
    <3>. QED
      BY <1>2, <3>1, <3>2
  <2>5. \A q \in Request : \/ q <= file'.count \/ stage'[q] \in {"idle", "stuck"}
                           \/ stage'[q] = "admitted" /\ q \in owes'
    BY <1>7, <1>8, <1>9 DEF BooksSound, CountSound, OthersAlone
  <2>6. file'.records \subseteq records'
    BY <1>7 DEF BooksSound, CountSound
  <2>. QED
    BY <2>1, <2>2, <2>3, <2>4, <2>5, <2>6 DEF CountSound
<1>12. SnapshotSound'
  BY <1>7, NoSnapshot
<1>13. cost' = Total(Paid, Request)'
  <2>1. Paid' = Paid
    BY <1>4, <1>7, <1>8 DEF Paid, OthersAlone
  <2>. QED
    BY <1>6, <2>1 DEF BooksSound
<1>14. reserved' = Total(reservations, Request)'
  <2>1. Total(reservations', Request) = Total(reservations, Request) - 0 + amount
    <3>1. \A q \in Request : q # r => reservations'[q] = reservations[q]
      BY <1>8 DEF OthersAlone
    <3>2. Total(reservations', Request)
            = Total(reservations, Request) - reservations[r] + reservations'[r]
      <4>1. /\ reservations \in [Request -> Int]
            /\ reservations' \in [Request -> Int]
        BY <1>6
      <4>. QED
        BY <3>1, <4>1, TotalReplaced
    <3>3. reserved = Total(reservations, Request)
      BY DEF BooksSound
    <3>. QED
      BY <1>4, <1>5, <1>6, <1>9, <3>2, <3>3
  <2>. QED
    BY <1>5, <1>6, <2>1 DEF BooksSound
<1>. QED
  BY <1>1, <1>4, <1>6, <1>7, <1>10, <1>11, <1>12, <1>13, <1>14, <1>8
  DEF BooksSound, OthersAlone, TypeOK, BrokerTypeOK

(* A request is only sent while its whole reservation is held.             *)
LEMMA SendBooks ==
    ASSUME TypeOK, BooksSound, FileSound, SpendSound, WithinAllocation,
           NEW r \in Request, Send(r), TypeOK'
    PROVE  BooksSound' /\ FileSound' /\ SpendSound'
<1>1. PICK c : charge' = [charge EXCEPT ![r] = c]
  BY DEF Send
<1>2. /\ stage[r] = "admitted" /\ r \notin forwarded /\ r \notin records
      /\ reservations[r] = worst[r] /\ worst[r] > 0
  BY DEF Send, Noted, At, BooksSound, RequestSound
<1>3. r <= file.count /\ r \in 1..file.count
  BY HandledIsCounted DEF Send, Request, FileSound, DocumentTyped
<1>4. /\ UNCHANGED <<cost, reserved, reservations, fatal, worst, records, owes,
                     writer, seen, file>>
      /\ writer = NoThread /\ forwarded' = forwarded \cup {r}
  BY DEF Send, ledgerVars, fileVars, Unlocked
<1>5. /\ charge \in [Request -> Nat] /\ charge' \in [Request -> Nat]
      /\ reservations \in [Request -> Nat] /\ worst \in [Request -> Nat]
  <2>1. charge' \in [Request -> Nat]
    <3>1. Charges \cup {0} \subseteq Nat
      BY LedgerAssumption
    <3>. QED
      BY <3>1 DEF TypeOK, BrokerTypeOK
  <2>. QED
    BY <2>1, AmountsAreNat
<1>6. stage' = [stage EXCEPT ![r] = "sent"] /\ stage \in [Request -> Stage]
  BY DEF Send, To, TypeOK, BrokerTypeOK
<1>7. OthersAlone(r) /\ stage'[r] = "sent"
  BY <1>4, <1>6 DEF OthersAlone
<1>8. \A q \in Request : q # r => charge'[q] = charge[q]
  BY <1>1, <1>5
<1>9. Bounded' => Bounded
  BY <1>2, <1>4, <1>8 DEF Bounded, TypeOK, BrokerTypeOK
<1>10. BooksSound'
  <2>1. RequestSound(r)'
    BY <1>2, <1>4, <1>7 DEF RequestSound
  <2>2. \A q \in Request : RequestSound(q)'
    BY <1>7, <2>1, OthersSound
  <2>3. CountSound'
    BY <1>2, <1>3, <1>4, <1>7, StillCounted
  <2>4. SnapshotSound'
    BY <1>4, NoSnapshot
  <2>5. Paid' = Paid
    BY <1>2, <1>4, <1>8 DEF Paid
  <2>. QED
    BY <1>4, <2>2, <2>3, <2>4, <2>5 DEF BooksSound
<1>11. FileSound'
  <2>1. forwarded' \subseteq 1..file'.count
    BY <1>3, <1>4 DEF FileSound
  <2>2. DocumentTyped(file)'
    BY <1>4 DEF FileSound, DocumentTyped
  <2>3. Total(charge', file.records) = Total(charge, file.records)
    <3>1. r \notin file.records
      BY <1>2 DEF BooksSound, CountSound
    <3>2. \A q \in Request :
             Share(charge', file.records, q) = Share(charge, file.records, q)
      BY <1>8, <3>1 DEF Share
    <3>3. charge \in [Request -> Int] /\ charge' \in [Request -> Int]
      BY <1>5
    <3>. QED
      BY <3>2, <3>3, TotalSame
  <2>4. Bounded' => Vouches(file, file.records)'
    BY <1>4, <1>9, <2>3 DEF FileSound, Vouches, Taken
  <2>. QED
    BY <2>1, <2>2, <2>4 DEF FileSound
<1>12. SpendSound'
  <2>1. \A q \in Request : q \notin forwarded' => charge'[q] = 0
    BY <1>4, <1>8 DEF SpendSound
  <2>2. ASSUME Bounded' PROVE Total(charge', Request) <= cost + reserved
    <3>1. Paid' \in [Request -> Int] /\ charge' \in [Request -> Int]
            /\ reservations \in [Request -> Int]
      BY <1>5 DEF Paid
    <3>2. ASSUME NEW q \in Request
          PROVE  Share(charge', Request, q)
                   <= Share(Paid', Request, q) + Share(reservations, Request, q)
      <4>1. /\ charge'[q] \in Nat /\ worst[q] \in Nat /\ reservations[q] \in Nat
            /\ worst'[q] = worst[q] /\ reservations'[q] = reservations[q]
        BY <1>4, <1>5
      <4>2. q \in forwarded' => charge'[q] <= worst[q]
        BY <2>2, <4>1 DEF Bounded
      <4>3. q \notin forwarded' => charge'[q] = 0
        BY <2>1
      <4>4. reservations'[q] \in {0, worst'[q]}
        BY <1>10 DEF BooksSound, RequestSound
      <4>5. Paid'[q] = IF q \in forwarded' /\ reservations'[q] = 0
                            /\ charge'[q] <= worst'[q] THEN charge'[q] ELSE 0
        BY DEF Paid
      <4>. QED
        BY <4>1, <4>2, <4>3, <4>4, <4>5 DEF Share
    <3>3. Total(charge', Request)
            <= Total(Paid', Request) + Total(reservations, Request)
      BY <1>5, <3>1, <3>2, TotalsCover
    <3>4. /\ cost = Total(Paid', Request)
          /\ reserved = Total(reservations, Request)
      BY <1>4, <1>10 DEF BooksSound
    <3>. QED
      BY <3>3, <3>4
  <2>3. ASSUME Bounded' PROVE Total(charge', Request) <= Allocation
    <3>1. Total(charge', Request) \in Nat
      BY <1>5, TotalNat
    <3>2. cost \in Nat /\ reserved \in Nat
      BY AmountsAreNat
    <3>. QED
      BY <2>2, <2>3, <3>1, <3>2, LedgerAssumption DEF WithinAllocation
  <2>. QED
    BY <2>1, <2>3 DEF SpendSound, Taken
<1>. QED
  BY <1>10, <1>11, <1>12

(* A request that is refused, given back or recorded changes no sum but    *)
(* that of the reservations; one that is kept changes none.                *)
LEMMA RefuseBooks ==
    ASSUME TypeOK, BooksSound, NEW r \in Request, Refuse(r)
    PROVE  BooksSound' /\ UNCHANGED <<file, forwarded, charge, worst>>
<1>1. /\ stage' = [stage EXCEPT ![r] = "refused"] /\ stage[r] = "admitted"
      /\ stage \in [Request -> Stage]
  BY DEF Refuse, To, Noted, At, TypeOK, BrokerTypeOK
<1>2. /\ UNCHANGED <<cost, reserved, reservations, fatal, worst, forwarded,
                     charge, records, writer, seen, file>>
      /\ owes \subseteq owes' /\ writer = NoThread
  BY DEF Refuse, ledgerVars, fileVars, Owe, Unlocked
<1>3. OthersAlone(r) /\ stage'[r] = "refused"
  BY <1>1, <1>2 DEF OthersAlone
<1>4. RequestSound(r)'
  BY <1>1, <1>2, <1>3 DEF BooksSound, RequestSound
<1>5. \A q \in Request : RequestSound(q)'
  BY <1>3, <1>4, OthersSound
<1>6. r <= file.count /\ stage[r] # "idle"
  BY HandledIsCounted DEF Refuse
<1>7. CountSound'
  BY <1>2, <1>3, <1>6, StillCounted
<1>8. SnapshotSound'
  BY <1>2, NoSnapshot
<1>9. Paid' = Paid
  BY <1>2 DEF Paid
<1>. QED
  BY <1>2, <1>5, <1>7, <1>8, <1>9 DEF BooksSound

(* retain_unknown (the reservation of a sent request is kept) leaves the   *)
(* books in order: the sums do not move, only the request's stage does.    *)
LEMMA RetainBooks ==
    ASSUME TypeOK, BooksSound, NEW r \in Request, Retain(r)
    PROVE  BooksSound' /\ UNCHANGED <<file, forwarded, charge, worst>>
<1>1. /\ stage' = [stage EXCEPT ![r] = "retained"] /\ stage[r] = "sent"
      /\ stage \in [Request -> Stage]
  BY DEF Retain, To, At, TypeOK, BrokerTypeOK
<1>2. UNCHANGED <<cost, reserved, reservations, worst, forwarded, charge,
                  records, owes, writer, seen, file>>
  BY DEF Retain, RetainUnknown, fileVars
<1>3. OthersAlone(r) /\ stage'[r] = "retained"
  BY <1>1, <1>2 DEF OthersAlone
<1>4. RequestSound(r)' /\ r \notin records
  BY <1>1, <1>2, <1>3 DEF BooksSound, RequestSound
<1>5. \A q \in Request : RequestSound(q)'
  BY <1>3, <1>4, OthersSound
<1>6. r <= file.count
  BY <1>1, HandledIsCounted
<1>7. CountSound'
  BY <1>1, <1>2, <1>3, <1>6, StillCounted
<1>8. SnapshotSound'
  BY <1>2, <1>3, <1>4, SnapshotGoesOn
<1>9. Paid' = Paid
  BY <1>2 DEF Paid
<1>. QED
  BY <1>2, <1>5, <1>7, <1>8, <1>9 DEF BooksSound

(* Writing a request's row keeps the books in order: the row is added, the *)
(* money was settled, kept or given back before.                           *)
LEMMA RecordBooks ==
    ASSUME TypeOK, BooksSound, NEW r \in Request, Record(r)
    PROVE  BooksSound' /\ UNCHANGED <<file, forwarded, charge, worst>>
<1>1. /\ stage' = [stage EXCEPT ![r] = "recorded"]
      /\ stage[r] \in {"settled", "retained", "released"}
      /\ stage \in [Request -> Stage]
  BY DEF Record, To, TypeOK, BrokerTypeOK
<1>2. /\ UNCHANGED <<cost, reserved, reservations, worst, forwarded, charge,
                     writer, seen, file>>
      /\ records' = records \cup {r}
      /\ owes \subseteq owes' /\ writer = NoThread
  BY DEF Record, ledgerVars, Owe, Unlocked
<1>3. OthersAlone(r) /\ stage'[r] = "recorded"
  BY <1>1, <1>2 DEF OthersAlone
<1>4. RequestSound(r)'
  BY <1>1, <1>2, <1>3 DEF BooksSound, RequestSound
<1>5. \A q \in Request : RequestSound(q)'
  BY <1>3, <1>4, OthersSound
<1>6. r <= file.count /\ stage[r] # "idle"
  BY <1>1, HandledIsCounted
<1>7. CountSound'
  BY <1>2, <1>3, <1>6, StillCounted
<1>8. SnapshotSound'
  BY <1>2, NoSnapshot
<1>9. Paid' = Paid
  BY <1>2 DEF Paid
<1>. QED
  BY <1>2, <1>5, <1>7, <1>8, <1>9 DEF BooksSound

(* release_unforwarded gives back the whole reservation: the reserved sum  *)
(* falls by exactly the request's amount.                                  *)
LEMMA ReleaseBooks ==
    ASSUME TypeOK, BooksSound, NEW r \in Request, Release(r)
    PROVE  BooksSound' /\ UNCHANGED <<file, forwarded, charge, worst>>
<1>1. /\ stage' = [stage EXCEPT ![r] = "released"]
      /\ stage[r] \in {"admitted", "refused"} /\ stage \in [Request -> Stage]
  BY DEF Release, To, Noted, At, TypeOK, BrokerTypeOK
<1>2. /\ UNCHANGED <<cost, worst, forwarded, charge, records, owes, writer, seen,
                     file>>
      /\ reserved' = reserved - reservations[r]
      /\ reservations' = [reservations EXCEPT ![r] = 0]
  BY DEF Release, ReleaseUnforwarded, Unreserve, fileVars
<1>3. reservations \in [Request -> Nat]
  BY AmountsAreNat
<1>4. OthersAlone(r) /\ stage'[r] = "released" /\ reservations'[r] = 0
  BY <1>1, <1>2, <1>3 DEF OthersAlone
<1>5. RequestSound(r)' /\ r \notin records /\ r \notin forwarded
  BY <1>1, <1>2, <1>4 DEF BooksSound, RequestSound
<1>6. \A q \in Request : RequestSound(q)'
  BY <1>4, <1>5, OthersSound
<1>7. r <= file.count /\ stage[r] # "idle"
  <2>1. Noted(r) \/ stage[r] = "refused"
    BY DEF Release, At
  <2>. QED
    BY <2>1, HandledIsCounted
<1>8. CountSound'
  BY <1>2, <1>4, <1>7, StillCounted
<1>9. SnapshotSound'
  BY <1>2, <1>4, <1>5, SnapshotGoesOn
<1>10. Paid' = Paid
  BY <1>2, <1>4, <1>5 DEF Paid, OthersAlone
<1>11. reserved' = Total(reservations, Request)'
  BY <1>2, ReservationIsThere
<1>. QED
  BY <1>2, <1>6, <1>8, <1>9, <1>10, <1>11 DEF BooksSound

(* A price replaces the reservation: it enters the cost if and only if it  *)
(* is not above it, since the sums were within the allocation.             *)
LEMMA PriceBooks ==
    ASSUME TypeOK, BooksSound, SpendSound, WithinAllocation,
           NEW r \in Request, Price(r)
    PROVE  BooksSound' /\ UNCHANGED <<file, forwarded, charge, worst>>
<1>1. /\ stage' = [stage EXCEPT ![r] = "settled"] /\ stage[r] = "sent"
      /\ stage \in [Request -> Stage]
  BY DEF Price, To, At, TypeOK, BrokerTypeOK
<1>2. /\ UNCHANGED <<worst, forwarded, charge, records, owes, writer, seen, file>>
      /\ reserved' = reserved - reservations[r]
      /\ reservations' = [reservations EXCEPT ![r] = 0]
  <2>1. Unreserve(r)
    BY Zenon DEF Price, Settle
  <2>. QED
    BY <2>1 DEF Price, Unreserve, fileVars
<1>3. /\ reservations \in [Request -> Nat] /\ charge \in [Request -> Nat]
      /\ worst \in [Request -> Nat] /\ cost \in Nat /\ reserved \in Nat
  BY AmountsAreNat
<1>4. OthersAlone(r) /\ stage'[r] = "settled" /\ reservations'[r] = 0
  BY <1>1, <1>2, <1>3 DEF OthersAlone
<1>5. /\ r \notin records /\ reservations[r] = worst[r] /\ worst[r] > 0
  BY <1>1 DEF BooksSound, RequestSound
<1>6. RequestSound(r)'
  BY <1>1, <1>2, <1>4, <1>5 DEF RequestSound
<1>7. \A q \in Request : RequestSound(q)'
  BY <1>4, <1>6, OthersSound
<1>8. r <= file.count
  BY <1>1, HandledIsCounted
<1>9. CountSound'
  BY <1>1, <1>2, <1>4, <1>8, StillCounted
<1>10. SnapshotSound'
  BY <1>2, <1>4, <1>5, SnapshotGoesOn
<1>11. reserved' = Total(reservations, Request)'
  BY <1>2, ReservationIsThere
<1>12. cost' = Total(Paid, Request)'
  <2>1. /\ charge[r] \in Nat /\ reservations[r] \in Nat
    BY <1>3
  <2>2. cost' = IF charge[r] <= reservations[r] THEN cost + charge[r] ELSE cost
    <3>1. cost' = IF charge[r] <= reservations[r]
                       /\ cost + reserved - reservations[r] + charge[r] <= Allocation
                  THEN cost + charge[r] ELSE cost
      BY DEF Price, Settle
    <3>2. charge[r] <= reservations[r] =>
             cost + reserved - reservations[r] + charge[r] <= Allocation
      BY <1>3, <2>1, LedgerAssumption DEF WithinAllocation
    <3>. QED
      BY <3>1, <3>2
  <2>3. Paid \in [Request -> Int] /\ Paid' \in [Request -> Int]
    BY <1>2, <1>3 DEF Paid
  <2>4. \A q \in Request : q # r => Paid'[q] = Paid[q]
    BY <1>2, <1>4 DEF Paid, OthersAlone
  <2>5. Total(Paid', Request) = Total(Paid, Request) - Paid[r] + Paid'[r]
    BY <2>3, <2>4, TotalReplaced
  <2>6. r \in forwarded \/ charge[r] = 0
    BY DEF SpendSound
  <2>7. /\ Paid[r] = 0
        /\ Paid'[r] = IF r \in forwarded /\ charge[r] <= worst[r]
                      THEN charge[r] ELSE 0
    BY <1>2, <1>3, <1>4, <1>5 DEF Paid
  <2>8. cost = Total(Paid, Request)
    BY DEF BooksSound
  <2>. QED
    BY <1>3, <1>5, <2>1, <2>2, <2>5, <2>6, <2>7, <2>8
<1>. QED
  BY <1>7, <1>9, <1>10, <1>11, <1>12, <1>2 DEF BooksSound

(* A write that fails leaves a request that was not sent, with all that    *)
(* was reserved for it.                                                    *)
LEMMA WriteFailsBooks ==
    ASSUME TypeOK, BooksSound, WriteFails
    PROVE  BooksSound' /\ UNCHANGED <<file, forwarded, charge, worst>>
<1>1. /\ UNCHANGED <<cost, reserved, reservations, worst, forwarded, charge,
                     records, file>>
      /\ writer' = NoThread /\ seen' = Unread
  BY DEF WriteFails, ledgerVars
<1>2. \A r \in Request :
         \/ stage'[r] = stage[r] /\ (r \in owes => r \in owes' \/ stage[r] # "admitted")
         \/ stage[r] = "admitted" /\ stage'[r] = "stuck"
  BY DEF WriteFails, At
<1>3. \A r \in Request : RequestSound(r)'
  BY <1>1, <1>2 DEF BooksSound, RequestSound
<1>4. CountSound'
  <2>1. Counted' = Counted
    BY <1>2 DEF Counted
  <2>. QED
    BY <1>1, <1>2, <2>1 DEF BooksSound, CountSound
<1>5. SnapshotSound'
  BY <1>1 DEF SnapshotSound, Unread
<1>6. Paid' = Paid
  BY <1>1 DEF Paid
<1>. QED
  BY <1>1, <1>3, <1>4, <1>5, <1>6 DEF BooksSound

(* Every step of the broker's threads and of the runner that leaves the    *)
(* broker its memory is one of these.                                      *)
BrokerDeed ==
    \/ \E t \in Thread : SnapshotBegins(t)
    \/ SnapshotEnds \/ WriteFails
    \/ \E r \in Request : Handler(r)

SilentDeed ==
    /\ BooksStay /\ UNCHANGED fatal
    /\ proc = "dead" => proc' = "dead"

(* Every step is a kill, a step that leaves the books alone, or a step of  *)
(* a broker that is not dead: the three cases of the proof about money.    *)
LEMMA StepDeeds ==
    ASSUME [Next]_vars, pc = "start" => proc = "none"
    PROVE  \/ Killed
           \/ SilentDeed
           \/ BrokerDeed /\ proc # "dead" /\ UNCHANGED proc
<1> USE DEF SilentDeed, BooksStay
<1>1. CASE BrokerStep
  <2>1. CASE \E t \in Thread : SnapshotBegins(t)
    BY <2>1 DEF BrokerDeed, SnapshotBegins, Unlocked, Alive, procVars
  <2>2. CASE SnapshotEnds \/ WriteFails
    BY <2>2 DEF BrokerDeed, SnapshotEnds, WriteFails, Alive, procVars
  <2>3. CASE \E r \in Request : Handler(r)
    BY <2>3 DEF BrokerDeed, Handler, Admit, Send, Refuse, Release, Price, Retain,
                Record, Unlocked, Alive, procVars
  <2>4. CASE Control
    BY <2>4 DEF Control, ReadActivate, ReadDrain, ReadLateHeartbeat, ReadEnd,
                Reject, Owe, ledgerVars, fileVars
  <2>5. CASE Watch \/ Stop \/ Expire
    BY <2>5 DEF Watch, Stop, Expire, Owe, ledgerVars, fileVars, procVars
  <2>6. CASE Exit \/ Crash
    BY <2>6 DEF Exit, Crash
  <2>. QED
    BY <1>1, <2>1, <2>2, <2>3, <2>4, <2>5, <2>6 DEF BrokerStep
<1>2. CASE RunnerStep
  <2>1. CASE StartSidecar \/ Probe
    BY <2>1 DEF StartSidecar, Probe, ConsumeProbe, Owe, Phase, ledgerVars,
                fileVars, procVars
  <2>2. CASE SidecarStarted \/ ProbeAnswered
               \/ MainDiscovered \/ Activate \/ Activated \/ CommandEnds
    BY <2>2 DEF SidecarStarted, ProbeAnswered, MainDiscovered, Activate,
         Activated, CommandEnds, Engine, Local, brokerVars, ledgerVars,
         fileVars, procVars
  <2>3. CASE RemoveContainers \/ RemovalFails \/ Drain \/ Drained
               \/ FinalLedger \/ ReadLedger
    BY <2>3 DEF RemoveContainers, RemovalFails, Drain, Drained, FinalLedger,
         ReadLedger, Engine, brokerVars, ledgerVars, fileVars, procVars
  <2>4. CASE CloseFailed \/ CloseValid \/ CleanFails \/ RunnerDies
    BY <2>4 DEF CloseFailed, CloseValid, ClosePipe, CleanFails, RunnerDies,
         Engine, ledgerVars, fileVars, procVars
  <2>5. CASE AccountFailure \/ AccountSuccess \/ MarkFailed
    BY <2>5 DEF AccountFailure, AccountSuccess, MarkFailed, Local, brokerVars,
         ledgerVars, fileVars, procVars
  <2>6. CASE Clean \/ Sweep
    BY <2>6 DEF Clean, Sweep
  <2>. QED
    BY <1>2, <2>1, <2>2, <2>3, <2>4, <2>5, <2>6 DEF RunnerStep
<1>3. CASE UNCHANGED vars
  BY <1>3 DEF vars, brokerVars, ledgerVars, fileVars, procVars
<1>. QED
  BY <1>1, <1>2, <1>3 DEF Next

(* The books, the file and the provider's account, over every step.        *)
MoneySound == (proc # "dead" => BooksSound) /\ FileSound /\ SpendSound

(* No step, the kill included, breaks what is known of the money.          *)
LEMMA MoneyStays ==
    ASSUME TypeOK, TypeOK', WithinAllocation, MoneySound, PhaseSound, [Next]_vars
    PROVE  MoneySound'
<1>1. FileSound /\ SpendSound /\ (proc # "dead" => BooksSound)
  BY DEF MoneySound
<1>2. CASE Killed
  <2>1. /\ UNCHANGED <<file, forwarded, charge, worst>> /\ proc' = "dead"
    BY <1>2 DEF Killed
  <2>2. FileSound' /\ SpendSound'
    BY <1>1, <2>1, StillSpent
  <2>. QED
    BY <2>1, <2>2 DEF MoneySound
<1>3. CASE SilentDeed
  <2>1. BooksStay /\ (proc = "dead" => proc' = "dead")
    BY <1>3 DEF SilentDeed
  <2>2. UNCHANGED <<file, forwarded, charge, worst>>
    BY <2>1 DEF BooksStay, askVars
  <2>3. FileSound' /\ SpendSound'
    BY <1>1, <2>2, StillSpent
  <2>4. proc' # "dead" => BooksSound'
    BY <1>1, <2>1, StillBooks
  <2>. QED
    BY <2>3, <2>4 DEF MoneySound
<1>4. CASE BrokerDeed /\ proc # "dead" /\ UNCHANGED proc
  <2>0. BooksSound
    BY <1>1, <1>4
  <2>1. CASE \E t \in Thread : SnapshotBegins(t)
    <3>1. UNCHANGED <<file, forwarded, charge, worst>>
      BY <2>1 DEF SnapshotBegins, askVars
    <3>2. FileSound' /\ SpendSound'
      BY <1>1, <3>1, StillSpent
    <3>3. BooksSound'
      BY <1>1, <2>0, <2>1, SnapshotBeginsBooks
    <3>. QED
      BY <3>2, <3>3 DEF MoneySound
  <2>2. CASE SnapshotEnds
    BY <1>1, <2>0, <2>2, SnapshotEndsBooks DEF MoneySound
  <2>3. CASE WriteFails
    <3>1. BooksSound' /\ UNCHANGED <<file, forwarded, charge, worst>>
      BY <2>0, <2>3, WriteFailsBooks
    <3>2. FileSound' /\ SpendSound'
      BY <1>1, <3>1, StillSpent
    <3>. QED
      BY <3>1, <3>2 DEF MoneySound
  <2>4. CASE \E r \in Request : Handler(r)
    <3>1. PICK r \in Request : Handler(r)
      BY <2>4
    <3>2. CASE Send(r)
      BY <1>1, <2>0, <3>2, SendBooks DEF MoneySound
    <3>3. CASE Admit(r)
      <4>1. /\ BooksSound' /\ UNCHANGED <<file, forwarded, charge>>
            /\ \A q \in forwarded : worst'[q] = worst[q]
        BY <1>1, <2>0, <3>3, AdmitBooks
      <4>2. FileSound' /\ SpendSound'
        BY <1>1, <4>1, StillSpent
      <4>. QED
        BY <4>1, <4>2 DEF MoneySound
    <3>4. CASE Refuse(r) \/ Release(r) \/ Price(r) \/ Retain(r) \/ Record(r)
      <4>1. BooksSound' /\ UNCHANGED <<file, forwarded, charge, worst>>
        BY <1>1, <2>0, <3>4, RefuseBooks, ReleaseBooks, PriceBooks, RetainBooks,
           RecordBooks
      <4>2. FileSound' /\ SpendSound'
        BY <1>1, <4>1, StillSpent
      <4>. QED
        BY <4>1, <4>2 DEF MoneySound
    <3>. QED
      BY <3>1, <3>2, <3>3, <3>4 DEF Handler
  <2>. QED
    BY <1>4, <2>1, <2>2, <2>3, <2>4 DEF BrokerDeed
<1>. QED
  BY <1>2, <1>3, <1>4, StepDeeds DEF PhaseSound

(* Before the broker starts every sum is zero.                             *)
LEMMA MoneyAtFirst == Init => MoneySound
<1> SUFFICES ASSUME Init PROVE MoneySound
  OBVIOUS
<1> USE DEF Init, BrokerInit, LedgerInit
<1>1. /\ charge \in [Request -> Int] /\ reservations \in [Request -> Int]
      /\ Paid \in [Request -> Int]
      /\ \A q \in Request : charge[q] = 0 /\ reservations[q] = 0 /\ Paid[q] = 0
  BY DEF Paid
<1>2. \A R : Total(charge, R) = 0
  <2>1. \A R : \A q \in Request : Share(charge, R, q) = 0
    BY <1>1 DEF Share
  <2>. QED
    BY <1>1, <2>1, TotalNothing
<1>3. Total(Paid, Request) = 0 /\ Total(reservations, Request) = 0
  <2>1. \A q \in Request :
           Share(Paid, Request, q) = 0 /\ Share(reservations, Request, q) = 0
    BY <1>1 DEF Share
  <2>. QED
    BY <1>1, <2>1, TotalNothing
<1>4. BooksSound
  <2>1. \A r \in Request : RequestSound(r)
    BY DEF RequestSound
  <2>2. CountSound
    <3>1. Counted = {} /\ 0 \in 0..MaxRequests /\ 1..0 = {}
      BY LedgerAssumption DEF Counted
    <3>2. Cardinality(Counted) = 0
      BY <3>1, FS_EmptySet
    <3>3. file.count = 0 /\ file.records = {}
      BY DEF NoFile
    <3>4. \A r \in Request : stage[r] = "idle"
      OBVIOUS
    <3>. QED
      BY <3>1, <3>2, <3>3, <3>4 DEF CountSound
  <2>3. SnapshotSound
    BY DEF SnapshotSound, Unread
  <2>. QED
    BY <1>3, <2>1, <2>2, <2>3 DEF BooksSound
<1>5. FileSound
  BY <1>2, LedgerAssumption DEF FileSound, NoFile, DocumentTyped, Vouches, Taken
<1>6. SpendSound
  BY <1>1, <1>2, LedgerAssumption DEF SpendSound, Taken
<1>. QED
  BY <1>4, <1>5, <1>6 DEF MoneySound

-----------------------------------------------------------------------------
(* The runner. *)

(* Deeds of the broker leave the runner's variables alone; the runner's    *)
(* leave the requests alone.  What is forwarded only grows, at a price     *)
(* that was not asked for before, and requests sent keep theirs.           *)
LEMMA SpendingGrows ==
    ASSUME TypeOK, MoneySound, PhaseSound, [Next]_vars
    PROVE  /\ forwarded \subseteq forwarded'
           /\ \A r \in forwarded : charge'[r] = charge[r]
           /\ Bounded' => Bounded
           /\ forwarded' = forwarded \/ (Alive /\ gate.active)
           /\ forwarded' = forwarded => charge' = charge
<1>0. forwarded' = forwarded \/ (Alive /\ gate.active)
  BY ForwardedByTheActive
<1>1. ASSUME UNCHANGED <<forwarded, charge>>,
             \A q \in forwarded : worst'[q] = worst[q]
      PROVE  Bounded' => Bounded
  BY <1>1 DEF Bounded
<1>2. CASE Killed
  BY <1>0, <1>1, <1>2 DEF Killed
<1>3. CASE SilentDeed
  BY <1>0, <1>1, <1>3 DEF SilentDeed, BooksStay, askVars
<1>4. CASE BrokerDeed /\ proc # "dead"
  <2>1. CASE (\E t \in Thread : SnapshotBegins(t)) \/ SnapshotEnds \/ WriteFails
    BY <1>0, <1>1, <2>1 DEF SnapshotBegins, SnapshotEnds, WriteFails, askVars
  <2>2. ASSUME NEW r \in Request, Send(r)
        PROVE  /\ r \notin forwarded /\ UNCHANGED worst
               /\ forwarded' = forwarded \cup {r}
               /\ \A q \in Request : q # r => charge'[q] = charge[q]
    <3>1. r \notin forwarded
      BY <1>4, <2>2 DEF MoneySound, BooksSound, RequestSound, Send, Noted, At
    <3>. QED
      BY <2>2, <3>1 DEF Send, TypeOK, BrokerTypeOK
  <2>3. ASSUME NEW r \in Request, Send(r)
        PROVE  /\ forwarded \subseteq forwarded' /\ forwarded' # forwarded
               /\ \A q \in forwarded : charge'[q] = charge[q]
               /\ Bounded' => Bounded
    BY <2>2, <2>3 DEF Bounded, TypeOK, BrokerTypeOK
  <2>4. ASSUME NEW r \in Request, Admit(r)
        PROVE  /\ UNCHANGED <<forwarded, charge>>
               /\ \A q \in forwarded : worst'[q] = worst[q]
    BY <1>4, <2>4, AdmitBooks DEF MoneySound
  <2>5. ASSUME NEW r \in Request,
               Refuse(r) \/ Release(r) \/ Price(r) \/ Retain(r) \/ Record(r)
        PROVE  UNCHANGED <<forwarded, charge, worst>>
    BY <2>5 DEF Refuse, Release, Price, Retain, Record
  <2>. QED
    BY <1>0, <1>1, <1>4, <2>1, <2>3, <2>4, <2>5 DEF BrokerDeed, Handler
<1>. QED
  BY <1>2, <1>3, <1>4, StepDeeds DEF PhaseSound

(* What was taken for requests that were sent does not change.             *)
LEMMA TakenStays ==
    ASSUME TypeOK, TypeOK', MoneySound, PhaseSound, [Next]_vars,
           NEW R, R \subseteq forwarded
    PROVE  Taken(R)' = Taken(R)
<1>1. charge \in [Request -> Int] /\ charge' \in [Request -> Int]
  <2>1. Charges \cup {0} \subseteq Int
    BY LedgerAssumption
  <2>. QED
    BY <2>1 DEF TypeOK, BrokerTypeOK
<1>2. \A r \in R : charge'[r] = charge[r]
  BY SpendingGrows
<1>3. \A q \in Request : Share(charge', R, q) = Share(charge, R, q)
  BY <1>2 DEF Share
<1>. QED
  BY <1>1, <1>3, TotalSame DEF Taken

(* A complete file covers all that was forwarded: every counted request is *)
(* finished, and no other was sent.                                        *)
LEMMA CompleteCovers ==
    ASSUME TypeOK, FileSound, Complete(file)
    PROVE  forwarded \subseteq file.records
             /\ (Bounded => Vouches(file, forwarded))
<1>1. /\ file.count \in 0..MaxRequests /\ file.records \subseteq 1..file.count
      /\ forwarded \subseteq 1..file.count
      /\ file.cost \in Nat /\ file.reserved \in Nat
  BY DEF FileSound, DocumentTyped
<1>2. IsFiniteSet(1..file.count) /\ Cardinality(1..file.count) = file.count
  <2>1. \A n \in Nat : IsFiniteSet(1..n) /\ Cardinality(1..n) = n
    BY FS_Interval
  <2>. QED
    BY <1>1, <2>1, LedgerAssumption
<1>3. file.records = 1..file.count
  BY <1>1, <1>2, FS_Subset DEF Complete
<1>4. forwarded \subseteq file.records
  BY <1>1, <1>3
<1>5. charge \in [Request -> Nat] /\ charge \in [Request -> Int]
  BY AmountsAreNat
<1>6. \A q \in Request :
         Share(charge, forwarded, q) <= Share(charge, file.records, q)
  BY <1>4, <1>5 DEF Share
<1>7. /\ Total(charge, forwarded) <= Total(charge, file.records)
      /\ Total(charge, forwarded) \in Int /\ Total(charge, file.records) \in Int
  BY <1>5, <1>6, TotalGrows
<1>8. Bounded => Total(charge, file.records) <= file.cost + file.reserved
  BY DEF FileSound, Vouches, Taken
<1>9. Bounded => Total(charge, forwarded) <= file.cost + file.reserved
  BY <1>1, <1>7, <1>8
<1>. QED
  BY <1>4, <1>9 DEF Vouches, Taken

(* Requests that were not sent cost nothing.                               *)
LEMMA NothingBeyondForwarded ==
    ASSUME TypeOK, SpendSound
    PROVE  Taken(forwarded) = Taken(Request)
<1>1. charge \in [Request -> Int]
  BY AmountsAreNat
<1>2. \A q \in Request :
         Share(charge, forwarded, q) = Share(charge, Request, q)
  BY DEF SpendSound, Share
<1>. QED
  BY <1>1, <1>2, TotalSame DEF Taken

(* The phases.                                                             *)
LEMMA PhasesStay ==
    ASSUME TypeOK, PhaseSound, [Next]_vars
    PROVE  PhaseSound'
<1> USE DEF PhaseSound, procVars, brokerVars, Engine
<1>1. CASE BrokerStep /\ UNCHANGED runnerVars
  <2>1. proc = "none" => FALSE
    BY <1>1 DEF BrokerStep, Handler, Admit, Send, Refuse, Release, Price, Retain,
         Record, SnapshotBegins, SnapshotEnds, WriteFails, Control, ReadActivate,
         ReadDrain, ReadLateHeartbeat, ReadEnd, Listens, Watch, Stop, Exit,
         Crash, Expire, Unlocked, Alive
  <2>2. proc' \in {proc, "stopping", "dead"}
    BY <1>1 DEF BrokerStep, Handler, Admit, Send, Refuse, Release, Price, Retain,
         Record, SnapshotBegins, SnapshotEnds, WriteFails, Control, ReadActivate,
         ReadDrain, ReadLateHeartbeat, ReadEnd, Watch, Stop, Exit, Crash, Expire,
         Killed
  <2>. QED
    BY <1>1, <2>1, <2>2 DEF runnerVars
<1>2. CASE RunnerStep
  <2>1. CASE StartSidecar \/ SidecarStarted \/ Probe \/ ProbeAnswered
               \/ MainDiscovered \/ Activate \/ Activated \/ CommandEnds
    BY <2>1 DEF StartSidecar, SidecarStarted, Probe, ProbeAnswered,
         MainDiscovered, Activate, Activated, CommandEnds, ConsumeProbe, Phase,
         Local
  <2>2. CASE RemoveContainers \/ RemovalFails
    <3>1. started => started'
      BY <2>2, Zenon DEF RemoveContainers, RemovalFails, Starts
    <3>2. /\ pc # "start" /\ pc' \in {"removed", "closing"}
          /\ pc' = "removed" => confirmed
          /\ UNCHANGED <<confirmed, drained, proc>>
      BY <2>2 DEF RemoveContainers, RemovalFails, Failing
    <3>. QED
      BY <3>1, <3>2
  <2>3. CASE Drain \/ Drained \/ FinalLedger \/ ReadLedger
    BY <2>3 DEF Drain, Drained, FinalLedger, ReadLedger, Phase
  <2>4. CASE CloseFailed \/ CloseValid \/ Clean \/ CleanFails
    BY <2>4 DEF CloseFailed, CloseValid, ClosePipe, Clean, CleanFails, Killed,
                Phase
  <2>5. CASE AccountFailure \/ AccountSuccess \/ MarkFailed \/ RunnerDies
    BY <2>5 DEF AccountFailure, AccountSuccess, MarkFailed, RunnerDies, Phase,
                Local
  <2>6. CASE Sweep
    BY <2>6 DEF Sweep, Final, Killed, runnerVars
  <2>. QED
    BY <1>2, <2>1, <2>2, <2>3, <2>4, <2>5, <2>6 DEF RunnerStep
<1>3. CASE UNCHANGED vars
  BY <1>3 DEF vars, runnerVars, brokerVars, procVars
<1>. QED
  BY <1>1, <1>2, <1>3 DEF Next

(* Nothing is sent under an activation that the runner did not begin.      *)
LEMMA UnstartedStays ==
    ASSUME TypeOK, UnstartedSound, MoneySound, PhaseSound, [Next]_vars
    PROVE  UnstartedSound'
<1> SUFFICES ASSUME pc' # "gone", ~started'
             PROVE  pipe' # "activate" /\ ~gate'.active /\ forwarded' = {}
  BY DEF UnstartedSound
<1>0. gate \in GateType
  BY DEF TypeOK, BrokerTypeOK
<1>1. ASSUME pc # "gone", ~started, pipe' \in {pipe, "none", "drain"},
             gate'.active => gate.active
      PROVE  pipe' # "activate" /\ ~gate'.active /\ forwarded' = {}
  BY <1>1, SpendingGrows DEF UnstartedSound
<1>2. CASE BrokerStep /\ UNCHANGED runnerVars
  <2>1. pc # "gone" /\ ~started
    BY <1>2 DEF runnerVars
  <2>2. CASE Control
    <3>1. pipe # "activate"
      BY <2>1 DEF UnstartedSound
    <3>2. ~ReadActivate
      BY <3>1 DEF ReadActivate
    <3>3. pipe' \in {pipe, "none", "drain"} /\ (gate'.active => gate.active)
      BY <1>0, <2>2, <3>2 DEF Control, ReadDrain, ReadLateHeartbeat, ReadEnd,
           Reject, Invalidate, parentVars, gateVars, GateType
    <3>. QED
      BY <1>1, <2>1, <3>3
  <2>3. CASE \E r \in Request : Handler(r)
    <3>1. pipe' = pipe /\ (gate'.active => gate.active)
      BY <1>0, <2>3 DEF Handler, Admit, Send, Refuse, Release, Price, Retain,
           Record, Invalidate, parentVars, gateVars, GateType
    <3>. QED
      BY <1>1, <2>1, <3>1
  <2>4. CASE (\E t \in Thread : SnapshotBegins(t)) \/ SnapshotEnds \/ WriteFails
               \/ Watch \/ Stop \/ Expire
    <3>1. pipe' = pipe /\ (gate'.active => gate.active)
      BY <1>0, <2>4 DEF SnapshotBegins, SnapshotEnds, WriteFails, Watch, Stop,
           Expire, Invalidate, parentVars, gateVars, GateType
    <3>. QED
      BY <1>1, <2>1, <3>1
  <2>5. CASE Exit \/ Crash
    <3>1. pipe' = pipe /\ ~gate'.active
      BY <2>5 DEF Exit, Crash, Killed, Closed, parentVars
    <3>. QED
      BY <1>1, <2>1, <3>1
  <2>. QED
    BY <1>2, <2>2, <2>3, <2>4, <2>5 DEF BrokerStep
<1>3. CASE RunnerStep
  <2>1. CASE StartSidecar \/ SidecarStarted \/ Probe \/ ProbeAnswered
               \/ MainDiscovered \/ CommandEnds
    <3>1. /\ pc # "gone" /\ started' = started /\ pipe' = pipe
          /\ gate'.active = gate.active
      BY <1>0, <2>1 DEF StartSidecar, SidecarStarted, Probe, ConsumeProbe,
           ProbeAnswered, MainDiscovered, CommandEnds, Phase, Local, Engine,
           brokerVars, parentVars, gateVars, GateType
    <3>. QED
      BY <1>1, <3>1
  <2>2. CASE Activate \/ Activated
    BY <2>2 DEF Activate, Activated, Phase, PhaseSound
  <2>3. CASE RemoveContainers \/ RemovalFails
    <3>1. pc # "gone" /\ pipe' = pipe /\ gate' = gate
      BY <2>3 DEF RemoveContainers, RemovalFails, Failing, Engine, parentVars,
                  gateVars
    <3>2. ~started
      BY <2>3, Zenon DEF RemoveContainers, RemovalFails, Starts
    <3>. QED
      BY <1>1, <3>1, <3>2
  <2>4. CASE Drain \/ Drained \/ FinalLedger \/ ReadLedger \/ CloseFailed
               \/ CloseValid \/ CleanFails \/ AccountFailure \/ AccountSuccess
               \/ MarkFailed
    <3>1. /\ pc # "gone" /\ started' = started /\ pipe' \in {pipe, "drain"}
          /\ gate' = gate
      BY <2>4 DEF Drain, Drained, FinalLedger, ReadLedger, CloseFailed,
           CloseValid, ClosePipe, CleanFails, AccountFailure, AccountSuccess,
           MarkFailed, Phase, Local, Engine, brokerVars, parentVars, gateVars
    <3>. QED
      BY <1>1, <3>1
  <2>5. CASE Clean \/ Sweep
    <3>1. pc # "gone" /\ started' = started /\ pipe' = pipe /\ ~gate'.active
      BY <2>5 DEF Clean, Sweep, Killed, Closed, Phase, Final, runnerVars
    <3>. QED
      BY <1>1, <3>1
  <2>6. CASE RunnerDies
    BY <2>6 DEF RunnerDies
  <2>. QED
    BY <1>3, <2>1, <2>2, <2>3, <2>4, <2>5, <2>6 DEF RunnerStep
<1>4. CASE UNCHANGED vars
  BY <1>1, <1>4 DEF vars, runnerVars, brokerVars, parentVars, gateVars
<1>. QED
  BY <1>2, <1>3, <1>4 DEF Next

(* A drained broker, or one that is gone, stays so.                        *)
LEMMA NoMoreStays ==
    ASSUME TypeOK, DrainSound, PhaseSound, NoMore, pc # "start", [Next]_vars
    PROVE  NoMore' /\ forwarded' = forwarded
<1>0. gate \in GateType
  BY DEF TypeOK, BrokerTypeOK
<1>1. forwarded' = forwarded
  BY ForwardedByTheActive DEF NoMore, Alive
<1>2. CASE proc' = "dead"
  BY <1>1, <1>2 DEF NoMore
<1>3. ASSUME proc' # "dead"
      PROVE  gate.draining /\ ~gate.active /\ ~Killed /\ proc # "dead"
  <2>1. ~Killed
    BY <1>3 DEF Killed
  <2>2. proc # "dead"
    BY <1>3, <2>1, StepDeeds DEF SilentDeed, PhaseSound
  <2>. QED
    BY <2>1, <2>2 DEF NoMore
<1>4. ASSUME proc' # "dead" PROVE gate'.draining /\ ~gate'.active
  <2>1. gate.draining /\ ~gate.active /\ ~Killed /\ gate.activated
    BY <1>3, <1>4 DEF DrainSound
  <2>2. CASE BrokerStep
    <3>1. CASE Control
      BY <1>0, <2>1, <3>1 DEF Control, ReadActivate, ReadDrain,
         ReadLateHeartbeat, ReadEnd, Reject, Invalidate, gateVars, GateType
    <3>2. CASE \E r \in Request : Handler(r)
      BY <1>0, <2>1, <3>2 DEF Handler, Admit, Send, Refuse, Release, Price,
         Retain, Record, Invalidate, gateVars, GateType
    <3>3. CASE (\E t \in Thread : SnapshotBegins(t)) \/ SnapshotEnds
                 \/ WriteFails \/ Watch \/ Stop \/ Expire
      BY <1>0, <2>1, <3>3 DEF SnapshotBegins, SnapshotEnds, WriteFails, Watch,
         Stop, Expire, Invalidate, gateVars, GateType
    <3>. QED
      BY <2>1, <2>2, <3>1, <3>2, <3>3 DEF BrokerStep, Exit, Crash
  <2>3. CASE RunnerStep
    <3>1. CASE StartSidecar \/ SidecarStarted \/ Probe \/ ProbeAnswered
                 \/ MainDiscovered \/ Activate \/ Activated \/ CommandEnds
      BY <1>0, <2>1, <3>1 DEF StartSidecar, SidecarStarted, Probe, ConsumeProbe,
         ProbeAnswered, MainDiscovered, Activate, Activated, CommandEnds, Phase,
         Local, Engine, brokerVars, gateVars, GateType
    <3>2. CASE RemoveContainers \/ RemovalFails \/ Drain \/ Drained
                 \/ FinalLedger \/ ReadLedger
      BY <2>1, <3>2 DEF RemoveContainers, RemovalFails, Drain, Drained,
         FinalLedger, ReadLedger, Engine, brokerVars, gateVars
    <3>3. CASE CloseFailed \/ CloseValid \/ CleanFails \/ AccountFailure
                 \/ AccountSuccess \/ MarkFailed \/ RunnerDies
      BY <2>1, <3>3 DEF CloseFailed, CloseValid, ClosePipe, CleanFails,
         AccountFailure, AccountSuccess, MarkFailed, RunnerDies, Local, Engine,
         brokerVars, gateVars
    <3>. QED
      BY <2>1, <2>3, <3>1, <3>2, <3>3 DEF RunnerStep, Clean, Sweep
  <2>4. CASE UNCHANGED vars
    BY <2>1, <2>4 DEF vars, brokerVars, gateVars
  <2>. QED
    BY <2>2, <2>3, <2>4 DEF Next
<1>. QED
  BY <1>1, <1>2, <1>4 DEF NoMore

(* The runner's document.                                                  *)
LEMMA BasisStays ==
    ASSUME TypeOK, TypeOK', DrainSound, MoneySound, PhaseSound, BasisSound,
           [Next]_vars
    PROVE  BasisSound'
<1>1. /\ forwarded \subseteq forwarded' /\ (Bounded' => Bounded)
      /\ forwarded' = forwarded => charge' = charge
  BY SpendingGrows
<1>2. ASSUME UNCHANGED basis, document' \in {document, NoFile} PROVE BasisSound'
  <2>1. basis' = NoBasis \/ basis'.sent \subseteq forwarded'
    BY <1>1, <1>2 DEF BasisSound
  <2>2. basis'.open \/ (basis'.sent = forwarded' /\ NoMore')
    <3>1. SUFFICES ASSUME ~basis.open PROVE basis.sent = forwarded' /\ NoMore'
      BY <1>2
    <3>2. basis.sent = forwarded /\ NoMore /\ pc # "start"
      BY <3>1 DEF BasisSound, PhaseSound, NoBasis
    <3>. QED
      BY <3>2, NoMoreStays
  <2>3. ASSUME document'.exists
        PROVE  /\ DocumentTyped(document)' /\ basis'.sent \subseteq forwarded'
               /\ Bounded' /\ Complete(document)' => Vouches(document, basis.sent)'
    <3>1. document' = document /\ document.exists /\ basis' = basis
      BY <1>2, <2>3 DEF NoFile
    <3>2. basis.sent \subseteq forwarded /\ DocumentTyped(document)
      BY <3>1 DEF BasisSound
    <3>3. \A R : R \subseteq forwarded => Taken(R)' = Taken(R)
      BY TakenStays
    <3>4. Taken(basis.sent)' = Taken(basis.sent)
      <4>1. Total(charge', basis.sent) = Total(charge, basis.sent)
        BY <3>2, <3>3 DEF Taken
      <4>. QED
        BY <3>1, <4>1 DEF Taken
    <3>5. Bounded' /\ Complete(document)' => Vouches(document, basis.sent)
      BY <1>1, <3>1 DEF BasisSound, Complete
    <3>. QED
      BY <1>1, <3>1, <3>2, <3>4, <3>5 DEF Vouches, DocumentTyped
  <2>. QED
    BY <2>1, <2>2, <2>3 DEF BasisSound
<1>3. ASSUME pc # "start", UNCHANGED <<forwarded, charge, worst, file, proc, gate>>,
             basis' = Basis, document' \in {file, NoFile}
      PROVE  BasisSound'
  <2>1. basis'.sent = forwarded' /\ basis'.open = (Alive /\ ~file.draining)
    BY <1>3 DEF Basis
  <2>2. basis'.open \/ NoMore'
    <3>1. SUFFICES ASSUME ~(Alive /\ ~file.draining) PROVE NoMore'
      BY <2>1
    <3>2. Alive \/ proc = "dead"
      BY <1>3 DEF TypeOK, BrokerTypeOK, PhaseSound, Alive
    <3>. QED
      BY <1>3, <3>1, <3>2 DEF NoMore, DrainSound
  <2>3. ASSUME document'.exists
        PROVE  /\ DocumentTyped(document)'
               /\ Bounded' /\ Complete(document)' => Vouches(document, basis.sent)'
    <3>1. document' = file
      BY <1>3, <2>3 DEF NoFile
    <3>2. DocumentTyped(file)
      BY DEF MoneySound, FileSound
    <3>3. Bounded /\ Complete(file) => Vouches(file, forwarded)
      BY CompleteCovers DEF MoneySound
    <3>. QED
      BY <1>1, <1>3, <2>1, <3>1, <3>2, <3>3
      DEF Vouches, DocumentTyped, Taken, Complete
  <2>. QED
    BY <2>1, <2>2, <2>3 DEF BasisSound
<1>4. ASSUME basis' = NoBasis, document' = NoFile PROVE BasisSound'
  BY <1>4 DEF BasisSound, NoBasis, NoFile
<1>5. CASE BrokerStep /\ UNCHANGED runnerVars
  BY <1>2, <1>5 DEF runnerVars
<1>6. CASE RunnerStep
  <2>1. CASE StartSidecar \/ SidecarStarted \/ Probe \/ ProbeAnswered
               \/ MainDiscovered \/ Activate \/ Activated \/ CommandEnds
    BY <1>2, <2>1 DEF StartSidecar, SidecarStarted, Probe, ProbeAnswered,
         MainDiscovered, Activate, Activated, CommandEnds, Local
  <2>2. CASE RemoveContainers \/ RemovalFails \/ Drain \/ Drained
    BY <1>2, <2>2 DEF RemoveContainers, RemovalFails, Drain, Drained
  <2>3. CASE FinalLedger \/ ReadLedger
    BY <1>3, <2>3 DEF FinalLedger, ReadLedger, Phase, brokerVars, askVars,
                      fileVars, procVars, gateVars
  <2>4. CASE CloseFailed \/ CloseValid \/ Clean \/ CleanFails
    BY <1>2, <2>4 DEF CloseFailed, CloseValid, ClosePipe, Clean, CleanFails
  <2>5. CASE AccountFailure
    <3>1. /\ pc # "start" /\ document' = NoFile
          /\ UNCHANGED <<forwarded, charge, worst, file, proc, gate>>
          /\ basis' \in {basis, Basis, NoBasis}
      BY <2>5 DEF AccountFailure, Phase, brokerVars, askVars, fileVars, procVars,
                  gateVars
    <3>. QED
      BY <1>2, <1>3, <1>4, <3>1
  <2>6. CASE AccountSuccess \/ MarkFailed \/ Sweep
    BY <1>2, <2>6 DEF AccountSuccess, MarkFailed, Local, Sweep, runnerVars
  <2>7. CASE RunnerDies
    BY <1>4, <2>7 DEF RunnerDies
  <2>. QED
    BY <1>6, <2>1, <2>2, <2>3, <2>4, <2>5, <2>6, <2>7 DEF RunnerStep
<1>7. CASE UNCHANGED vars
  BY <1>2, <1>7 DEF vars, runnerVars
<1>. QED
  BY <1>5, <1>6, <1>7 DEF Next

(* An attempt that was accounted for.                                      *)
LEMMA AccountStays ==
    ASSUME TypeOK, TypeOK', MoneySound, RunSound, [Next]_vars
    PROVE  AccountSound'
<1> SUFFICES ASSUME pc' \in {"failed", "succeeded"} PROVE AccountSound'
  BY DEF AccountSound
<1>0. /\ PhaseSound /\ BasisSound /\ AccountSound
      /\ forwarded \subseteq forwarded' /\ (Bounded' => Bounded)
  BY SpendingGrows DEF RunSound
<1>1. \A R : R \subseteq forwarded => Taken(R)' = Taken(R)
  BY <1>0, TakenStays
<1>2. CASE UNCHANGED <<pc, basis, account, started>>
  <2>1. CASE basis.sent \subseteq forwarded
               /\ (Bounded => Taken(basis.sent) <= account.exposure)
    <3>1. Total(charge', basis.sent) = Total(charge, basis.sent)
      BY <1>1, <2>1 DEF Taken
    <3>. QED
      BY <1>0, <1>2, <2>1, <3>1 DEF AccountSound, Taken
  <2>2. CASE basis = NoBasis /\ (account.exposure = Allocation \/ ~started)
    BY <1>2, <2>2 DEF AccountSound, NoBasis
  <2>. QED
    BY <1>0, <1>2, <2>1, <2>2 DEF AccountSound
<1>3. ASSUME NEW d, account' = Spend(d), UNCHANGED <<forwarded, charge>>,
             basis'.sent \subseteq forwarded,
             Bounded => Total(charge, basis'.sent) <= d.cost + d.reserved
      PROVE  AccountSound'
  BY <1>0, <1>3 DEF AccountSound, Spend, Taken
<1>4. ASSUME document.exists, Proves(document)
      PROVE  /\ basis.sent \subseteq forwarded
             /\ Bounded => Total(charge, basis.sent)
                             <= document.cost + document.reserved
  BY <1>0, <1>4 DEF BasisSound, Proves, Vouches, Taken
<1>5. CASE AccountFailure
  <2>1. UNCHANGED <<forwarded, charge, started>>
    BY <1>5 DEF AccountFailure, brokerVars, askVars
  <2>2. CASE document.exists /\ Proves(document)
    <3>1. account' = Spend(document) /\ basis' = basis
      BY <1>5, <2>2 DEF AccountFailure
    <3>. QED
      BY <1>3, <1>4, <2>1, <2>2, <3>1
  <2>3. CASE ~document.exists /\ Proves(file)
    <3>1. account' = Spend(file) /\ basis' = Basis
      BY <1>5, <2>3 DEF AccountFailure
    <3>2. Bounded => Total(charge, forwarded) <= file.cost + file.reserved
      BY <2>3, CompleteCovers DEF MoneySound, Proves, Vouches, Taken
    <3>. QED
      BY <1>3, <2>1, <3>1, <3>2 DEF Basis
  <2>4. CASE account' = Fallback /\ basis' = NoBasis
    BY <2>1, <2>4 DEF AccountSound, Fallback
  <2>. QED
    BY <1>5, <2>2, <2>3, <2>4 DEF AccountFailure
<1>6. CASE AccountSuccess
  <2>1. /\ UNCHANGED <<forwarded, charge, started, basis>>
        /\ account' = Spend(document) /\ document.exists /\ Proves(document)
    BY <1>6 DEF AccountSuccess, Proves, brokerVars, askVars
  <2>. QED
    BY <1>3, <1>4, <2>1
<1>7. CASE BrokerStep /\ UNCHANGED runnerVars
  BY <1>2, <1>7 DEF runnerVars
<1>8. CASE Sweep
  BY <1>2, <1>8 DEF Sweep, runnerVars
<1>9. CASE UNCHANGED vars
  BY <1>2, <1>9 DEF vars, runnerVars
<1>. QED
  BY <1>5, <1>6, <1>7, <1>8, <1>9
  DEF Next, RunnerStep, StartSidecar, SidecarStarted, Probe, ProbeAnswered,
      MainDiscovered, Activate, Activated, CommandEnds, RemoveContainers,
      RemovalFails, Drain, Drained, FinalLedger, ReadLedger, CloseFailed,
      CloseValid, ClosePipe, Clean, CleanFails, MarkFailed, RunnerDies, Phase

(* Types, over every step.                                                 *)
LEMMA TypesStay ==
    ASSUME TypeOK, MoneySound, RunSound, [Next]_vars
    PROVE  TypeOK'
<1>0. /\ PhaseSound /\ BasisSound /\ DocumentTyped(file)
      /\ proc # "dead" => BooksSound
  BY DEF MoneySound, RunSound, FileSound
<1>1. (drained' => confirmed') /\ (confirmed' => started')
  BY <1>0, PhasesStay DEF PhaseSound
<1>2. BrokerTypeOK'
  <2> USE DEF TypeOK, BrokerTypeOK, LedgerTypeOK, ledgerVars, gateVars, askVars,
          fileVars, procVars, parentVars
  <2>1. CASE BrokerStep
    BY <1>0, <2>1, BrokerTypes
  <2>2. CASE StartSidecar
    BY <2>2 DEF StartSidecar, Owe, Thread
  <2>3. CASE Probe
    <3>1. gate' \in GateType
      BY <2>3 DEF Probe, ConsumeProbe, GateType
    <3>. QED
      BY <2>3, <3>1 DEF Probe, ConsumeProbe, Owe, Thread
  <2>4. CASE Clean \/ Sweep
    <3>1. /\ Killed /\ agent' = FALSE
          /\ UNCHANGED <<pipe, pipeOpen, beating, faults>>
      BY <2>4 DEF Clean, Sweep
    <3>. QED
      BY <3>1, KilledTypes
  <2>5. CASE SidecarStarted \/ ProbeAnswered \/ Drained \/ FinalLedger
               \/ ReadLedger \/ AccountFailure \/ AccountSuccess \/ MarkFailed
               \/ UNCHANGED vars
    <3>1. UNCHANGED brokerVars
      BY <2>5 DEF SidecarStarted, ProbeAnswered, Drained, FinalLedger,
         ReadLedger, AccountFailure, AccountSuccess, MarkFailed, Local, vars
    <3>. QED
      BY <3>1 DEF brokerVars
  <2>6. CASE MainDiscovered \/ Activate \/ Activated \/ CommandEnds
    <3>1. /\ UNCHANGED <<Engine, procVars, pipeOpen>>
          /\ pipe' \in {pipe, "activate"}
          /\ agent' \in {agent, TRUE, FALSE} /\ beating' \in {beating, TRUE}
      BY <2>6 DEF MainDiscovered, Activate, Activated, CommandEnds
    <3>2. /\ pipe' \in {"none", "activate", "drain"} /\ pipeOpen' \in BOOLEAN
          /\ agent' \in BOOLEAN /\ beating' \in BOOLEAN
      BY <3>1
    <3>3. UNCHANGED <<ledgerVars, gateVars, askVars, fileVars, procVars, faults>>
      BY <3>1 DEF Engine
    <3>. QED
      BY <3>2, <3>3
  <2>7. CASE RemoveContainers \/ Drain \/ CloseFailed \/ CloseValid \/ RunnerDies
    <3>1. /\ UNCHANGED <<Engine, procVars>>
          /\ pipe' \in {pipe, "drain"} /\ pipeOpen' \in {pipeOpen, FALSE}
          /\ agent' \in {agent, FALSE} /\ beating' \in {beating, FALSE}
      BY <2>7 DEF RemoveContainers, Drain, CloseFailed, CloseValid, ClosePipe,
                  RunnerDies
    <3>2. /\ pipe' \in {"none", "activate", "drain"} /\ pipeOpen' \in BOOLEAN
          /\ agent' \in BOOLEAN /\ beating' \in BOOLEAN
      BY <3>1
    <3>3. UNCHANGED <<ledgerVars, gateVars, askVars, fileVars, procVars, faults>>
      BY <3>1 DEF Engine
    <3>. QED
      BY <3>2, <3>3
  <2>8. CASE RemovalFails \/ CleanFails
    <3>1. faults' \in 0..FaultCap
      BY <2>8, BrokerAssumption DEF RemovalFails, CleanFails
    <3>2. UNCHANGED <<ledgerVars, gateVars, askVars, fileVars, procVars,
                      parentVars>>
      BY <2>8 DEF RemovalFails, CleanFails
    <3>. QED
      BY <3>1, <3>2
  <2>. QED
    BY <2>1, <2>2, <2>3, <2>4, <2>5, <2>6, <2>7, <2>8 DEF Next, RunnerStep
<1>3. /\ started' \in BOOLEAN /\ confirmed' \in BOOLEAN /\ drained' \in BOOLEAN
  <2> USE DEF TypeOK
  <2>1. CASE BrokerStep /\ UNCHANGED runnerVars
    BY <2>1 DEF runnerVars
  <2>2. CASE RemoveContainers \/ RemovalFails
    BY <2>2 DEF RemoveContainers, RemovalFails, Starts
  <2>3. CASE Sweep \/ UNCHANGED vars
    BY <2>3 DEF Sweep, vars, runnerVars
  <2>. QED
    BY <2>1, <2>2, <2>3
    DEF Next, RunnerStep, StartSidecar, SidecarStarted, Probe, ProbeAnswered,
        MainDiscovered, Activate, Activated, CommandEnds, Drain, Drained,
        FinalLedger, ReadLedger, CloseFailed, CloseValid, ClosePipe, Clean,
        CleanFails, AccountFailure, AccountSuccess, MarkFailed, RunnerDies, Local
<1>4. basis' \in [sent : SUBSET Request, open : BOOLEAN]
  <2>1. basis' \in {basis, Basis, NoBasis}
    BY DEF Next, RunnerStep, runnerVars, StartSidecar, SidecarStarted, Probe,
        ProbeAnswered, MainDiscovered, Activate, Activated, CommandEnds,
        RemoveContainers, RemovalFails, Drain, Drained, FinalLedger, ReadLedger,
        CloseFailed, CloseValid, ClosePipe, Clean, CleanFails, AccountFailure,
        AccountSuccess, MarkFailed, Sweep, RunnerDies, Local, vars
  <2>2. Basis \in [sent : SUBSET Request, open : BOOLEAN]
    BY DEF Basis, TypeOK, BrokerTypeOK
  <2>3. NoBasis \in [sent : SUBSET Request, open : BOOLEAN]
    BY DEF NoBasis
  <2>. QED
    BY <2>1, <2>2, <2>3 DEF TypeOK
<1>5. account' \in [authority : {"preactivation_zero", "broker_ledger",
                                 "conservative_allocation_fallback"},
                    exposure : 0..Allocation]
  <2> USE DEF TypeOK
  <2>1. ASSUME NEW d, DocumentTyped(d), Proves(d), account' = Spend(d)
        PROVE  account' \in [authority : {"broker_ledger"},
                             exposure : 0..Allocation]
    BY <2>1, LedgerAssumption DEF DocumentTyped, Proves, Spend
  <2>2. Zero.exposure \in 0..Allocation /\ Allocation \in 0..Allocation
    BY LedgerAssumption DEF Zero
  <2>3. CASE AccountFailure
    <3>1. CASE document.exists /\ Proves(document)
      <4>1. account' = Spend(document) /\ DocumentTyped(document)
        BY <1>0, <2>3, <3>1 DEF AccountFailure, BasisSound
      <4>. QED
        BY <2>1, <3>1, <4>1
    <3>2. CASE ~document.exists /\ Proves(file)
      <4>1. account' = Spend(file)
        BY <2>3, <3>2 DEF AccountFailure
      <4>. QED
        BY <1>0, <2>1, <3>2, <4>1
    <3>3. CASE account' = Fallback
      BY <2>2, <3>3 DEF Fallback, Zero
    <3>. QED
      BY <2>3, <3>1, <3>2, <3>3 DEF AccountFailure
  <2>4. CASE AccountSuccess
    <3>1. /\ account' = Spend(document) /\ Proves(document)
          /\ DocumentTyped(document)
      BY <1>0, <2>4 DEF AccountSuccess, BasisSound, Proves
    <3>. QED
      BY <2>1, <3>1
  <2>5. CASE RunnerDies
    BY <2>2, <2>5 DEF RunnerDies, Zero
  <2>6. CASE account' = account
    BY <2>6
  <2>. QED
    BY <2>3, <2>4, <2>5, <2>6
    DEF Next, RunnerStep, runnerVars, StartSidecar, SidecarStarted, Probe,
        ProbeAnswered, MainDiscovered, Activate, Activated, CommandEnds,
        RemoveContainers, RemovalFails, Drain, Drained, FinalLedger, ReadLedger,
        CloseFailed, CloseValid, ClosePipe, Clean, CleanFails, MarkFailed, Sweep,
        Local, vars
<1>. QED
  BY <1>1, <1>2, <1>3, <1>4, <1>5 DEF TypeOK

-----------------------------------------------------------------------------
(* The whole invariant. *)

(* The ledger is within the allocation, a drain is final, and the books,   *)
(* the file and what the runner concluded from it agree.                   *)
CalibrationSound == TypeOK /\ LedgerSound /\ DrainSound /\ CalibrationHolds

(* The inductive invariant holds in the initial states.                    *)
LEMMA CalibrationAtFirst == Init => CalibrationSound
<1> SUFFICES ASSUME Init PROVE CalibrationSound
  OBVIOUS
<1> USE DEF Init, BrokerInit, LedgerInit
<1>1. BrokerTypeOK
  <2>1. gate \in GateType
    BY DEF Closed, GateType
  <2>2. stage \in [Request -> Stage]
    BY DEF Stage
  <2>3. LedgerTypeOK
    BY DEF LedgerTypeOK
  <2>4. faults \in 0..FaultCap
    BY BrokerAssumption
  <2>. QED
    BY <2>1, <2>2, <2>3, <2>4 DEF BrokerTypeOK
<1>2. TypeOK
  <2>1. Zero \in [authority : {"preactivation_zero"}, exposure : 0..Allocation]
    BY LedgerAssumption DEF Zero
  <2>2. NoBasis \in [sent : SUBSET Request, open : BOOLEAN]
    BY DEF NoBasis
  <2>. QED
    BY <1>1, <2>1, <2>2 DEF TypeOK
<1>3. LedgerSound
  BY LedgerAssumption DEF LedgerSound, WithinAllocation
<1>4. DrainSound
  BY DEF Closed, NoFile, DrainSound, GateType, Alive
<1>5. RunSound
  BY DEF RunSound, PhaseSound, UnstartedSound, BasisSound, AccountSound, Closed,
         NoBasis, NoFile
<1>. QED
  BY <1>2, <1>3, <1>4, <1>5, MoneyAtFirst
  DEF CalibrationSound, CalibrationHolds, MoneySound

(* Every step of the runner, of the broker and of the crash keeps the      *)
(* inductive invariant.                                                    *)
LEMMA CalibrationStays == CalibrationSound /\ [Next]_vars => CalibrationSound'
<1> SUFFICES ASSUME CalibrationSound, [Next]_vars PROVE CalibrationSound'
  OBVIOUS
<1>1. /\ TypeOK /\ LedgerSound /\ DrainSound /\ MoneySound /\ RunSound
      /\ PhaseSound /\ UnstartedSound /\ BasisSound /\ WithinAllocation
  BY DEF CalibrationSound, CalibrationHolds, MoneySound, RunSound, LedgerSound
<1>2. TypeOK'
  BY <1>1, TypesStay
<1>3. LedgerSound' /\ DrainSound'
  BY <1>1, LedgerKept, DrainStays
<1>4. MoneySound'
  BY <1>1, <1>2, MoneyStays
<1>5. PhaseSound' /\ UnstartedSound' /\ BasisSound' /\ AccountSound'
  BY <1>1, <1>2, PhasesStay, UnstartedStays, BasisStays, AccountStays
<1>. QED
  BY <1>2, <1>3, <1>4, <1>5
  DEF CalibrationSound, CalibrationHolds, MoneySound, RunSound

(* The inductive invariant holds of every attempt, for every number of     *)
(* requests and failures and all amounts and prices.                       *)
THEOREM CalibrationAlwaysHolds == Spec => []CalibrationSound
BY CalibrationAtFirst, CalibrationStays, PTL DEF Spec

(* Every variable of the runner and of its broker keeps its type; so       *)
(* nothing reserved or charged, and no stated exposure, is ever negative.  *)
THEOREM CalibrationTypes == Spec => []TypeOK
<1>1. CalibrationSound => TypeOK
  BY DEF CalibrationSound
<1>. QED
  BY <1>1, CalibrationAlwaysHolds, PTL

(* The ledger of a broker that lives covers what the provider took for     *)
(* every request that was sent, in flight, kept or settled, and stays      *)
(* within the allocation.                                                  *)
THEOREM LedgerAlwaysCovers == Spec => []LedgerCovers
<1>1. CalibrationSound => LedgerCovers
  <2> SUFFICES ASSUME CalibrationSound PROVE LedgerCovers
    OBVIOUS
  <2>1. TypeOK /\ SpendSound /\ WithinAllocation /\ (Alive => BooksSound)
    BY DEF CalibrationSound, CalibrationHolds, LedgerSound, Alive
  <2>2. Alive /\ Bounded => Taken(Request) <= cost + reserved
    BY <2>1, BooksCover
  <2>3. Taken(forwarded) = Taken(Request)
    BY <2>1, NothingBeyondForwarded
  <2>. QED
    BY <2>1, <2>2, <2>3 DEF LedgerCovers
<1>. QED
  BY <1>1, CalibrationAlwaysHolds, PTL

(* A ledger.json with a record for every request it counts covers what was *)
(* forwarded up to now, although its cost and its reservations were read   *)
(* one after the other while requests settled.                             *)
THEOREM FileAlwaysCovers == Spec => []FileCovers
<1>1. CalibrationSound => FileCovers
  BY CompleteCovers
  DEF CalibrationSound, CalibrationHolds, FileCovers, Vouches
<1>. QED
  BY <1>1, CalibrationAlwaysHolds, PTL

(* What an attempt that was accounted for states is no less than what the  *)
(* provider took for the requests its evidence speaks of, whichever phase  *)
(* failed and whichever document it was judged by.                         *)
THEOREM AccountAlwaysCovers == Spec => []AccountCovers
<1>1. CalibrationSound => AccountCovers
  <2> SUFFICES ASSUME CalibrationSound, pc \in {"failed", "succeeded"}, Bounded
               PROVE  /\ Taken(basis.sent) <= account.exposure
                      /\ basis.open \/ forwarded = basis.sent
    BY DEF AccountCovers
  <2>1. /\ TypeOK /\ SpendSound /\ UnstartedSound /\ BasisSound /\ AccountSound
    BY DEF CalibrationSound, CalibrationHolds, RunSound
  <2>2. basis.open \/ forwarded = basis.sent
    BY <2>1 DEF BasisSound
  <2>3. CASE basis = NoBasis /\ account.exposure = Allocation
    BY <2>1, <2>3 DEF SpendSound, NoBasis
  <2>4. CASE basis = NoBasis /\ ~started
    <3>1. forwarded = {}
      BY <2>1, <2>4 DEF UnstartedSound
    <3>2. charge \in [Request -> Int]
      BY <2>1, AmountsAreNat
    <3>3. \A q \in Request : Share(charge, Request, q) = 0
      BY <2>1, <3>1 DEF SpendSound, Share
    <3>4. Taken(Request) = 0
      BY <3>2, <3>3, TotalNothing DEF Taken
    <3>5. 0 <= account.exposure
      BY <2>1, LedgerAssumption DEF TypeOK
    <3>. QED
      BY <2>2, <2>4, <3>4, <3>5 DEF NoBasis
  <2>. QED
    BY <2>1, <2>2, <2>3, <2>4 DEF AccountSound
<1>. QED
  BY <1>1, CalibrationAlwaysHolds, PTL

===============================================================================
