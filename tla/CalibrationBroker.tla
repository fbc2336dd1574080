--------------------------- MODULE CalibrationBroker ---------------------------
(***************************************************************************)
(* The broker process of a calibration attempt: BrokerState, the request   *)
(* handler do_POST, and the three threads of _broker_child_main (requests, *)
(* control_reader and the main loop).  It alone holds the provider's key;  *)
(* it lets an agent spend on that key from activation to drain, expiry or  *)
(* the death of its parent, and it keeps ledger.json for the parent.       *)
(*                                                                         *)
(* A snapshot for ledger.json is taken under the state lock, but cost and  *)
(* reservations are read one after the other, and requests settle without  *)
(* the state lock: SnapshotBegins and SnapshotEnds.                        *)
(***************************************************************************)
EXTENDS SpendLedger

CONSTANTS MaxConcurrency,   \* MAX_CONCURRENCY
          FaultCap          \* failures of Docker, of a write, of a process

ASSUME BrokerAssumption ==
    MaxConcurrency \in Nat \ {0} /\ FaultCap \in Nat

VARIABLES gate,       \* what BrokerState grants
          expired,    \* the deadline has passed, or the lease has lapsed
          stage,      \* Request -> how far do_POST got
          worst,      \* Request -> the amount it was reserved at
          forwarded,  \* requests sent under the key
          charge,     \* Request -> what the provider took for it
          records,    \* requests with a RequestRecord
          owes,       \* threads that are about to call write_evidence
          writer,     \* the thread inside write_evidence
          seen,       \* the part of its snapshot it has read
          file,       \* ledger.json
          proc,       \* the process: "none", "up", "stopping", "dead"
          stopping,   \* the stop event
          reading,    \* control_reader is in its loop
          pipe,       \* an unread message on the control pipe
          pipeOpen,   \* the parent still holds the pipe
          beating,    \* the parent's heartbeat thread runs
          agent,      \* the container that can send requests exists
          faults      \* failures so far

gateVars   == <<gate, expired>>
askVars    == <<stage, worst, forwarded, charge, records>>
fileVars   == <<owes, writer, seen, file>>
procVars   == <<proc, stopping, reading>>
parentVars == <<pipe, pipeOpen, beating, agent>>
brokerVars == <<ledgerVars, gateVars, askVars, fileVars, procVars, parentVars,
                faults>>

(* Threads: a request is handled by the thread of its ordinal.             *)
NoThread == 0
Main     == -1
Reader   == -2
Prober   == -3

Unread == [cost |-> 0, fatal |-> FALSE]

NoFile == [active |-> FALSE, activated |-> FALSE, draining |-> FALSE,
           probed |-> FALSE, count |-> 0, records |-> {}, cost |-> 0,
           reserved |-> 0, fatal |-> FALSE, exists |-> FALSE]

Closed == [active |-> FALSE, activated |-> FALSE, draining |-> FALSE,
           keyed |-> TRUE, probed |-> FALSE]

BrokerInit ==
    /\ LedgerInit /\ gate = Closed
    /\ expired = FALSE
    /\ stage = [r \in Request |-> "idle"] /\ charge = [r \in Request |-> 0]
    /\ worst = [r \in Request |-> 0]
    /\ forwarded = {} /\ records = {}
    /\ owes = {} /\ writer = NoThread /\ seen = Unread
    /\ file = NoFile /\ proc = "none" /\ stopping = FALSE /\ reading = FALSE
    /\ pipe = "none" /\ pipeOpen = FALSE /\ beating = FALSE /\ agent = FALSE
    /\ faults = 0

Alive == proc \in {"up", "stopping"}

(* The state lock can be taken: no snapshot is being read.                 *)
Unlocked == Alive /\ writer = NoThread

At(r, s)   == stage[r] = s
To(r, s)   == stage' = [stage EXCEPT ![r] = s]
Owe(t)     == owes' = owes \cup {t} /\ UNCHANGED <<writer, seen, file>>
Counted    == {r \in Request : stage[r] # "idle"}
SlotHeld   == {r \in Request : stage[r] \in {"admitted", "refused", "sent", "stuck"}}

(* A thread of the request is running.                                     *)
Handling(r) == r \in owes \/ stage[r] \notin {"idle", "recorded", "stuck"}

(* _invalidate_locked: no authority, no key, and the upstreams are closed. *)
Invalidate ==
    /\ gate' = [gate EXCEPT !.active = FALSE, !.keyed = FALSE]
    /\ stopping' = TRUE

-----------------------------------------------------------------------------
(* write_evidence. *)

SnapshotBegins(t) ==
    /\ Unlocked /\ t \in owes
    /\ writer' = t /\ seen' = [cost |-> cost, fatal |-> fatal]
    /\ UNCHANGED <<ledgerVars, gateVars, askVars, owes, file, procVars,
                   parentVars, faults>>

SnapshotEnds ==
    /\ Alive /\ writer # NoThread
    /\ file' = [active |-> gate.active, activated |-> gate.activated,
                draining |-> gate.draining, probed |-> gate.probed,
                count |-> Cardinality(Counted), records |-> records,
                cost |-> seen.cost, reserved |-> reserved,
                fatal |-> seen.fatal, exists |-> TRUE]
    /\ owes' = owes \ {writer} /\ writer' = NoThread /\ seen' = Unread
    /\ UNCHANGED <<ledgerVars, gateVars, askVars, procVars, parentVars, faults>>

(* A write that fails ends a request that is not forwarded yet with its    *)
(* reservation and its slot kept, or loses a finished request's record;    *)
(* in control_reader it invalidates the broker and ends the reader.        *)
WriteFails ==
    /\ Alive /\ writer # NoThread /\ faults < FaultCap
    /\ faults' = faults + 1
    /\ writer' = NoThread /\ seen' = Unread
    /\ IF writer = Reader
       THEN /\ Invalidate /\ reading' = FALSE
            /\ UNCHANGED <<stage, owes>>
       ELSE /\ owes' = owes \ {writer}
            /\ stage' = [r \in Request |->
                 IF r = writer /\ At(r, "admitted") THEN "stuck" ELSE stage[r]]
            /\ UNCHANGED <<gate, stopping, reading>>
    /\ UNCHANGED <<ledgerVars, expired, worst, forwarded, charge, records, file,
                   proc, parentVars>>

-----------------------------------------------------------------------------
(* The request handler (do_POST). *)

(* authorize, _validate_request and begin_request.  The agent's connection *)
(* carries the body, so nothing is admitted once the agent is gone.        *)
Admit(r) ==
    /\ proc = "up" /\ agent /\ Unlocked /\ r = Cardinality(Counted) + 1
    /\ gate.active /\ ~expired
    /\ Cardinality(SlotHeld) < MaxConcurrency
    /\ \E amount \in Amounts :
          Reserve(r, amount) /\ worst' = [worst EXCEPT ![r] = amount]
    /\ To(r, "admitted") /\ Owe(r)
    /\ UNCHANGED <<gateVars, forwarded, charge, records, procVars, parentVars,
                   faults>>

(* Faulty variant of Noted: the file is not written before the send.       *)
NotedUnwritten(r) == At(r, "admitted")

(* Admitted, and the ledger file already counts it.                        *)
Noted(r) == At(r, "admitted") /\ r \notin owes

(* Faulty variant of Send: the key is enough, as for a price lookup.       *)
SendWhileKeyed(r) ==
    /\ Unlocked /\ Noted(r) /\ gate.keyed /\ ~expired
    /\ To(r, "sent") /\ forwarded' = forwarded \cup {r}
    /\ \E c \in Charges : charge' = [charge EXCEPT ![r] = c]
    /\ UNCHANGED <<ledgerVars, gateVars, worst, records, fileVars, procVars,
                   parentVars, faults>>

(* send_connected_request: authority is checked again at the send.  The    *)
(* provider takes its price from here on, and nothing without the key.     *)
Send(r) ==
    /\ Unlocked /\ Noted(r) /\ gate.active /\ ~expired
    /\ To(r, "sent") /\ forwarded' = forwarded \cup {r}
    /\ \E c \in IF gate.keyed THEN Charges ELSE {0} :
          charge' = [charge EXCEPT ![r] = c]
    /\ UNCHANGED <<ledgerVars, gateVars, worst, records, fileVars, procVars,
                   parentVars, faults>>

Refuse(r) ==
    /\ Unlocked /\ Noted(r) /\ (expired \/ ~gate.active)
    /\ To(r, "refused")
    /\ IF expired THEN Invalidate /\ Owe(r)
                  ELSE UNCHANGED <<gate, stopping, fileVars>>
    /\ UNCHANGED <<ledgerVars, expired, worst, forwarded, charge, records, proc,
                   reading, parentVars, faults>>

(* Not sent: refused, or the provider could not be reached.                *)
Release(r) ==
    /\ Alive /\ (Noted(r) \/ (At(r, "refused") /\ r \notin owes))
    /\ ReleaseUnforwarded(r) /\ To(r, "released")
    /\ UNCHANGED <<gateVars, worst, forwarded, charge, records, fileVars,
                   procVars, parentVars, faults>>

(* The price arrives, with the answer or from the provider's record of the *)
(* generation (_poll_openrouter_generation): finish_request.               *)
Price(r) ==
    /\ Alive /\ At(r, "sent")
    /\ Settle(r, charge[r]) /\ To(r, "settled")
    /\ UNCHANGED <<gateVars, worst, forwarded, charge, records, fileVars,
                   procVars, parentVars, faults>>

(* Faulty variant of Retain: a request without a price is given back.      *)
RetainNothing(r) ==
    /\ Alive /\ At(r, "sent")
    /\ ReleaseUnforwarded(r) /\ To(r, "released")
    /\ UNCHANGED <<gateVars, worst, forwarded, charge, records, fileVars,
                   procVars, parentVars, faults>>

(* It does not: the connection failed or was closed by _invalidate_locked. *)
Retain(r) ==
    /\ Alive /\ At(r, "sent")
    /\ RetainUnknown /\ To(r, "retained")
    /\ UNCHANGED <<gateVars, worst, forwarded, charge, records, fileVars,
                   procVars, parentVars, faults>>

Record(r) ==
    /\ Unlocked /\ stage[r] \in {"settled", "retained", "released"}
    /\ records' = records \cup {r} /\ To(r, "recorded") /\ Owe(r)
    /\ UNCHANGED <<ledgerVars, gateVars, worst, forwarded, charge, procVars,
                   parentVars, faults>>

Handler(r) == Admit(r) \/ Send(r) \/ Refuse(r) \/ Release(r) \/ Price(r)
                \/ Retain(r) \/ Record(r)

-----------------------------------------------------------------------------
(* The control pipe (control_reader) and the probe. *)

(* consume_probe: the token works once.                                    *)
ConsumeProbe ==
    /\ proc = "up" /\ Unlocked /\ ~expired /\ gate.keyed /\ ~gate.probed
    /\ gate' = [gate EXCEPT !.probed = TRUE] /\ Owe(Prober)
    /\ UNCHANGED <<ledgerVars, expired, askVars, procVars, parentVars,
                   faults>>

Listens == Unlocked /\ reading /\ Reader \notin owes

(* A rejected message ends the reader and the broker's authority.          *)
Reject == Invalidate /\ reading' = FALSE /\ Owe(Reader)

ReadActivate ==
    /\ Listens /\ pipe = "activate" /\ pipe' = "none"
    /\ IF expired \/ gate.activated \/ gate.active \/ ~gate.probed
       THEN Reject
       ELSE /\ gate' = [gate EXCEPT !.active = TRUE, !.activated = TRUE]
            /\ Owe(Reader) /\ UNCHANGED <<stopping, reading>>
    /\ UNCHANGED <<ledgerVars, expired, askVars, proc, pipeOpen, beating, agent,
                   faults>>

(* The key stays: requests in flight may still be settled.                 *)
ReadDrain ==
    /\ Listens /\ pipe = "drain" /\ pipe' = "none"
    /\ IF expired \/ ~gate.active \/ ~gate.activated
       THEN Reject
       ELSE /\ gate' = [gate EXCEPT !.active = FALSE, !.draining = TRUE]
            /\ Owe(Reader) /\ UNCHANGED <<stopping, reading>>
    /\ UNCHANGED <<ledgerVars, expired, askVars, proc, pipeOpen, beating,
                   agent, faults>>

(* An accepted heartbeat only keeps the lease from lapsing.                *)
ReadLateHeartbeat ==
    /\ Listens /\ beating /\ pipe = "none" /\ (expired \/ ~gate.active)
    /\ Reject
    /\ UNCHANGED <<ledgerVars, expired, askVars, proc, parentVars, faults>>

(* Faulty variant of ReadEnd: the reader's end does not stop the broker.   *)
ReadEndOnly ==
    /\ Listens /\ pipe = "none" /\ ~pipeOpen
    /\ reading' = FALSE
    /\ UNCHANGED <<ledgerVars, gateVars, askVars, fileVars, proc, stopping,
                   parentVars, faults>>

(* End of file: the parent closed the pipe, or died.                       *)
ReadEnd ==
    /\ Listens /\ pipe = "none" /\ ~pipeOpen
    /\ reading' = FALSE /\ stopping' = TRUE
    /\ UNCHANGED <<ledgerVars, gateVars, askVars, fileVars, proc, parentVars,
                   faults>>

Control == ReadActivate \/ ReadDrain \/ ReadLateHeartbeat \/ ReadEnd

-----------------------------------------------------------------------------
(* The main loop, the end of the process, and time. *)

(* lease_expired, every tenth of a second.  A request, a heartbeat or a    *)
(* socket timeout that meets the expiry first invalidates in the same way. *)
Watch ==
    /\ proc = "up" /\ ~stopping /\ Unlocked /\ Main \notin owes
    /\ expired \/ (gate.activated /\ ~gate.active /\ ~gate.draining)
    /\ Invalidate /\ Owe(Main)
    /\ UNCHANGED <<ledgerVars, expired, askVars, proc, reading, parentVars,
                   faults>>

(* CalibrationBroker.stop.                                                 *)
Stop ==
    /\ proc = "up" /\ stopping /\ Unlocked /\ Main \notin owes
    /\ proc' = "stopping" /\ Invalidate /\ Owe(Main)
    /\ UNCHANGED <<ledgerVars, expired, askVars, reading, parentVars,
                   faults>>

(* The memory of the process is lost, with the ledger and its locks.       *)
Killed ==
    /\ proc' = "dead" /\ reading' = FALSE /\ stopping' = FALSE
    /\ cost' = 0 /\ reserved' = 0 /\ fatal' = FALSE
    /\ reservations' = [r \in Request |-> 0]
    /\ gate' = Closed /\ expired' = FALSE
    /\ stage' = [r \in Request |-> "idle"] /\ records' = {}
    /\ owes' = {} /\ writer' = NoThread /\ seen' = Unread
    /\ UNCHANGED <<worst, forwarded, charge, file>>

(* The interpreter ends with its last thread, control_reader included.     *)
Exit ==
    /\ proc = "stopping" /\ owes = {} /\ ~reading
    /\ \A r \in Request : ~Handling(r)
    /\ Killed /\ UNCHANGED <<parentVars, faults>>

Crash ==
    /\ Alive /\ faults < FaultCap /\ faults' = faults + 1
    /\ Killed /\ UNCHANGED parentVars

(* _expired_locked, as time passes: the attempt's deadline, or until the   *)
(* drain two seconds without a heartbeat.  A drain after the lease lapsed  *)
(* is rejected, so that the two need not be told apart; and without the    *)
(* key every request is refused anyway.                                    *)
Expire ==
    /\ Alive /\ gate.keyed /\ ~expired /\ expired' = TRUE
    /\ UNCHANGED <<ledgerVars, gate, askVars, fileVars, procVars, parentVars,
                   faults>>

Thread == Request \cup {Main, Reader, Prober}

BrokerStep ==
    \/ \E t \in Thread : SnapshotBegins(t)
    \/ SnapshotEnds \/ WriteFails
    \/ \E r \in Request : Handler(r)
    \/ Control \/ Watch \/ Stop \/ Exit \/ Crash \/ Expire

GateType == [active : BOOLEAN, activated : BOOLEAN, draining : BOOLEAN,
             keyed : BOOLEAN, probed : BOOLEAN]

Stage == {"idle", "admitted", "refused", "sent", "settled", "retained",
          "released", "recorded", "stuck"}

BrokerTypeOK ==
    /\ LedgerTypeOK
    /\ gate \in GateType
    /\ expired \in BOOLEAN
    /\ stage \in [Request -> Stage]
    /\ forwarded \subseteq Request /\ records \subseteq Request
    /\ charge \in [Request -> Charges \cup {0}]
    /\ worst \in [Request -> Amounts \cup {0}]
    /\ owes \subseteq Thread /\ writer \in owes \cup {NoThread}
    /\ proc \in {"none", "up", "stopping", "dead"}
    /\ stopping \in BOOLEAN /\ reading \in BOOLEAN
    /\ pipe \in {"none", "activate", "drain"}
    /\ pipeOpen \in BOOLEAN /\ beating \in BOOLEAN /\ agent \in BOOLEAN
    /\ faults \in 0..FaultCap
===============================================================================
