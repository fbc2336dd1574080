------------------------------ MODULE SpendLedger ------------------------------
(***************************************************************************)
(* The spend ledger of a calibration broker (SpendLedger in                *)
(* run_authority_fencing_calibration.py): what was paid, plus the worst    *)
(* case of every request in flight.  Each operation holds the ledger's own *)
(* lock, which is not the lock of the broker's state.  A broker starts     *)
(* with no prior exposure.                                                 *)
(***************************************************************************)
EXTENDS Integers, FiniteSets, FiniteSetsExt

CONSTANTS MaxRequests,  \* MAX_REQUESTS
          Amounts,      \* worst cases a request can be reserved at
          Charges,      \* what the provider can charge for a request
          Allocation    \* max_total, the attempt's share of the budget

ASSUME LedgerAssumption ==
    /\ MaxRequests \in Nat \ {0}
    /\ Amounts \subseteq Nat \ {0} /\ Charges \subseteq Nat
    /\ Allocation \in Nat \ {0}

(* Model requests of one attempt, by ordinal. *)
Request == 1..MaxRequests

(* The sum of an amount per request over a set of requests. *)
Total(amounts, R) ==
    LET upTo[n \in 0..MaxRequests] ==
          IF n = 0 THEN 0 ELSE upTo[n - 1] + (IF n \in R THEN amounts[n] ELSE 0)
    IN upTo[MaxRequests]

VARIABLES cost,           \* authoritative cost of the settled requests
          reserved,       \* sum of the reservations
          reservations,   \* Request -> amount, 0 for none
          fatal           \* no reservation is granted any more

ledgerVars == <<cost, reserved, reservations, fatal>>

LedgerInit ==
    /\ cost = 0 /\ reserved = 0 /\ fatal = FALSE
    /\ reservations = [r \in Request |-> 0]

Covers(amount) == cost + reserved + amount <= Allocation

Reserve(r, amount) ==
    /\ ~fatal /\ Covers(amount)
    /\ reserved' = reserved + amount
    /\ reservations' = [reservations EXCEPT ![r] = amount]
    /\ UNCHANGED <<cost, fatal>>

Unreserve(r) ==
    /\ reserved' = reserved - reservations[r]
    /\ reservations' = [reservations EXCEPT ![r] = 0]

(* A price above the reservation is fatal and enters no sum.  An answer    *)
(* that is paid for can still make the ledger fatal when it cannot be      *)
(* delivered (the end of do_POST's exception handler).                     *)
Settle(r, price) ==
    LET rest  == cost + reserved - reservations[r] + price
        sound == price <= reservations[r] /\ rest <= Allocation
    IN /\ Unreserve(r)
       /\ cost' = IF sound THEN cost + price ELSE cost
       /\ fatal' \in IF sound THEN {fatal, TRUE} ELSE {TRUE}

(* release_unforwarded, then fail.                                         *)
ReleaseUnforwarded(r) == Unreserve(r) /\ fatal' = TRUE /\ UNCHANGED cost

RetainUnknown == fatal' = TRUE /\ UNCHANGED <<cost, reserved, reservations>>

LedgerTypeOK ==
    /\ cost \in Nat /\ reserved \in Nat /\ fatal \in BOOLEAN
    /\ reservations \in [Request -> Amounts \cup {0}]
===============================================================================
