------------------------- MODULE CalibrationInvariant -------------------------
(***************************************************************************)
(* What holds between the steps of a calibration attempt: how the broker's *)
(* books relate to what the provider takes, what a ledger.json that may    *)
(* have been read in the middle of a settlement still vouches for, and     *)
(* what the runner may conclude from the one it holds.                     *)
(***************************************************************************)
EXTENDS CalibrationRun

-----------------------------------------------------------------------------
(* The broker's books, until its memory is lost. *)

(* A request by how far it got: nothing is sent before it is reserved in   *)
(* full, and its reservation is only lost to a price or a release.         *)
RequestSound(r) ==
    /\ r \in records <=> stage[r] = "recorded"
    /\ reservations[r] \in {0, worst[r]}
    /\ stage[r] = "idle" => reservations[r] = 0
    /\ stage[r] \in {"admitted", "refused", "sent", "retained"} =>
          reservations[r] = worst[r]
    /\ stage[r] \in {"idle", "admitted", "refused", "released", "stuck"} =>
          r \notin forwarded
    /\ stage[r] # "idle" => worst[r] > 0

(* The price of every request that was settled within its reservation.     *)
Paid == [r \in Request |->
           IF r \in forwarded /\ reservations[r] = 0 /\ charge[r] <= worst[r]
           THEN charge[r] ELSE 0]

(* Ordinals are given in order, and the file counts a request from before  *)
(* it is sent.                                                             *)
CountSound ==
    /\ \E n \in 0..MaxRequests : Counted = 1..n
    /\ file.count <= Cardinality(Counted) /\ file.records \subseteq records
    /\ \A r \in Request :
          \/ r <= file.count \/ stage[r] \in {"idle", "stuck"}
          \/ stage[r] = "admitted" /\ r \in owes

(* The part of a snapshot that was read covers what was settled by then,   *)
(* and so every finished request whose reservation is gone.                *)
SnapshotSound ==
    /\ seen.cost \in Nat
    /\ writer # NoThread /\ Bounded =>
          Taken({r \in records : reservations[r] = 0}) <= seen.cost

BooksSound ==
    /\ \A r \in Request : RequestSound(r)
    /\ cost = Total(Paid, Request) /\ reserved = Total(reservations, Request)
    /\ CountSound /\ SnapshotSound

-----------------------------------------------------------------------------
(* ledger.json, which outlives its broker. *)

Vouches(d, R) == Taken(R) <= d.cost + d.reserved

DocumentTyped(d) ==
    /\ d.count \in 0..MaxRequests /\ d.records \subseteq 1..d.count
    /\ d.cost \in Nat /\ d.reserved \in Nat

FileSound ==
    /\ DocumentTyped(file)
    /\ forwarded \subseteq 1..file.count
    /\ Bounded => Vouches(file, file.records)

(* What the provider took in all, also from a broker that is gone.         *)
SpendSound ==
    /\ \A r \in Request : r \notin forwarded => charge[r] = 0
    /\ Bounded => Taken(Request) <= Allocation

-----------------------------------------------------------------------------
(* The runner. *)

(* Phases in which the activation was begun, or seen.                      *)
PhaseSound ==
    /\ pc = "start" <=> proc = "none"
    /\ pc = "start" => basis = NoBasis
    /\ pc = "activating" => started
    /\ pc \in {"working", "removed", "draining", "awaiting", "reading",
               "validating"} => confirmed
    /\ (drained => confirmed) /\ (confirmed => started)

(* Before a runner marked the activation nothing was or can be sent.       *)
UnstartedSound ==
    pc # "gone" /\ ~started =>
        pipe # "activate" /\ ~gate.active /\ forwarded = {}

NoMore == proc = "dead" \/ (gate.draining /\ ~gate.active)

(* The runner's document covers what was sent before it was read, and that *)
(* was everything if the broker was drained or gone.                       *)
BasisSound ==
    /\ basis = NoBasis \/ basis.sent \subseteq forwarded
    /\ basis.open \/ (basis.sent = forwarded /\ NoMore)
    /\ document.exists =>
          /\ DocumentTyped(document) /\ basis.sent \subseteq forwarded
          /\ Bounded /\ Complete(document) => Vouches(document, basis.sent)

AccountSound ==
    pc \in {"failed", "succeeded"} =>
        \/ basis.sent \subseteq forwarded
             /\ (Bounded => Taken(basis.sent) <= account.exposure)
        \/ basis = NoBasis /\ account.exposure = Allocation
        \/ basis = NoBasis /\ ~started

RunSound == PhaseSound /\ UnstartedSound /\ BasisSound /\ AccountSound

CalibrationHolds ==
    /\ proc # "dead" => BooksSound
    /\ FileSound /\ SpendSound /\ RunSound
===============================================================================
