---------------------------- MODULE RunOwnership ----------------------------
(***************************************************************************)
(* What the admission protocol promises about one run, without admission   *)
(* records, store calls or recovery: the right to run it is held by at     *)
(* most one call at a time, passes on only by release, ends with the first *)
(* proof or with cancellation, and only its holder ever proves the run.    *)
(***************************************************************************)
CONSTANTS Call, NoCall

VARIABLES holder,   \* the call that holds the right to execute the run
          proof,    \* the call whose terminal record is the run's proof
          stage     \* "open", "stopping" once cancellation is recorded, "closed"

vars == <<holder, proof, stage>>

Init == holder = NoCall /\ proof = NoCall /\ stage = "open"

(* Nobody holds the run, nothing is proved and nothing is cancelled. *)
Acquire(c) ==
    /\ stage = "open" /\ holder = NoCall /\ proof = NoCall
    /\ holder' = c
    /\ UNCHANGED <<proof, stage>>

(* The holder is replaceable only while it has proved nothing and nobody   *)
(* asked for cancellation.                                                 *)
Release ==
    /\ stage = "open" /\ holder # NoCall /\ proof = NoCall
    /\ holder' = NoCall
    /\ UNCHANGED <<proof, stage>>

Prove ==
    /\ holder # NoCall /\ proof = NoCall
    /\ proof' = holder
    /\ UNCHANGED <<holder, stage>>

(* Cancellation stops a held run first; an unheld one closes at once. *)
RequestStop ==
    /\ stage = "open" /\ holder # NoCall
    /\ stage' = "stopping"
    /\ UNCHANGED <<holder, proof>>

Close ==
    /\ \/ stage = "stopping"
       \/ stage = "open" /\ holder = NoCall
       \/ stage = "open" /\ proof # NoCall
    /\ stage' = "closed"
    /\ UNCHANGED <<holder, proof>>

Next == (\E c \in Call : Acquire(c)) \/ Release \/ Prove \/ RequestStop \/ Close

Spec == Init /\ [][Next]_vars
=============================================================================
