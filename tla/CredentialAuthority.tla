------------------------ MODULE CredentialAuthority ------------------------
(***************************************************************************)
(* A native subscription login and the one record that says who may use    *)
(* it.                                                                     *)
(*                                                                         *)
(* A login is a chain of refresh tokens: whenever a native client renews   *)
(* it, the provider moves to the next turn of the chain and the earlier    *)
(* turns are worthless.  The authority (a private file or S3 object per    *)
(* profile) holds a copy of one turn.  A consumer claims the record, gives *)
(* the copy to native clients in boxes (a trial's sandbox, or the private  *)
(* directory of a CLI session), collects what they wrote, and releases the *)
(* record only if nothing newer can exist elsewhere.                       *)
(***************************************************************************)
EXTENDS Integers

CONSTANTS Scope,     \* runs: one RuntimeAuthScope each
          Trial,     \* trials of a run: one RuntimeAuthHook and box each
          Cli,       \* CLI sessions: auth_session under a CLI operation
          Seeder,    \* logins and reseeds
          MaxTurn    \* renewals of one login that are explored

ASSUME CustodyAssumption ==
    /\ Scope \cap Cli = {} /\ "nobody" \notin Scope \cup Cli
    /\ MaxTurn \in Nat \ {0}

VARIABLES authority,   \* the session record, or Absent
          newest,      \* the provider's current turn of each login made
          box          \* what runs and lies in each box

Consumer == Scope \cup Cli
Hook     == Scope \X Trial
Desk     == Cli \X {"desk"}          \* the private directory of a CLI session
Box      == Hook \cup Desk
OwnerOf(b) == b[1]
BoxesOf(c) == {b \in Box : OwnerOf(b) = c}

-----------------------------------------------------------------------------
(* The record. *)

Login      == Seeder                  \* each login or reseed makes one login
Turn       == 0..MaxTurn
Native     == [login : Login, turn : Turn]
NoNative   == [login |-> "none"]
MaybeNative == Native \cup {NoNative}

NoOwner == "nobody"
Absent  == [phase |-> "absent", generation |-> 0, revision |-> 0,
            owner |-> NoOwner, native |-> NoNative]

(* What SessionState.decode accepts, of a record that holds a native login  *)
(* until it is logged out.                                                 *)
Session == {s \in [phase : {"ready", "claimed", "logged_out"}, generation : Nat,
                   revision : Nat, owner : Consumer \cup {NoOwner},
                   native : MaybeNative] :
               /\ s.phase = "claimed" <=> s.owner # NoOwner
               /\ s.phase = "logged_out" <=> s.native = NoNative}

Seeded(generation, native) ==
    [phase |-> "ready", generation |-> generation, revision |-> 0,
     owner |-> NoOwner, native |-> native]
Claimed(s, c)         == [s EXCEPT !.phase = "claimed", !.owner = c]
Checkpointed(s, n)    == [s EXCEPT !.native = n, !.revision = @ + 1]
Preserved(s, n)       == [s EXCEPT !.native = n]
Released(s, n)        == [s EXCEPT !.phase = "ready", !.owner = NoOwner,
                                   !.native = n, !.revision = @ + 1]
(* Faulty variant of LoggedOut: the login stays in the record. *)
LoggedOutInPlace(s)   == [s EXCEPT !.phase = "logged_out", !.owner = NoOwner,
                                   !.revision = @ + 1]
LoggedOut(s)          == [s EXCEPT !.phase = "logged_out", !.owner = NoOwner,
                                   !.native = NoNative, !.revision = @ + 1]

(* One conditional write.  The version of a record is its content.  It is  *)
(* sent once and never repeated, and a lost reply leaves both outcomes     *)
(* possible.                                                               *)
Reply == {"acknowledged", "refused", "ambiguous"}

(* Faulty variant of CompareAndSwap: an unconditional write. *)
BlindWrite(seen, new, reply) ==
    /\ reply = "acknowledged"
    /\ authority' = new

CompareAndSwap(seen, new, reply) ==
    \/ /\ reply \in {"acknowledged", "ambiguous"}
       /\ authority = seen
       /\ authority' = new
    \/ /\ reply = "refused" => authority # seen
       /\ reply # "acknowledged"
       /\ UNCHANGED authority

(* Faulty variant of Claimable: a claimed record can be claimed again. *)
ClaimableWhateverPhase(generation) ==
    /\ authority # Absent
    /\ authority.generation = generation
    /\ authority.native # NoNative

(* What a claim may begin from: the generation the reference names, ready. *)
Claimable(generation) ==
    /\ authority # Absent
    /\ authority.generation = generation
    /\ authority.phase = "ready"

-----------------------------------------------------------------------------
(* Boxes.  "copy" is the native auth file, "held" what a running client    *)
(* has in memory, "exit" how the last client of the box ended.             *)

Contents == [up : BOOLEAN, copy : MaybeNative, held : MaybeNative,
             exit : {"none", "good", "bad"}]

EmptyBox == [up |-> TRUE, copy |-> NoNative, held |-> NoNative, exit |-> "none"]
DeadBox  == [EmptyBox EXCEPT !.up = FALSE]

Active(b) == box[b].held # NoNative

Stage(b, n)  == box' = [box EXCEPT ![b].copy = n]
Start(b)     == box' = [box EXCEPT ![b].held = box[b].copy, ![b].exit = "none"]
Destroy(b)   == box' = [box EXCEPT ![b] = DeadBox]

(* A client renews its login with the provider: only the newest turn is    *)
(* accepted.                                                               *)
Rotate(b) ==
    /\ Active(b)
    /\ LET n == box[b].held
       IN /\ n.turn = newest[n.login]
          /\ n.turn < MaxTurn
          /\ newest' = [newest EXCEPT ![n.login] = @ + 1]
          /\ box' = [box EXCEPT ![b].held.turn = @ + 1]
    /\ UNCHANGED authority

(* A client writes what it has to its auth file. *)
Persist(b) ==
    /\ Active(b)
    /\ box[b].held # box[b].copy
    /\ Stage(b, box[b].held)
    /\ UNCHANGED <<authority, newest>>

(* A client ends.  It exits with 0 only when its renewal is on disk; after *)
(* a signal or an error anything is possible.                              *)
ClientEnds(b) ==
    /\ Active(b)
    /\ \E exit \in {"good", "bad"} :
          /\ exit = "good" => box[b].held = box[b].copy
          /\ box' = [box EXCEPT ![b].held = NoNative, ![b].exit = exit]
    /\ UNCHANGED <<authority, newest>>

(* A sandbox ends for reasons of its own, with everything in it. *)
BoxDies(b) ==
    /\ b \in Hook
    /\ box[b].up
    /\ Destroy(b)
    /\ UNCHANGED <<authority, newest>>

=============================================================================
