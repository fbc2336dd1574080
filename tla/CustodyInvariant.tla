-------------------------- MODULE CustodyInvariant --------------------------
(***************************************************************************)
(* Why a released login is the newest one and idle: the inductive          *)
(* invariant of CredentialCustody, one part per kind of actor.             *)
(***************************************************************************)
EXTENDS CredentialCustody

(* A copy the provider still accepts. *)
Latest(n) == n \in Native /\ n.turn = newest[n.login]

(* A copy of login l that is not older than turn t. *)
NotOlder(n, l, t) == n # NoNative => n.login = l /\ n.turn >= t

Early == {"unbound", "binding", "setup", "staging", "launch"}
Live  == {"held", "active", "launching", "spawned", "running", "renewed",
          "loggingOut", "closing"}

(* A released login is the newest of its chain. *)
RecordSound == authority.phase = "ready" => Latest(authority.native)

(* A client runs only for the consumer that owns the record, on the login  *)
(* of the record, and never has less than it has saved.                    *)
BoxSound(b) ==
    /\ ~box[b].up => b \in Hook /\ box[b] = DeadBox
    /\ Active(b) =>
          /\ authority.owner = OwnerOf(b)
          /\ box[b].exit = "none"
          /\ box[b].held.login = authority.native.login
          /\ box[b].copy # NoNative => box[b].copy.turn <= box[b].held.turn

(* An open scope owns the record.  Unless its lineage is poisoned, the     *)
(* login it holds is the newest one whenever no hook is inside a native    *)
(* execution.                                                              *)
ScopeSound(c) ==
    LET s == scope[c]
    IN /\ s.pc = "claiming" => s.seen # Absent /\ s.seen.phase = "ready"
       /\ s.pc \in {"idle", "claiming"} =>
             ~s.closed /\ \A h \in HooksOf(c) : hook[h].pc = "unbound"
       /\ s.pc = "open" =>
             /\ authority.owner = c
             /\ s.native # NoNative
             /\ s.native.login = authority.native.login
             /\ s.closed => s.poisoned
             /\ ~s.closed => /\ authority = s.seen
                             /\ s.seen.native.turn <= s.native.turn
             /\ ~s.poisoned =>
                   \/ Latest(s.native)
                   \/ \E h \in HooksOf(c) : hook[h].pc \in {"running", "capture"}

(* What a hook knows of its box.  While the lineage is not poisoned, the   *)
(* client runs only inside the execution, and its renewals are found in    *)
(* the copy when it has ended well.                                        *)
HookSound(h) ==
    LET s == scope[OwnerOf(h)]
    IN /\ hook[h].pc = "gone" => s.pc = "dead"
       /\ hook[h].pc = "unbound" => box[h].copy = NoNative /\ ~Active(h)
       /\ hook[h].stopped => hook[h].pc = "ready" /\ ~box[h].up
       /\ s.pc = "open" =>
             /\ NotOlder(box[h].copy, s.native.login, s.native.turn)
             /\ NotOlder(box[h].held, s.native.login, s.native.turn)
             /\ hook[h].pc \in Early => ~Active(h)
             /\ ~s.poisoned =>
                   /\ hook[h].pc # "running" => ~Active(h)
                   /\ hook[h].pc \notin {"running", "capture"} =>
                         box[h].copy \in {NoNative, s.native}
                   /\ hook[h].pc = "running" =>
                         IF Active(h) THEN Latest(box[h].held)
                         ELSE box[h].exit = "good" => Latest(box[h].copy)
                   /\ hook[h].pc = "capture" =>
                         box[h].copy = NoNative \/ Latest(box[h].copy)

(* Of two hooks of a scope that were bound, one has a box proved stopped. *)
HooksApart ==
    \A h, k \in Hook :
        /\ OwnerOf(h) = OwnerOf(k) /\ h # k
        /\ {hook[h].pc, hook[k].pc} \cap {"unbound", "gone"} = {}
        => hook[h].stopped \/ hook[k].stopped

(* A session that has its claim owns the record, and unless it is in doubt *)
(* its private copy is the newest one once its child has ended.            *)
CliSound(s) ==
    LET c == cli[s]
        d == box[desk(s)]
    IN /\ c.pc = "claiming" => c.seen # Absent /\ c.seen.phase = "ready"
       /\ c.closed => c.pc \in {"closing", "over", "exited", "dead"}
       /\ c.pc \in Live =>
             /\ authority.owner = s
             /\ d.copy # NoNative
             /\ d.copy.login = authority.native.login
             /\ ~c.closed => /\ authority = c.seen
                             /\ c.seen.native.turn <= d.copy.turn
       /\ \/ c.pc \in {"held", "active", "launching", "renewed", "loggingOut"}
          \/ c.pc = "closing" /\ ~c.ambiguous
          => ~Active(desk(s)) /\ Latest(d.copy)
       /\ c.pc \in {"spawned", "running"} =>
             IF Active(desk(s)) THEN Latest(d.held)
             ELSE d.exit = "good" => Latest(d.copy)

(* A login that is still to be made is nowhere, and the record that is to  *)
(* be replaced has no consumer that still runs.                            *)
SeederSound(g) ==
    /\ seeder[g].pc # "over" =>
          /\ newest[g] = 0
          /\ authority.native # NoNative => authority.native.login # g
    /\ seeder[g].pc = "publish" /\ seeder[g].seen.owner # NoOwner =>
          ProvenStopped(seeder[g].seen.owner)

(* The invariant: whoever owns the record knows where its newest turn is.  *)
CustodyHolds ==
    /\ RecordSound
    /\ HooksApart
    /\ \A b \in Box : BoxSound(b)
    /\ \A c \in Scope : ScopeSound(c)
    /\ \A h \in Hook : HookSound(h)
    /\ \A s \in Cli : CliSound(s)
    /\ \A g \in Seeder : SeederSound(g)

(* ... and clients take turns: at most one runs in all the boxes.          *)
OneActive == \A b, d \in Box : Active(b) /\ Active(d) => b = d

=============================================================================
