---------------------------- MODULE CustodyProofs ----------------------------
(***************************************************************************)
(* Proofs about CredentialCustody: the record of a login is released only  *)
(* with the newest turn of its chain and with no client running, whatever  *)
(* the runs, the CLI sessions and the reseeds do and wherever they die.    *)
(***************************************************************************)
EXTENDS CustodyInvariant, TLAPS

Inv == TypeOK /\ CustodyHolds

-----------------------------------------------------------------------------
(* Helpers of CredentialAuthority. *)

(* Boxes have one owner: a hook's is its scope, a desk's is its session.   *)
LEMMA Owners ==
    /\ \A h \in Hook : OwnerOf(h) \in Scope /\ h \in Box /\ h \notin Desk
    /\ \A s \in Cli : /\ desk(s) \in Box /\ desk(s) \in Desk /\ desk(s) \notin Hook
                      /\ OwnerOf(desk(s)) = s
    /\ \A b \in Desk : OwnerOf(b) \in Cli /\ b = desk(OwnerOf(b))
    /\ \A b \in Box : b \in Hook \/ b \in Desk
    /\ \A b \in Box : OwnerOf(b) \in Consumer
    /\ NoOwner \notin Consumer
    /\ \A c \in Scope : c \notin Cli
BY CustodyAssumption DEF Hook, Desk, Box, OwnerOf, desk, Consumer, NoOwner

(* What the record holds in each phase.                                    *)
LEMMA Phases ==
    ASSUME NEW s \in Session \cup {Absent}
    PROVE  /\ s = Absent <=> s.phase = "absent"
           /\ s.phase = "claimed" => s \in Session /\ s.native \in Native /\ s.owner \in Consumer
           /\ s.phase = "ready" => s \in Session /\ s.native \in Native /\ s.owner = NoOwner
           /\ s.phase \in {"absent", "ready", "claimed", "logged_out"}
           /\ s.owner # NoOwner <=> s.phase = "claimed"
           /\ s.owner \in Consumer \cup {NoOwner}
           /\ s.native # NoNative => s.phase \in {"ready", "claimed"} /\ s.native \in Native
           /\ s.generation \in Nat
BY DEF Session, Absent, MaybeNative, NoOwner, NoNative, Native

(* A native login is not the empty one.                                    *)
LEMMA Natives ==
    ASSUME NEW n \in MaybeNative
    PROVE  /\ n # NoNative => /\ n \in Native /\ n.login \in Seeder
                              /\ n.turn \in Turn /\ n.turn \in Int
           /\ n \in Native => n # NoNative
BY CustodyAssumption DEF MaybeNative, NoNative, Native, Login, Turn

(* What a claim, a checkpoint, a release or a logout makes of the record.   *)
LEMMA Writes ==
    ASSUME NEW s \in Session \cup {Absent}, NEW c \in Consumer, NEW n \in Native
    PROVE  /\ s.phase = "ready" =>
                /\ Claimed(s, c) \in Session
                /\ Claimed(s, c).phase = "claimed" /\ Claimed(s, c).owner = c
                /\ Claimed(s, c).native = s.native
                /\ Claimed(s, c).generation = s.generation
           /\ s.phase = "claimed" =>
                /\ Checkpointed(s, n) \in Session /\ Preserved(s, n) \in Session
                /\ Checkpointed(s, n).phase = "claimed"
                /\ Preserved(s, n).phase = "claimed"
                /\ Checkpointed(s, n).owner = s.owner /\ Preserved(s, n).owner = s.owner
                /\ Checkpointed(s, n).native = n /\ Preserved(s, n).native = n
                /\ Checkpointed(s, n).generation = s.generation
                /\ Preserved(s, n).generation = s.generation
                /\ Released(s, n) \in Session
                /\ Released(s, n).phase = "ready" /\ Released(s, n).owner = NoOwner
                /\ Released(s, n).native = n
                /\ Released(s, n).generation = s.generation
                /\ LoggedOut(s) \in Session
                /\ LoggedOut(s).phase = "logged_out" /\ LoggedOut(s).owner = NoOwner
                /\ LoggedOut(s).native = NoNative
                /\ LoggedOut(s).generation = s.generation
<1>0. NoOwner \notin Consumer /\ n # NoNative
  BY Owners, Natives DEF MaybeNative
<1>1. ASSUME s.phase = "ready"
      PROVE  /\ Claimed(s, c) \in Session
             /\ Claimed(s, c).phase = "claimed" /\ Claimed(s, c).owner = c
             /\ Claimed(s, c).native = s.native
             /\ Claimed(s, c).generation = s.generation
  BY <1>0, <1>1, Phases DEF Session, Claimed, Absent
<1>2. ASSUME s.phase = "claimed"
      PROVE  /\ s \in [phase : {"ready", "claimed", "logged_out"}, generation : Nat,
                        revision : Nat, owner : Consumer \cup {NoOwner},
                        native : MaybeNative]
             /\ s.owner # NoOwner /\ s.revision + 1 \in Nat /\ n \in MaybeNative
             /\ NoNative \in MaybeNative
  BY <1>0, <1>2, Phases DEF Session, Absent, MaybeNative
<1>3. ASSUME s.phase = "claimed"
      PROVE  /\ Checkpointed(s, n) \in Session
             /\ Checkpointed(s, n).phase = "claimed"
             /\ Checkpointed(s, n).owner = s.owner
             /\ Checkpointed(s, n).native = n
             /\ Checkpointed(s, n).generation = s.generation
  BY <1>0, <1>2, <1>3 DEF Session, Checkpointed
<1>4. ASSUME s.phase = "claimed"
      PROVE  /\ Preserved(s, n) \in Session
             /\ Preserved(s, n).phase = "claimed"
             /\ Preserved(s, n).owner = s.owner
             /\ Preserved(s, n).native = n
             /\ Preserved(s, n).generation = s.generation
  BY <1>0, <1>2, <1>4 DEF Session, Preserved
<1>5. ASSUME s.phase = "claimed"
      PROVE  /\ Released(s, n) \in Session
             /\ Released(s, n).phase = "ready" /\ Released(s, n).owner = NoOwner
             /\ Released(s, n).native = n
             /\ Released(s, n).generation = s.generation
  BY <1>0, <1>2, <1>5 DEF Session, Released
<1>6. ASSUME s.phase = "claimed"
      PROVE  /\ LoggedOut(s) \in Session
             /\ LoggedOut(s).phase = "logged_out" /\ LoggedOut(s).owner = NoOwner
             /\ LoggedOut(s).native = NoNative
             /\ LoggedOut(s).generation = s.generation
  BY <1>0, <1>2, <1>6 DEF Session, LoggedOut
<1> QED BY <1>1, <1>3, <1>4, <1>5, <1>6

(* A fresh login makes a ready record.                                     *)
LEMMA SeedWrites ==
    ASSUME NEW k \in Nat, NEW n \in Native
    PROVE  /\ Seeded(k, n) \in Session /\ Seeded(k, n).phase = "ready"
           /\ Seeded(k, n).owner = NoOwner /\ Seeded(k, n).native = n
           /\ Seeded(k, n).generation = k
<1> n # NoNative BY Natives DEF MaybeNative
<1> QED BY DEF Session, Seeded, MaybeNative

(* A conditional write happens over the record it has seen, or not at all.  *)
LEMMA Swaps ==
    ASSUME NEW seen, NEW new, NEW reply \in Reply, CompareAndSwap(seen, new, reply)
    PROVE  /\ \/ authority = seen /\ authority' = new
              \/ authority' = authority
           /\ reply = "acknowledged" => authority = seen /\ authority' = new
BY DEF CompareAndSwap, Reply

-----------------------------------------------------------------------------
(* What a step of one actor leaves alone. *)

(* The invariant, part by part, where the record is owned.                 *)
LEMMA OwnedBy ==
    ASSUME Inv
    PROVE  /\ authority \in Session \cup {Absent}
           /\ \A c \in Scope : scope[c].pc = "open" =>
                 /\ authority.owner = c /\ authority.phase = "claimed"
                 /\ authority.native \in Native
           /\ \A s \in Cli : cli[s].pc \in Live =>
                 /\ authority.owner = s /\ authority.phase = "claimed"
                 /\ authority.native \in Native
           /\ \A b \in Box : Active(b) =>
                 /\ authority.owner = OwnerOf(b) /\ authority.phase = "claimed"
                 /\ authority.native \in Native
<1>1. authority \in Session \cup {Absent} BY DEF Inv, TypeOK
<1>2. \A c \in Scope : scope[c].pc = "open" => authority.owner = c /\ c \in Consumer
  BY DEF Inv, CustodyHolds, ScopeSound, Consumer
<1>3. \A s \in Cli : cli[s].pc \in Live => authority.owner = s /\ s \in Consumer
  BY DEF Inv, CustodyHolds, CliSound, Consumer
<1>4. \A b \in Box : Active(b) => authority.owner = OwnerOf(b) /\ OwnerOf(b) \in Consumer
  BY Owners DEF Inv, CustodyHolds, BoxSound
<1>5. authority.owner \in Consumer => authority.phase = "claimed" /\ authority.native \in Native
  BY <1>1, Phases, Owners
<1> QED BY <1>1, <1>2, <1>3, <1>4, <1>5

(* A stop that is proved stays proved.                                     *)
LEMMA StopsStay ==
    ASSUME NEW c \in Consumer, ProvenStopped(c),
           c \in Scope => /\ scope'[c].pc \in {"ended", "dead"}
                          /\ \A b \in BoxesOf(c) : box[b].up = FALSE => box'[b].up = FALSE,
           c \in Cli => /\ cli'[c].pc \in {"exited", "dead"}
                        /\ operation'[c] = operation[c]
                        /\ ~Active(desk(c)) => box'[desk(c)].held = NoNative
    PROVE  ProvenStopped(c)'
<1>1. CASE c \in Scope
  <2>1. RunProvenStopped(c) BY <1>1 DEF ProvenStopped
  <2>2. \A b \in BoxesOf(c) : ~box'[b].up BY <1>1, <2>1 DEF RunProvenStopped
  <2> QED BY <1>1, <2>2 DEF ProvenStopped, RunProvenStopped, BoxesOf
<1>2. CASE c \notin Scope
  <2>1. c \in Cli BY <1>2 DEF Consumer
  <2>2. CliProvenStopped(c) BY <1>2 DEF ProvenStopped
  <2>3. ~Active(desk(c))' BY <2>1, <2>2 DEF CliProvenStopped, Active, desk
  <2> QED BY <1>2, <2>1, <2>2, <2>3 DEF ProvenStopped, CliProvenStopped
<1> QED BY <1>1, <1>2

(* A seeder that does not move keeps its part, when the login of the record *)
(* stays, no chain grows and what stopped stays stopped.                   *)
LEMMA SeedersKept ==
    ASSUME Inv, NEW g \in Seeder, seeder'[g] = seeder[g], newest'[g] = newest[g],
           authority'.native # NoNative =>
              authority.native # NoNative /\ authority'.native.login = authority.native.login,
           \A c \in Consumer : ProvenStopped(c) => ProvenStopped(c)'
    PROVE  SeederSound(g)'
<1>1. SeederSound(g) BY DEF Inv, CustodyHolds
<1>2. seeder[g].seen \in Session \cup {Absent} BY DEF Inv, TypeOK, SeederState
<1>3. seeder[g].seen.owner # NoOwner => seeder[g].seen.owner \in Consumer
  BY <1>2, Phases
<1> QED BY <1>1, <1>3 DEF SeederSound

(* A session that does not move keeps its part, unless the record changes  *)
(* while it owns it.                                                       *)
LEMMA CliKept ==
    ASSUME Inv, NEW s \in Cli, cli'[s] = cli[s],
           cli[s].pc \in Live =>
              /\ authority' = authority /\ newest' = newest
              /\ box'[desk(s)] = box[desk(s)]
    PROVE  CliSound(s)'
<1>1. CliSound(s) BY DEF Inv, CustodyHolds
<1>2. CASE cli[s].pc \in Live
  <2>1. authority' = authority /\ newest' = newest /\ box'[desk(s)] = box[desk(s)] BY <1>2
  <2>2. Active(desk(s))' <=> Active(desk(s)) BY <2>1 DEF Active, desk
  <2> QED BY <1>1, <2>1, <2>2 DEF CliSound, Latest
<1>3. CASE cli[s].pc \notin Live
  BY <1>1, <1>3 DEF CliSound, Live
<1> QED BY <1>2, <1>3

(* A scope that does not move keeps its part likewise.                     *)
LEMMA ScopeKept ==
    ASSUME Inv, NEW c \in Scope, scope'[c] = scope[c],
           \A h \in HooksOf(c) : hook'[h] = hook[h],
           scope[c].pc = "open" => authority' = authority /\ newest' = newest
    PROVE  ScopeSound(c)'
<1>1. ScopeSound(c) BY DEF Inv, CustodyHolds
<1>2. HooksOf(c)' = HooksOf(c) BY DEF HooksOf
<1>3. CASE scope[c].pc = "open"
  BY <1>1, <1>2, <1>3 DEF ScopeSound, Latest
<1>4. CASE scope[c].pc # "open"
  BY <1>1, <1>2, <1>4 DEF ScopeSound
<1> QED BY <1>3, <1>4

(* ... and so does a hook.                                                 *)
LEMMA HookKept ==
    ASSUME Inv, NEW h \in Hook, hook'[h] = hook[h], box'[h] = box[h],
           scope'[OwnerOf(h)] = scope[OwnerOf(h)],
           scope[OwnerOf(h)].pc = "open" => newest' = newest
    PROVE  HookSound(h)'
<1>1. HookSound(h) BY DEF Inv, CustodyHolds
<1>2. Active(h)' <=> Active(h) BY DEF Active
<1> QED BY <1>1, <1>2 DEF HookSound, Latest, NotOlder

(* A box that is left alone keeps its part while the record has the same   *)
(* owner and login, or when nothing runs in it.                            *)
LEMMA BoxKept ==
    ASSUME Inv, NEW b \in Box, box'[b] = box[b],
           Active(b) => /\ authority'.owner = authority.owner
                        /\ authority'.native.login = authority.native.login
    PROVE  BoxSound(b)'
<1>1. BoxSound(b) BY DEF Inv, CustodyHolds
<1>2. Active(b)' <=> Active(b) BY DEF Active
<1> QED BY <1>1, <1>2 DEF BoxSound

(* Hooks that do not move stay apart.                                      *)
LEMMA ApartKept ==
    ASSUME Inv, \A h \in Hook : \/ hook'[h] = hook[h]
                                \/ hook'[h].pc \in {"unbound", "gone"}
                                \/ /\ hook[h].pc \notin {"unbound", "gone"}
                                   /\ hook[h].stopped => hook'[h].stopped
    PROVE  HooksApart'
BY DEF Inv, CustodyHolds, HooksApart

-----------------------------------------------------------------------------
(* Steps of a hook. *)

(* A step of an open scope's hook: the rest of the world stands still, and *)
(* the scope remains the owner of the same login.                          *)
HookFrame(h) ==
    /\ scope[OwnerOf(h)].pc = "open"
    /\ UNCHANGED <<newest, cli, operation, seeder>>
    /\ \A b \in Box : b # h => box'[b] = box[b]
    /\ \A k \in Hook : k # h => hook'[k] = hook[k]
    /\ \A d \in Scope : d # OwnerOf(h) => scope'[d] = scope[d]
    /\ scope'[OwnerOf(h)].pc = "open"
    /\ scope[OwnerOf(h)].poisoned => scope'[OwnerOf(h)].poisoned
    /\ authority'.owner = authority.owner
    /\ authority'.native # NoNative
    /\ authority'.native.login = authority.native.login

(* Everything but the hook, its box and its scope is sound after the step. *)
LEMMA HookElsewhere ==
    ASSUME Inv, TypeOK', NEW h \in Hook, HookFrame(h)
    PROVE  /\ RecordSound'
           /\ \A b \in Box : b # h => BoxSound(b)'
           /\ \A d \in Scope : d # OwnerOf(h) => ScopeSound(d)'
           /\ \A k \in Hook : OwnerOf(k) # OwnerOf(h) => HookSound(k)'
           /\ \A s \in Cli : CliSound(s)'
           /\ \A g \in Seeder : SeederSound(g)'
<1> DEFINE c == OwnerOf(h)
<1>0. c \in Scope /\ c \in Consumer /\ c # NoOwner BY Owners DEF Consumer
<1>1. authority.owner = c /\ authority.native \in Native BY <1>0, OwnedBy DEF HookFrame
<1>2. authority' \in Session \cup {Absent} BY DEF TypeOK
<1>3. authority'.owner = c BY <1>1 DEF HookFrame
<1>4. RecordSound' BY <1>0, <1>2, <1>3, Phases DEF RecordSound
<1>5. \A b \in Box : b # h => BoxSound(b)' BY BoxKept DEF HookFrame
<1>6. \A d \in Scope : d # c => scope[d].pc # "open" BY <1>1, OwnedBy
<1>7. \A d \in Scope : d # c => ScopeSound(d)'
  <2> TAKE d \in Scope
  <2> HAVE d # c
  <2>1. \A k \in HooksOf(d) : hook'[k] = hook[k] BY DEF HookFrame, HooksOf
  <2> QED BY <1>6, <2>1, ScopeKept DEF HookFrame
<1>8. \A k \in Hook : OwnerOf(k) # c => HookSound(k)'
  <2> TAKE k \in Hook
  <2> HAVE OwnerOf(k) # c
  <2>1. k # h /\ k \in Box /\ OwnerOf(k) \in Scope BY Owners
  <2>2. box'[k] = box[k] /\ hook'[k] = hook[k] /\ scope'[OwnerOf(k)] = scope[OwnerOf(k)]
    BY <2>1 DEF HookFrame
  <2> QED BY <1>6, <2>1, <2>2, HookKept
<1>9. \A s \in Cli : CliSound(s)'
  <2> TAKE s \in Cli
  <2>1. s # c BY <1>0, Owners
  <2>2. cli[s].pc \notin Live BY <1>1, <2>1, OwnedBy
  <2>3. cli'[s] = cli[s] BY DEF HookFrame
  <2> QED BY <2>2, <2>3, CliKept
<1>10. \A e \in Consumer : ProvenStopped(e) => ProvenStopped(e)'
  <2> TAKE e \in Consumer
  <2> HAVE ProvenStopped(e)
  <2>1. e # c
    <3> SUFFICES ASSUME e = c PROVE FALSE OBVIOUS
    <3> QED BY <1>0 DEF ProvenStopped, RunProvenStopped, HookFrame
  <2>2. \A b \in BoxesOf(e) : box'[b] = box[b] BY <2>1, Owners DEF BoxesOf, HookFrame
  <2>3. e \in Scope => /\ scope'[e].pc \in {"ended", "dead"}
    BY <2>1 DEF ProvenStopped, RunProvenStopped, HookFrame
  <2>4. e \in Cli => /\ cli'[e].pc \in {"exited", "dead"} /\ operation'[e] = operation[e]
                     /\ box'[desk(e)] = box[desk(e)]
    <3> SUFFICES ASSUME e \in Cli PROVE e \notin Scope /\ desk(e) \in Box /\ desk(e) # h
      BY DEF ProvenStopped, CliProvenStopped, HookFrame
    <3> QED BY Owners
  <2> QED BY <2>2, <2>3, <2>4, StopsStay DEF Active
<1>11. \A g \in Seeder : SeederSound(g)'
  BY <1>1, <1>10, SeedersKept, Natives DEF HookFrame, MaybeNative
<1> QED BY <1>4, <1>5, <1>7, <1>8, <1>9, <1>11

(* What holds of the hook's own scope, box and siblings makes it whole.    *)
LEMMA HookWhole ==
    ASSUME Inv, TypeOK', NEW h \in Hook, HookFrame(h), HooksApart',
           ScopeSound(OwnerOf(h))', BoxSound(h)',
           \A k \in HooksOf(OwnerOf(h)) : HookSound(k)'
    PROVE  CustodyHolds'
<1>1. \A b \in Box : BoxSound(b)' BY HookElsewhere
<1>2. \A d \in Scope : ScopeSound(d)' BY HookElsewhere
<1>3. \A k \in Hook : HookSound(k)' BY HookElsewhere DEF HooksOf
<1> QED BY HookElsewhere, <1>1, <1>2, <1>3 DEF CustodyHolds

(* A hook whose box is not proved stopped is alone in its scope.           *)
LEMMA Engaged ==
    ASSUME Inv, NEW h \in Hook, scope[OwnerOf(h)].pc = "open",
           hook[h].pc # "unbound", ~hook[h].stopped,
           NEW k \in HooksOf(OwnerOf(h)), k # h
    PROVE  /\ hook[k].pc \in {"unbound", "ready"}
           /\ box[k].copy = NoNative /\ box[k].held = NoNative
<1>1. k \in Hook /\ OwnerOf(k) = OwnerOf(h) /\ k \in Box /\ h \in Box
  BY Owners DEF HooksOf
<1>2. HookSound(h) /\ HookSound(k) /\ BoxSound(k) /\ HooksApart
  BY <1>1 DEF Inv, CustodyHolds
<1>3. hook[h].pc # "gone" /\ hook[k].pc # "gone" BY <1>1, <1>2 DEF HookSound
<1>4. hook[k].pc = "unbound" \/ hook[k].stopped BY <1>1, <1>2, <1>3 DEF HooksApart
<1>5. CASE hook[k].pc = "unbound"
  BY <1>1, <1>2, <1>5 DEF HookSound, Early, Active
<1>6. CASE hook[k].stopped
  BY <1>1, <1>2, <1>6 DEF HookSound, BoxSound, DeadBox, EmptyBox
<1> QED BY <1>4, <1>5, <1>6

(* ... so its step is whole when it leaves itself sound.                   *)
LEMMA EngagedWhole ==
    ASSUME Inv, TypeOK', NEW h \in Hook, HookFrame(h),
           hook[h].pc # "unbound", ~hook[h].stopped,
           ScopeSound(OwnerOf(h))', BoxSound(h)', HookSound(h)'
    PROVE  CustodyHolds'
<1>1. scope[OwnerOf(h)].pc = "open" BY DEF HookFrame
<1>2. ASSUME NEW k \in HooksOf(OwnerOf(h)), k # h PROVE HookSound(k)'
  <2>1. k \in Hook /\ OwnerOf(k) = OwnerOf(h) /\ k \in Box BY Owners DEF HooksOf
  <2>2. /\ hook[k].pc \in {"unbound", "ready"}
        /\ box[k].copy = NoNative /\ box[k].held = NoNative
    BY <1>1, <1>2, Engaged
  <2>3. hook'[k] = hook[k] /\ box'[k] = box[k] BY <1>2, <2>1 DEF HookFrame
  <2>4. HookSound(k) BY <2>1 DEF Inv, CustodyHolds
  <2> QED BY <1>1, <2>1, <2>2, <2>3, <2>4 DEF HookSound, Active, Early, NotOlder
<1>3. HooksApart'
  <2> SUFFICES ASSUME NEW j \in Hook, NEW k \in Hook, OwnerOf(j) = OwnerOf(k), j # k,
                      {hook'[j].pc, hook'[k].pc} \cap {"unbound", "gone"} = {}
               PROVE  hook'[j].stopped \/ hook'[k].stopped
    BY DEF HooksApart
  <2>1. HooksApart BY DEF Inv, CustodyHolds
  <2>2. HookSound(h) BY DEF Inv, CustodyHolds
  <2>3. hook[h].pc \notin {"unbound", "gone"} BY <1>1, <2>2 DEF HookSound
  <2>4. CASE j # h /\ k # h
    BY <2>1, <2>4 DEF HooksApart, HookFrame
  <2>5. CASE j = h
    BY <2>1, <2>3, <2>5 DEF HooksApart, HookFrame
  <2>6. CASE k = h
    BY <2>1, <2>3, <2>6 DEF HooksApart, HookFrame
  <2> QED BY <2>4, <2>5, <2>6
<1> QED BY <1>2, <1>3, HookWhole

(* What an open scope holds is a login, and its claim is the record's.     *)
LEMMA OpenScopes ==
    ASSUME Inv, NEW c \in Scope, scope[c].pc = "open"
    PROVE  /\ scope[c].native \in Native
           /\ scope[c].native.login = authority.native.login
           /\ authority \in Session /\ authority.phase = "claimed" /\ authority.owner = c
           /\ authority.native \in Native
           /\ ~scope[c].closed => /\ authority = scope[c].seen
                                  /\ authority.native.turn <= scope[c].native.turn
<1>1. ScopeSound(c) BY DEF Inv, CustodyHolds
<1>2. scope[c].native \in MaybeNative BY DEF Inv, TypeOK, ScopeState
<1>3. scope[c].native \in Native BY <1>1, <1>2, Natives DEF ScopeSound
<1>4. authority \in Session \cup {Absent} BY DEF Inv, TypeOK
<1>5. authority.phase = "claimed" BY OwnedBy
<1>6. authority \in Session /\ authority.native \in Native BY <1>4, <1>5, Phases
<1> QED BY <1>1, <1>3, <1>5, <1>6 DEF ScopeSound

(* The parts of a step that say what becomes of the hook, its box or its   *)
(* scope keep the types.                                                   *)
LEMMA HookParts ==
    ASSUME TypeOK, NEW h \in Hook
    PROVE  /\ \A l \in {"unbound", "binding", "setup", "ready", "staging", "launch", "running",
                        "capture", "checkpoint", "cleanup", "gone"} :
                 HookGo(h, l) => hook' \in [Hook -> HookState]
           /\ Poison(h) => scope' \in [Scope -> ScopeState]
           /\ \A n \in MaybeNative : Stage(h, n) => box' \in [Box -> Contents]
           /\ Start(h) => box' \in [Box -> Contents]
           /\ Destroy(h) => box' \in [Box -> Contents]
           /\ \A well \in BOOLEAN :
                 EndUse(h, well) => /\ hook' \in [Hook -> HookState]
                                   /\ scope' \in [Scope -> ScopeState]
<1>0. OwnerOf(h) \in Scope /\ h \in Box BY Owners
<1>1. hook[h] \in HookState /\ scope[OwnerOf(h)] \in ScopeState /\ box[h] \in Contents
  BY <1>0 DEF TypeOK
<1>2. NoNative \in MaybeNative BY DEF MaybeNative
<1>3. ASSUME NEW l \in {"unbound", "binding", "setup", "ready", "staging", "launch", "running",
                        "capture", "checkpoint", "cleanup", "gone"}, HookGo(h, l)
      PROVE  hook' \in [Hook -> HookState]
  BY <1>1, <1>3 DEF TypeOK, HookGo, HookState
<1>4. Poison(h) => scope' \in [Scope -> ScopeState]
  <2>1. [scope[OwnerOf(h)] EXCEPT !.poisoned = TRUE] \in ScopeState
    BY <1>1 DEF ScopeState
  <2>2. Poison(h) => scope' = [scope EXCEPT ![OwnerOf(h)] =
                                  [scope[OwnerOf(h)] EXCEPT !.poisoned = TRUE]]
    BY DEF Poison
  <2> QED BY <1>0, <2>1, <2>2 DEF TypeOK
<1>5. ASSUME NEW n \in MaybeNative, Stage(h, n) PROVE box' \in [Box -> Contents]
  BY <1>0, <1>1, <1>5 DEF TypeOK, Stage, Contents
<1>6. Start(h) => box' \in [Box -> Contents]
  <2>1. [box[h] EXCEPT !.held = box[h].copy, !.exit = "none"] \in Contents
    BY <1>1 DEF Contents
  <2>2. Start(h) => box' = [box EXCEPT ![h] = [box[h] EXCEPT !.held = box[h].copy,
                                                            !.exit = "none"]]
    BY DEF Start
  <2> QED BY <1>0, <2>1, <2>2 DEF TypeOK
<1>7. Destroy(h) => box' \in [Box -> Contents]
  <2>1. DeadBox \in Contents BY <1>2 DEF DeadBox, EmptyBox, Contents
  <2> QED BY <1>0, <2>1 DEF TypeOK, Destroy
<1>8. ASSUME NEW well \in BOOLEAN, EndUse(h, well)
      PROVE  hook' \in [Hook -> HookState] /\ scope' \in [Scope -> ScopeState]
  <2> DEFINE kept == hook[h].kind = "metadata"
             new  == [hook[h] EXCEPT !.pc = "ready", !.kind = "none",
                         !.staged = @ /\ kept, !.reserved = @ /\ kept,
                         !.settled = @ /\ well /\ ~Poisoned(h)]
  <2>1. new \in HookState BY <1>1 DEF HookState
  <2>2. hook' = [hook EXCEPT ![h] = new]
    BY <1>8 DEF EndUse, BackToReady
  <2>3. hook' \in [Hook -> HookState] BY <2>1, <2>2 DEF TypeOK
  <2>4. scope' \in [Scope -> ScopeState] BY <1>4, <1>8 DEF EndUse, TypeOK
  <2> QED BY <2>3, <2>4
<1> QED BY <1>3, <1>4, <1>5, <1>6, <1>7, <1>8

(* The steps of a hook keep the types.                                     *)
LEMMA HookTypes ==
    ASSUME Inv, NEW h \in Hook, HookStep(h)
    PROVE  TypeOK'
<1> DEFINE c == OwnerOf(h)
<1>0. c \in Scope /\ h \in Box /\ c \in Consumer BY Owners DEF Consumer
<1>1. UNCHANGED <<cli, operation, seeder>> BY DEF HookStep
<1>2. TypeOK BY DEF Inv
<1>3. /\ hook[h] \in HookState /\ scope[c] \in ScopeState /\ box[h] \in Contents
  BY <1>0, <1>2 DEF TypeOK
<1>4. NoNative \in MaybeNative /\ Native \subseteq MaybeNative BY DEF MaybeNative
<1>6. RestoreCredentials(h) => /\ hook' \in [Hook -> HookState]
                               /\ scope' \in [Scope -> ScopeState]
                               /\ box' \in [Box -> Contents]
  <2>1. scope[c].native \in MaybeNative BY <1>3 DEF ScopeState
  <2>2. CASE /\ Stage(h, scope[OwnerOf(h)].native)
             /\ hook' = [hook EXCEPT ![h].staged = TRUE,
                                     ![h].pc = IF @ = "setup" THEN "ready" ELSE "launch"]
             /\ UNCHANGED scope
    BY <1>2, <1>3, <2>1, <2>2, HookParts DEF TypeOK, HookState
  <2>3. CASE /\ HookGo(h, IF hook[h].pc = "setup" THEN "ready" ELSE "capture")
             /\ Poison(h)
             /\ UNCHANGED box
    <3>1. HookGo(h, "ready") \/ HookGo(h, "capture") BY <2>3
    <3> QED BY <1>2, <2>3, <3>1, HookParts DEF TypeOK
  <2> QED BY <2>2, <2>3 DEF RestoreCredentials
<1>5. /\ hook' \in [Hook -> HookState] /\ scope' \in [Scope -> ScopeState]
      /\ box' \in [Box -> Contents] /\ newest' = newest
      /\ authority' \in Session \cup {Absent}
  <2>1. CASE Bind(h)
    BY <1>0, <1>2, <1>3, <2>1 DEF TypeOK, Bind, HookGo, HookState
  <2>2. CASE CaptureConsumer(h)
    <3>1. CASE HookGo(h, "ready") /\ Poison(h)
      BY <1>2, <2>2, <3>1, HookParts DEF TypeOK, CaptureConsumer
    <3>2. CASE /\ hook' = [hook EXCEPT ![h].pc = "setup", ![h].proof = TRUE]
               /\ UNCHANGED scope
      BY <1>2, <1>3, <2>2, <3>2 DEF TypeOK, CaptureConsumer, HookState
    <3> QED BY <2>2, <3>1, <3>2 DEF CaptureConsumer
  <2>3. CASE Rebind(h)
    BY <1>0, <1>2, <1>3, <2>3 DEF TypeOK, Rebind, HookGo, HookState
  <2>4. CASE SetUp(h)
    BY <1>2, <1>6, <2>4 DEF TypeOK, SetUp
  <2>5. CASE NewDispatch(h)
    BY <1>0, <1>2, <1>3, <2>5, UsesAssumption DEF TypeOK, NewDispatch, HookState
  <2>6. CASE ExecuteModel(h)
    BY <1>0, <1>2, <1>3, <2>6 DEF TypeOK, ExecuteModel, HookState
  <2>7. CASE ExecuteMetadata(h)
    BY <1>0, <1>2, <1>3, <2>7, UsesAssumption DEF TypeOK, ExecuteMetadata, HookState
  <2>8. CASE StageForUse(h)
    BY <1>2, <1>6, <2>8, HookParts DEF TypeOK, StageForUse
  <2>9. CASE Launch(h)
    <3>1. CASE /\ Start(h)
               /\ hook' = [hook EXCEPT ![h].pc = "running", ![h].executed = TRUE]
               /\ UNCHANGED scope
      BY <1>2, <1>3, <2>9, <3>1, HookParts DEF TypeOK, Launch, HookState
    <3>2. CASE /\ \E started \in BOOLEAN :
                     hook' = [hook EXCEPT ![h].pc = "capture", ![h].executed = @ \/ started]
               /\ Poison(h)
               /\ UNCHANGED box
      <4>1. PICK started \in BOOLEAN :
                     hook' = [hook EXCEPT ![h].pc = "capture", ![h].executed = @ \/ started]
        BY <3>2
      <4>2. [hook[h] EXCEPT !.pc = "capture", !.executed = @ \/ started] \in HookState
        BY <1>3 DEF HookState
      <4>3. hook' = [hook EXCEPT ![h] = [hook[h] EXCEPT !.pc = "capture",
                                                       !.executed = @ \/ started]]
        BY <4>1
      <4>4. hook' \in [Hook -> HookState] BY <1>2, <4>2, <4>3 DEF TypeOK
      <4> QED BY <1>2, <2>9, <3>2, <4>4, HookParts DEF TypeOK, Launch
    <3> QED BY <2>9, <3>1, <3>2 DEF Launch
  <2>10. CASE ExecReturns(h)
    BY <1>2, <2>10, HookParts DEF TypeOK, ExecReturns
  <2>11. CASE ExecRaises(h)
    BY <1>2, <2>11, HookParts DEF TypeOK, ExecRaises
  <2>12. CASE Capture(h)
    <3>1. CASE EndUse(h, FALSE)
      BY <1>2, <2>12, <3>1, HookParts DEF TypeOK, Capture
    <3>2. CASE /\ scope' = [scope EXCEPT ![c].native = box[h].copy]
               /\ HookGo(h, "checkpoint")
      BY <1>0, <1>2, <1>3, <2>12, <3>2, HookParts DEF TypeOK, Capture, ScopeState, Contents
    <3> QED BY <2>12, <3>1, <3>2 DEF Capture
  <2>13. CASE Checkpoint(h)
    <3> DEFINE new == Checkpointed(scope[c].seen, scope[c].native)
    <3>1. scope[c].pc = "open" BY <2>13 DEF Checkpoint, At
    <3>2. scope[c].native \in Native BY <1>0, <3>1, OpenScopes
    <3>3. authority \in Session \cup {Absent} BY <1>2 DEF TypeOK
    <3>4. ~scope[c].closed => new \in Session
      <4> SUFFICES ASSUME ~scope[c].closed PROVE new \in Session OBVIOUS
      <4>1. scope[c].seen = authority /\ authority.phase = "claimed"
        BY <1>0, <3>1, OpenScopes
      <4> QED BY <1>0, <3>2, <3>3, <4>1, Writes
    <3>5. CASE /\ ~scope[c].closed
               /\ CompareAndSwap(scope[c].seen, new, "acknowledged")
               /\ scope' = [scope EXCEPT ![c].seen = new]
               /\ HookGo(h, "cleanup")
      <4>1. authority' = new BY <3>5 DEF CompareAndSwap
      <4>2. box' = box /\ newest' = newest BY <2>13 DEF Checkpoint
      <4> QED BY <1>0, <1>2, <1>3, <3>4, <3>5, <4>1, <4>2
              DEF TypeOK, HookGo, HookState, ScopeState
    <3>6. CASE /\ ~scope[c].closed
               /\ \E reply \in Reply \ {"acknowledged"} :
                     CompareAndSwap(scope[c].seen, new, reply)
               /\ scope' = [scope EXCEPT ![c].closed = TRUE, ![c].poisoned = TRUE]
               /\ BackToReady(h, FALSE)
      <4>1. authority' \in {authority, new} BY <3>6 DEF CompareAndSwap
      <4>2. box' = box /\ newest' = newest BY <2>13 DEF Checkpoint
      <4> QED BY <1>0, <1>2, <1>3, <3>3, <3>4, <3>6, <4>1, <4>2
              DEF TypeOK, BackToReady, Poisoned, HookState, ScopeState
    <3>7. CASE scope[c].closed /\ EndUse(h, FALSE) /\ UNCHANGED authority
      <4>2. box' = box /\ newest' = newest BY <2>13 DEF Checkpoint
      <4> QED BY <1>2, <3>3, <3>7, <4>2, HookParts DEF TypeOK
    <3> QED BY <2>13, <3>5, <3>6, <3>7 DEF Checkpoint
  <2>14. CASE CleanUp(h)
    BY <1>2, <1>4, <2>14, HookParts DEF TypeOK, CleanUp
  <2>15. CASE StopEnvironment(h)
    <3>1. box' \in [Box -> Contents] /\ newest' = newest /\ authority' = authority
      BY <1>2, <2>15, HookParts DEF TypeOK, StopEnvironment
    <3>2. box'[h].up \in BOOLEAN BY <1>0, <3>1 DEF Contents
    <3>3. \A v \in BOOLEAN : hook' = [hook EXCEPT ![h].stopped = v]
                               => hook' \in [Hook -> HookState]
      BY <1>2, <1>3 DEF TypeOK, HookState
    <3>4. (~box'[h].up) \in BOOLEAN OBVIOUS
    <3>5. hook[h].stopped \in BOOLEAN BY <1>3 DEF HookState
    <3>6. hook' \in [Hook -> HookState]
      <4>1. CASE hook[h].proof /\ hook' = [hook EXCEPT ![h].stopped = ~box'[h].up]
        BY <3>3, <3>4, <4>1
      <4>2. CASE \E known \in BOOLEAN :
                  hook' = [hook EXCEPT ![h].stopped = IF known THEN ~box'[h].up ELSE @]
        <5>1. PICK known \in BOOLEAN :
                  hook' = [hook EXCEPT ![h].stopped = IF known THEN ~box'[h].up ELSE @]
          BY <4>2
        <5>2. CASE known BY <3>3, <3>4, <5>1, <5>2
        <5>3. CASE ~known
          <6>1. hook' = [hook EXCEPT ![h].stopped = hook[h].stopped] BY <5>1, <5>3
          <6> QED BY <3>3, <3>5, <6>1
        <5> QED BY <5>2, <5>3
      <4>3. CASE UNCHANGED hook BY <1>2, <4>3 DEF TypeOK
      <4> QED BY <2>15, <4>1, <4>2, <4>3 DEF StopEnvironment
    <3>7. scope' \in [Scope -> ScopeState]
      BY <1>2, <2>15, HookParts DEF TypeOK, StopEnvironment
    <3> QED BY <1>2, <3>1, <3>6, <3>7 DEF TypeOK
  <2> QED BY <2>1, <2>2, <2>3, <2>4, <2>5, <2>6, <2>7, <2>8, <2>9, <2>10, <2>11, <2>12, <2>13,
             <2>14, <2>15 DEF HookStep
<1> QED BY <1>1, <1>2, <1>5 DEF TypeOK

(* A hook that only moves on, or poisons its lineage, in an unchanged box. *)
LEMMA QuietMove ==
    ASSUME Inv, TypeOK', NEW h \in Hook, scope[OwnerOf(h)].pc = "open",
           hook[h].pc # "unbound", ~hook[h].stopped,
           UNCHANGED <<authority, newest, box, cli, operation, seeder>>,
           \A k \in Hook : k # h => hook'[k] = hook[k],
           UNCHANGED scope \/ Poison(h),
           ~hook'[h].stopped, hook'[h].pc \notin {"unbound", "gone"},
           hook'[h].pc \in Early =>
              \/ hook[h].pc \in Early
              \/ hook[h].pc = "ready" /\ ~Poisoned(h),
           \/ Poison(h)
           \/ Poisoned(h)
           \/ {hook[h].pc, hook'[h].pc} \cap {"running", "capture"} = {}
           \/ /\ hook[h].pc = "running" /\ hook'[h].pc = "capture"
              /\ box[h].exit = "good"
    PROVE  CustodyHolds'
<1> DEFINE c == OwnerOf(h)
<1>0. c \in Scope /\ h \in Box BY Owners
<1>2. scope[c] \in ScopeState BY <1>0 DEF Inv, TypeOK
<1>1. /\ \A d \in Scope : d # c => scope'[d] = scope[d]
      /\ scope'[c] = scope[c] \/ scope'[c] = [scope[c] EXCEPT !.poisoned = TRUE]
      /\ Poison(h) \/ Poisoned(h) => scope'[c].poisoned
  <2>1. CASE Poison(h)
    <3>1. scope' = [scope EXCEPT ![c] = [scope[c] EXCEPT !.poisoned = TRUE]]
      BY <2>1 DEF Poison
    <3> QED BY <1>0, <1>2, <3>1 DEF Inv, TypeOK, ScopeState
  <2>2. CASE ~Poison(h) /\ UNCHANGED scope
    BY <2>2 DEF Poisoned
  <2> QED BY <2>1, <2>2
<1>3. /\ scope'[c].pc = "open" /\ scope'[c].native = scope[c].native
      /\ scope'[c].seen = scope[c].seen /\ scope'[c].closed = scope[c].closed
      /\ scope[c].poisoned => scope'[c].poisoned
  BY <1>1, <1>2 DEF ScopeState
<1>4. ScopeSound(c) /\ HookSound(h) /\ BoxSound(h) BY <1>0 DEF Inv, CustodyHolds
<1>5. authority.native \in Native /\ authority.native # NoNative
  BY <1>0, OpenScopes, Natives DEF MaybeNative
<1>6. HookFrame(h) BY <1>1, <1>3, <1>5 DEF HookFrame
<1>7. BoxSound(h)' BY <1>0, <1>4, BoxKept
<1>8. Active(h)' <=> Active(h) BY DEF Active
<1>9. HookSound(h)'
  <2>1. CASE scope'[c].poisoned
    BY <1>3, <1>4, <1>8, <2>1 DEF HookSound, NotOlder, Early, Poisoned
  <2>2. CASE ~scope'[c].poisoned /\ {hook[h].pc, hook'[h].pc} \cap {"running", "capture"} = {}
    BY <1>3, <1>4, <1>8, <2>2 DEF HookSound, NotOlder, Early
  <2>3. CASE /\ ~scope'[c].poisoned /\ hook[h].pc = "running" /\ hook'[h].pc = "capture"
             /\ box[h].exit = "good"
    <3>1. ~Active(h) BY <1>4, <2>3 DEF BoxSound
    <3>2. Latest(box[h].copy) BY <1>3, <1>4, <2>3, <3>1 DEF HookSound
    <3> QED BY <1>3, <1>4, <1>8, <2>3, <3>1, <3>2 DEF HookSound, NotOlder, Early, Latest
  <2> QED BY <1>1, <2>1, <2>2, <2>3
<1>10. ScopeSound(c)'
  <2>1. ~scope'[c].poisoned =>
           \/ Latest(scope[c].native)
           \/ \E k \in HooksOf(c) : hook'[k].pc \in {"running", "capture"}
    <3> SUFFICES ASSUME ~scope'[c].poisoned, ~Latest(scope[c].native)
                 PROVE  \E k \in HooksOf(c) : hook'[k].pc \in {"running", "capture"}
      OBVIOUS
    <3>1. PICK k \in HooksOf(c) : hook[k].pc \in {"running", "capture"}
      BY <1>3, <1>4 DEF ScopeSound
    <3>2. hook'[k].pc \in {"running", "capture"} BY <1>1, <3>1 DEF HooksOf
    <3> QED BY <3>1, <3>2
  <2> QED BY <1>3, <1>4, <2>1 DEF ScopeSound, Latest, HooksOf
<1> QED BY <1>6, <1>7, <1>9, <1>10, EngagedWhole

(* What HookGo, EndUse and BackToReady make of the hook and its siblings.   *)
LEMMA HookMoves ==
    ASSUME TypeOK, NEW h \in Hook
    PROVE  /\ \A l \in {"binding", "setup", "ready", "staging", "launch", "running",
                        "capture", "checkpoint", "cleanup"} :
                 HookGo(h, l) => /\ hook'[h].pc = l /\ hook'[h].stopped = hook[h].stopped
                                 /\ \A k \in Hook : k # h => hook'[k] = hook[k]
           /\ \A well \in BOOLEAN :
                 BackToReady(h, well) =>
                      /\ hook'[h].pc = "ready" /\ hook'[h].stopped = hook[h].stopped
                      /\ \A k \in Hook : k # h => hook'[k] = hook[k]
           /\ EndUse(h, FALSE) => Poison(h) /\ BackToReady(h, FALSE)
           /\ EndUse(h, TRUE) => UNCHANGED scope /\ BackToReady(h, TRUE)
<1>1. hook[h] \in HookState BY DEF TypeOK
<1>2. ASSUME NEW l \in {"binding", "setup", "ready", "staging", "launch", "running",
                        "capture", "checkpoint", "cleanup"}, HookGo(h, l)
      PROVE  /\ hook'[h].pc = l /\ hook'[h].stopped = hook[h].stopped
             /\ \A k \in Hook : k # h => hook'[k] = hook[k]
  BY <1>1, <1>2 DEF TypeOK, HookGo, HookState
<1>3. ASSUME NEW well \in BOOLEAN, BackToReady(h, well)
      PROVE  /\ hook'[h].pc = "ready" /\ hook'[h].stopped = hook[h].stopped
             /\ \A k \in Hook : k # h => hook'[k] = hook[k]
  <2> DEFINE kept == hook[h].kind = "metadata"
             new  == [hook[h] EXCEPT !.pc = "ready", !.kind = "none",
                         !.staged = @ /\ kept, !.reserved = @ /\ kept,
                         !.settled = @ /\ well /\ ~Poisoned(h)]
  <2>1. hook' = [hook EXCEPT ![h] = new] BY <1>3 DEF BackToReady
  <2>2. new.pc = "ready" /\ new.stopped = hook[h].stopped BY <1>1 DEF HookState
  <2> HIDE DEF new
  <2> QED BY <2>1, <2>2 DEF TypeOK
<1>4. EndUse(h, FALSE) => Poison(h) /\ BackToReady(h, FALSE) BY DEF EndUse
<1>5. EndUse(h, TRUE) => UNCHANGED scope /\ BackToReady(h, TRUE) BY DEF EndUse
<1> QED BY <1>2, <1>3, <1>4, <1>5

(* A hook at work in an open scope has a box that is not proved stopped.   *)
LEMMA AtWork ==
    ASSUME Inv, NEW h \in Hook, hook[h].pc # "ready"
    PROVE  ~hook[h].stopped
BY DEF Inv, CustodyHolds, HookSound

(* Steps between the methods of a hook, and the failures of an execution.  *)
LEMMA HookTurns ==
    ASSUME Inv, TypeOK', NEW h \in Hook, UNCHANGED <<cli, operation, seeder>>,
           \/ CaptureConsumer(h) \/ Rebind(h) \/ NewDispatch(h)
           \/ ExecuteModel(h) \/ ExecuteMetadata(h)
           \/ ExecReturns(h) \/ ExecRaises(h)
    PROVE  CustodyHolds'
<1>1. TypeOK /\ hook[h] \in HookState BY DEF Inv, TypeOK
<1>2. CASE CaptureConsumer(h)
  <2>1. /\ scope[OwnerOf(h)].pc = "open" /\ hook[h].pc = "binding"
        /\ UNCHANGED <<authority, newest, box>>
    BY <1>2 DEF CaptureConsumer, At
  <2>2. /\ hook'[h].pc \in {"setup", "ready"} /\ hook'[h].stopped = hook[h].stopped
        /\ \A k \in Hook : k # h => hook'[k] = hook[k]
        /\ UNCHANGED scope \/ Poison(h)
    <3>1. CASE HookGo(h, "ready") /\ Poison(h) BY <1>1, <3>1, HookMoves
    <3>2. CASE /\ hook' = [hook EXCEPT ![h].pc = "setup", ![h].proof = TRUE]
               /\ UNCHANGED scope
      BY <1>1, <3>2 DEF TypeOK, HookState
    <3> QED BY <1>2, <3>1, <3>2 DEF CaptureConsumer
  <2>3. ~hook[h].stopped BY <2>1, AtWork
  <2> QED BY <2>1, <2>2, <2>3, QuietMove DEF Early
<1>3. CASE Rebind(h)
  <2>1. /\ scope[OwnerOf(h)].pc = "open" /\ hook[h].pc = "ready" /\ HookGo(h, "setup")
        /\ ~hook[h].stopped /\ ~Poisoned(h) /\ UNCHANGED <<authority, newest, box, scope>>
    BY <1>3 DEF Rebind, At
  <2> QED BY <1>1, <2>1, HookMoves, QuietMove DEF Early
<1>4. CASE NewDispatch(h) \/ ExecuteModel(h) \/ ExecuteMetadata(h)
  <2>1. /\ scope[OwnerOf(h)].pc = "open" /\ hook[h].pc = "ready" /\ ~hook[h].stopped
        /\ ~Poisoned(h) /\ UNCHANGED <<authority, newest, box, scope>>
    BY <1>4 DEF NewDispatch, ExecuteModel, ExecuteMetadata, Available, At
  <2>2. /\ hook'[h].pc \in {"ready", "staging"} /\ hook'[h].stopped = hook[h].stopped
        /\ \A k \in Hook : k # h => hook'[k] = hook[k]
    <3>1. CASE NewDispatch(h) BY <1>1, <2>1, <3>1 DEF TypeOK, NewDispatch, HookState
    <3>2. CASE ExecuteModel(h) BY <1>1, <3>2 DEF TypeOK, ExecuteModel, HookState
    <3>3. CASE ExecuteMetadata(h) BY <1>1, <3>3 DEF TypeOK, ExecuteMetadata, HookState
    <3> QED BY <1>4, <3>1, <3>2, <3>3
  <2> QED BY <2>1, <2>2, QuietMove DEF Early
<1>5. CASE ExecReturns(h) \/ ExecRaises(h)
  <2>1. /\ scope[OwnerOf(h)].pc = "open" /\ hook[h].pc = "running" /\ HookGo(h, "capture")
        /\ UNCHANGED <<authority, newest, box>>
        /\ Poison(h) \/ (UNCHANGED scope /\ box[h].exit = "good")
    BY <1>5 DEF ExecReturns, ExecRaises, At
  <2>2. ~hook[h].stopped BY <2>1, AtWork
  <2> QED BY <1>1, <2>1, <2>2, HookMoves, QuietMove DEF Early
<1> QED BY <1>2, <1>3, <1>4, <1>5

(* Binding a hook: its siblings have boxes that are proved stopped.        *)
LEMMA BindKeeps ==
    ASSUME Inv, TypeOK', NEW h \in Hook, UNCHANGED <<cli, operation, seeder>>, Bind(h)
    PROVE  CustodyHolds'
<1> DEFINE c == OwnerOf(h)
<1>0. c \in Scope /\ h \in Box /\ TypeOK BY Owners DEF Inv
<1>1. /\ scope[c].pc = "open" /\ hook[h].pc = "unbound"
      /\ \A k \in HooksOf(c) \ {h} : Bound(k) => hook[k].stopped
      /\ UNCHANGED <<authority, newest, box, scope>>
  BY DEF Bind, At
<1>2. /\ hook'[h].pc = "binding" /\ hook'[h].stopped = hook[h].stopped
      /\ \A k \in Hook : k # h => hook'[k] = hook[k]
  BY <1>0, HookMoves DEF Bind
<1>3. authority.native # NoNative BY <1>0, <1>1, OpenScopes, Natives DEF MaybeNative
<1>4. HookFrame(h) BY <1>1, <1>2, <1>3 DEF HookFrame
<1>5. ScopeSound(c) /\ HookSound(h) /\ HooksApart BY <1>0 DEF Inv, CustodyHolds
<1>6. BoxSound(h)' BY <1>0, <1>1, BoxKept
<1>7. HookSound(h)'
  BY <1>1, <1>2, <1>5 DEF HookSound, NotOlder, Early, Active
<1>8. \A k \in HooksOf(c) : HookSound(k)'
  BY <1>0, <1>1, <1>2, <1>7, HookKept, Owners DEF HooksOf
<1>9. HooksApart'
  <2> SUFFICES ASSUME NEW j \in Hook, NEW k \in Hook, OwnerOf(j) = OwnerOf(k), j # k,
                      {hook'[j].pc, hook'[k].pc} \cap {"unbound", "gone"} = {}
               PROVE  hook'[j].stopped \/ hook'[k].stopped
    BY DEF HooksApart
  <2>1. CASE j # h /\ k # h BY <1>2, <1>5, <2>1 DEF HooksApart
  <2>2. CASE j = h BY <1>1, <1>2, <2>2 DEF HooksOf, Bound
  <2>3. CASE k = h BY <1>1, <1>2, <2>3 DEF HooksOf, Bound
  <2> QED BY <2>1, <2>2, <2>3
<1>10. ScopeSound(c)'
  <2>1. \A k \in HooksOf(c) : hook[k].pc \in {"running", "capture"}
                               => hook'[k].pc \in {"running", "capture"}
    BY <1>1, <1>2 DEF HooksOf
  <2> QED BY <1>1, <1>5, <2>1 DEF ScopeSound, Latest, HooksOf
<1> QED BY <1>4, <1>6, <1>8, <1>9, <1>10, HookWhole

(* A hook about to work, alone in its scope, holds the newest login unless *)
(* its lineage is poisoned.                                                *)
LEMMA AloneLatest ==
    ASSUME Inv, NEW h \in Hook, scope[OwnerOf(h)].pc = "open",
           hook[h].pc \notin {"unbound", "running", "capture"}, ~hook[h].stopped,
           ~Poisoned(h)
    PROVE  Latest(scope[OwnerOf(h)].native)
<1>1. OwnerOf(h) \in Scope BY Owners
<1>2. ScopeSound(OwnerOf(h)) BY <1>1 DEF Inv, CustodyHolds
<1>3. \A k \in HooksOf(OwnerOf(h)) : hook[k].pc \notin {"running", "capture"}
  BY Engaged
<1> QED BY <1>2, <1>3 DEF ScopeSound, Poisoned

(* The login is put into the box, or the lineage is poisoned.              *)
LEMMA RestoreKeeps ==
    ASSUME Inv, TypeOK', NEW h \in Hook, UNCHANGED <<cli, operation, seeder>>,
           SetUp(h) \/ StageForUse(h)
    PROVE  CustodyHolds'
<1> DEFINE c == OwnerOf(h)
<1>0. c \in Scope /\ h \in Box /\ TypeOK BY Owners DEF Inv
<1>1. /\ scope[c].pc = "open" /\ hook[h].pc \in {"setup", "staging"}
      /\ UNCHANGED <<authority, newest>>
  BY DEF SetUp, StageForUse, At
<1>2. ~hook[h].stopped BY <1>1, AtWork
<1>3. hook[h] \in HookState /\ box[h] \in Contents BY <1>0 DEF TypeOK
<1>4. CASE HookGo(h, "launch") /\ UNCHANGED <<box, scope>>
  BY <1>0, <1>1, <1>2, <1>4, HookMoves, QuietMove DEF Early
<1>5. CASE /\ HookGo(h, IF hook[h].pc = "setup" THEN "ready" ELSE "capture")
           /\ Poison(h)
           /\ UNCHANGED box
  <2>1. HookGo(h, "ready") \/ HookGo(h, "capture") BY <1>5
  <2>2. /\ hook'[h].pc \in {"ready", "capture"} /\ hook'[h].stopped = hook[h].stopped
        /\ \A k \in Hook : k # h => hook'[k] = hook[k]
    BY <1>0, <2>1, HookMoves
  <2> QED BY <1>1, <1>2, <1>5, <2>2, QuietMove DEF Early
<1>6. CASE /\ box[h].up
           /\ Stage(h, scope[OwnerOf(h)].native)
           /\ hook' = [hook EXCEPT ![h].staged = TRUE,
                                   ![h].pc = IF @ = "setup" THEN "ready" ELSE "launch"]
           /\ UNCHANGED scope
  <2>1. /\ hook'[h].pc \in {"ready", "launch"} /\ hook'[h].stopped = hook[h].stopped
        /\ \A k \in Hook : k # h => hook'[k] = hook[k]
    BY <1>0, <1>3, <1>6 DEF TypeOK, HookState
  <2>2. /\ box'[h].up /\ box'[h].held = box[h].held /\ box'[h].copy = scope[c].native
        /\ \A b \in Box : b # h => box'[b] = box[b]
    BY <1>0, <1>3, <1>6 DEF TypeOK, Stage, Contents
  <2>3. /\ scope[c].native \in Native /\ scope[c].native # NoNative
        /\ scope[c].native.turn \in Int /\ authority.native # NoNative
    BY <1>0, <1>1, OpenScopes, Natives DEF MaybeNative
  <2>4. ScopeSound(c) /\ HookSound(h) BY <1>0 DEF Inv, CustodyHolds
  <2>5. box[h].held = NoNative BY <1>1, <2>4 DEF HookSound, Early, Active
  <2>6. HookFrame(h) BY <1>1, <1>6, <2>1, <2>2, <2>3 DEF HookFrame
  <2>7. BoxSound(h)' BY <2>2, <2>5 DEF BoxSound, Active
  <2>8. HookSound(h)'
    BY <1>1, <1>2, <1>6, <2>1, <2>2, <2>3, <2>5 DEF HookSound, NotOlder, Active
  <2>9. ScopeSound(c)'
    <3>1. \A k \in HooksOf(c) : hook[k].pc \in {"running", "capture"}
                                 => hook'[k].pc \in {"running", "capture"}
      BY <1>1, <2>1 DEF HooksOf
    <3> QED BY <1>1, <1>6, <2>4, <3>1 DEF ScopeSound, Latest, HooksOf
  <2> QED BY <1>1, <1>2, <2>6, <2>7, <2>8, <2>9, EngagedWhole
<1> QED BY <1>4, <1>5, <1>6 DEF SetUp, StageForUse, RestoreCredentials

(* A native client starts on the copy it was given.                        *)
LEMMA LaunchKeeps ==
    ASSUME Inv, TypeOK', NEW h \in Hook, UNCHANGED <<cli, operation, seeder>>, Launch(h)
    PROVE  CustodyHolds'
<1> DEFINE c == OwnerOf(h)
<1>0. c \in Scope /\ h \in Box /\ TypeOK BY Owners DEF Inv
<1>1. /\ scope[c].pc = "open" /\ hook[h].pc = "launch" /\ UNCHANGED <<authority, newest>>
  BY DEF Launch, At
<1>2. ~hook[h].stopped BY <1>1, AtWork
<1>3. hook[h] \in HookState /\ box[h] \in Contents BY <1>0 DEF TypeOK
<1>4. CASE /\ \E started \in BOOLEAN :
                 hook' = [hook EXCEPT ![h].pc = "capture", ![h].executed = @ \/ started]
           /\ Poison(h)
           /\ UNCHANGED box
  <2>1. PICK started \in BOOLEAN :
                 hook' = [hook EXCEPT ![h].pc = "capture", ![h].executed = @ \/ started]
    BY <1>4
  <2>2. hook' = [hook EXCEPT ![h] = [hook[h] EXCEPT !.pc = "capture",
                                                   !.executed = @ \/ started]]
    BY <2>1
  <2>3. LET new == [hook[h] EXCEPT !.pc = "capture", !.executed = @ \/ started]
        IN new.pc = "capture" /\ new.stopped = hook[h].stopped
    BY <1>3 DEF HookState
  <2>4. /\ hook'[h].pc = "capture" /\ hook'[h].stopped = hook[h].stopped
        /\ \A k \in Hook : k # h => hook'[k] = hook[k]
    BY <1>0, <2>2, <2>3 DEF TypeOK
  <2> QED BY <1>1, <1>2, <1>4, <2>4, QuietMove DEF Early
<1>5. CASE /\ box[h].up /\ box[h].copy # NoNative
           /\ Start(h)
           /\ hook' = [hook EXCEPT ![h].pc = "running", ![h].executed = TRUE]
           /\ UNCHANGED scope
  <2>1. /\ hook'[h].pc = "running" /\ hook'[h].stopped = hook[h].stopped
        /\ \A k \in Hook : k # h => hook'[k] = hook[k]
    BY <1>0, <1>3, <1>5 DEF TypeOK, HookState
  <2>2. /\ box'[h].up /\ box'[h].held = box[h].copy /\ box'[h].copy = box[h].copy
        /\ box'[h].exit = "none" /\ \A b \in Box : b # h => box'[b] = box[b]
    BY <1>0, <1>3, <1>5 DEF TypeOK, Start, Contents
  <2>3. /\ scope[c].native.login = authority.native.login /\ authority.owner = c
        /\ authority.native # NoNative
    BY <1>0, <1>1, OpenScopes, Natives DEF MaybeNative
  <2>4. ScopeSound(c) /\ HookSound(h) BY <1>0 DEF Inv, CustodyHolds
  <2>5. box[h].copy.turn \in Int BY <1>3, <1>5, Natives DEF Contents
  <2>6. box[h].copy.login = scope[c].native.login /\ box[h].copy.turn >= scope[c].native.turn
    BY <1>1, <1>5, <2>4 DEF HookSound, NotOlder
  <2>7. ~Poisoned(h) => Latest(box[h].copy)
    BY <1>1, <1>2, <1>5, <2>4, AloneLatest DEF HookSound, Poisoned
  <2>8. HookFrame(h) BY <1>1, <1>5, <2>1, <2>2, <2>3 DEF HookFrame
  <2>9. BoxSound(h)' BY <1>1, <2>2, <2>3, <2>5, <2>6 DEF BoxSound
  <2>10. HookSound(h)'
    BY <1>1, <1>2, <1>5, <2>1, <2>2, <2>6, <2>7
       DEF HookSound, NotOlder, Active, Early, Latest, Poisoned
  <2>11. ScopeSound(c)'
    <3>1. h \in HooksOf(c) BY DEF HooksOf
    <3> QED BY <1>1, <1>5, <2>1, <2>4, <3>1 DEF ScopeSound, HooksOf
  <2> QED BY <1>1, <1>2, <2>8, <2>9, <2>10, <2>11, EngagedWhole
<1> QED BY <1>4, <1>5 DEF Launch

(* What the box holds is collected into the scope.                         *)
LEMMA CaptureKeeps ==
    ASSUME Inv, TypeOK', NEW h \in Hook, UNCHANGED <<cli, operation, seeder>>, Capture(h)
    PROVE  CustodyHolds'
<1> DEFINE c == OwnerOf(h)
<1>0. c \in Scope /\ h \in Box /\ TypeOK BY Owners DEF Inv
<1>1. /\ scope[c].pc = "open" /\ hook[h].pc = "capture"
      /\ UNCHANGED <<authority, newest, box>>
  BY DEF Capture, At
<1>2. ~hook[h].stopped BY <1>1, AtWork
<1>3. CASE EndUse(h, FALSE)
  BY <1>0, <1>1, <1>2, <1>3, HookMoves, QuietMove DEF Early
<1>4. CASE /\ box[h].up /\ box[h].copy # NoNative
           /\ scope' = [scope EXCEPT ![c].native = box[h].copy]
           /\ HookGo(h, "checkpoint")
  <2>1. /\ hook'[h].pc = "checkpoint" /\ hook'[h].stopped = hook[h].stopped
        /\ \A k \in Hook : k # h => hook'[k] = hook[k]
    BY <1>0, <1>4, HookMoves
  <2>2. scope[c] \in ScopeState /\ box[h] \in Contents BY <1>0 DEF TypeOK
  <2>3. /\ scope'[c].pc = "open" /\ scope'[c].native = box[h].copy
        /\ scope'[c].seen = scope[c].seen /\ scope'[c].closed = scope[c].closed
        /\ scope'[c].poisoned = scope[c].poisoned
        /\ \A d \in Scope : d # c => scope'[d] = scope[d]
    BY <1>0, <1>1, <1>4, <2>2 DEF TypeOK, ScopeState
  <2>4. /\ scope[c].native \in Native /\ scope[c].native.login = authority.native.login
        /\ authority.native \in Native /\ authority.native # NoNative
        /\ ~scope[c].closed => /\ authority = scope[c].seen
                               /\ authority.native.turn <= scope[c].native.turn
    BY <1>0, <1>1, OpenScopes, Natives DEF MaybeNative
  <2>5. ScopeSound(c) /\ HookSound(h) /\ BoxSound(h) BY <1>0 DEF Inv, CustodyHolds
  <2>6. /\ box[h].copy.turn \in Int /\ scope[c].native.turn \in Int
        /\ authority.native.turn \in Int
        /\ box[h].held # NoNative => box[h].held.turn \in Int
    BY <1>4, <2>2, <2>4, Natives DEF Contents, MaybeNative
  <2>7. box[h].copy.login = scope[c].native.login /\ box[h].copy.turn >= scope[c].native.turn
    BY <1>1, <1>4, <2>5 DEF HookSound, NotOlder
  <2>8. ~scope[c].poisoned => Latest(box[h].copy) /\ ~Active(h)
    BY <1>1, <1>4, <2>5 DEF HookSound
  <2>9. HookFrame(h) BY <1>1, <2>1, <2>3, <2>4 DEF HookFrame
  <2>10. BoxSound(h)' BY <1>0, <1>1, BoxKept
  <2>11. HookSound(h)'
    <3>1. box[h].held # NoNative => /\ box[h].held.login = box[h].copy.login
                                    /\ box[h].held.turn >= box[h].copy.turn
      BY <1>4, <2>4, <2>5, <2>6, <2>7 DEF BoxSound, Active
    <3>2. NotOlder(box[h].copy, box[h].copy.login, box[h].copy.turn) BY <2>6 DEF NotOlder
    <3>3. NotOlder(box[h].held, box[h].copy.login, box[h].copy.turn) BY <3>1 DEF NotOlder
    <3> QED BY <1>1, <1>2, <2>1, <2>3, <2>8, <3>2, <3>3 DEF HookSound, Active, Early, NotOlder
  <2>12. ScopeSound(c)'
    <3>1. ~scope[c].closed => scope[c].seen.native.turn <= box[h].copy.turn
      BY <2>4, <2>6, <2>7
    <3> QED BY <1>1, <1>4, <2>3, <2>4, <2>5, <2>7, <2>8, <3>1 DEF ScopeSound, Latest
  <2> QED BY <1>1, <1>2, <2>9, <2>10, <2>11, <2>12, EngagedWhole
<1> QED BY <1>3, <1>4 DEF Capture

(* What was collected becomes durable, or the claim is never written again. *)
LEMMA CheckpointKeeps ==
    ASSUME Inv, TypeOK', NEW h \in Hook, UNCHANGED <<cli, operation, seeder>>, Checkpoint(h)
    PROVE  CustodyHolds'
<1> DEFINE c == OwnerOf(h)
           new == Checkpointed(scope[c].seen, scope[c].native)
<1>0. c \in Scope /\ c \in Consumer /\ h \in Box /\ TypeOK BY Owners DEF Inv, Consumer
<1>1. /\ scope[c].pc = "open" /\ hook[h].pc = "checkpoint" /\ UNCHANGED <<newest, box>>
  BY DEF Checkpoint, At
<1>2. ~hook[h].stopped BY <1>1, AtWork
<1>3. scope[c] \in ScopeState /\ box[h] \in Contents BY <1>0 DEF TypeOK
<1>4. /\ scope[c].native \in Native /\ scope[c].native # NoNative
      /\ scope[c].native.login = authority.native.login
      /\ authority.native \in Native /\ authority.native # NoNative
      /\ authority.owner = c /\ authority.phase = "claimed"
      /\ authority \in Session /\ scope[c].native.turn \in Int
      /\ ~scope[c].closed => authority = scope[c].seen
  BY <1>0, <1>1, OpenScopes, Natives DEF MaybeNative
<1>5. ~scope[c].closed => new.owner = c /\ new.native = scope[c].native
  BY <1>0, <1>4, Writes
<1>6. ScopeSound(c) /\ HookSound(h) /\ BoxSound(h) BY <1>0 DEF Inv, CustodyHolds
<1>7. ~scope[c].poisoned => Latest(scope[c].native)
  BY <1>1, <1>2, AloneLatest DEF Poisoned
<1> HIDE DEF new
<1>8. CASE scope[c].closed /\ EndUse(h, FALSE) /\ UNCHANGED authority
  BY <1>0, <1>1, <1>2, <1>8, HookMoves, QuietMove DEF Early
<1>9. ASSUME ~scope[c].closed,
             authority' \in {authority, new},
             \A d \in Scope : d # c => scope'[d] = scope[d],
             scope'[c].pc = "open", scope'[c].native = scope[c].native,
             scope[c].poisoned => scope'[c].poisoned,
             \/ scope'[c].closed /\ scope'[c].poisoned
             \/ ~scope'[c].closed /\ authority' = new /\ scope'[c].seen = new,
             hook'[h].pc \in {"cleanup", "ready"}, hook'[h].stopped = hook[h].stopped,
             \A k \in Hook : k # h => hook'[k] = hook[k]
      PROVE  CustodyHolds'
  <2>1. /\ authority'.owner = authority.owner /\ authority'.native # NoNative
        /\ authority'.native.login = authority.native.login
    BY <1>4, <1>5, <1>9
  <2>2. HookFrame(h) BY <1>1, <1>9, <2>1 DEF HookFrame
  <2>3. BoxSound(h)' BY <1>0, <1>1, <2>1, BoxKept
  <2>4. HookSound(h)'
    BY <1>1, <1>2, <1>6, <1>9 DEF HookSound, Active, Early, NotOlder
  <2>5. ScopeSound(c)'
    BY <1>1, <1>4, <1>5, <1>7, <1>9, <2>1 DEF ScopeSound, Latest
  <2> QED BY <1>1, <1>2, <2>2, <2>3, <2>4, <2>5, EngagedWhole
<1>10. CASE /\ ~scope[c].closed
            /\ CompareAndSwap(scope[c].seen, new, "acknowledged")
            /\ scope' = [scope EXCEPT ![c].seen = new]
            /\ HookGo(h, "cleanup")
  <2>1. authority' = new BY <1>10 DEF CompareAndSwap
  <2>2. /\ scope'[c].pc = "open" /\ scope'[c].native = scope[c].native
        /\ scope'[c].seen = new /\ scope'[c].closed = scope[c].closed
        /\ scope'[c].poisoned = scope[c].poisoned
        /\ \A d \in Scope : d # c => scope'[d] = scope[d]
    BY <1>0, <1>1, <1>3, <1>10 DEF TypeOK, ScopeState
  <2>3. /\ hook'[h].pc = "cleanup" /\ hook'[h].stopped = hook[h].stopped
        /\ \A k \in Hook : k # h => hook'[k] = hook[k]
    BY <1>0, <1>10, HookMoves
  <2> QED BY <1>9, <1>10, <2>1, <2>2, <2>3
<1>11. CASE /\ ~scope[c].closed
            /\ \E reply \in Reply \ {"acknowledged"} :
                  CompareAndSwap(scope[c].seen, new, reply)
            /\ scope' = [scope EXCEPT ![c].closed = TRUE, ![c].poisoned = TRUE]
            /\ BackToReady(h, FALSE)
  <2>1. authority' \in {authority, new} BY <1>11 DEF CompareAndSwap
  <2>2. scope' = [scope EXCEPT ![c] = [scope[c] EXCEPT !.closed = TRUE, !.poisoned = TRUE]]
    BY <1>11
  <2>3. /\ scope'[c].pc = "open" /\ scope'[c].native = scope[c].native
        /\ scope'[c].closed /\ scope'[c].poisoned
        /\ \A d \in Scope : d # c => scope'[d] = scope[d]
    BY <1>0, <1>1, <1>3, <2>2 DEF TypeOK, ScopeState
  <2>4. /\ hook'[h].pc = "ready" /\ hook'[h].stopped = hook[h].stopped
        /\ \A k \in Hook : k # h => hook'[k] = hook[k]
    BY <1>0, <1>11, HookMoves
  <2> QED BY <1>9, <1>11, <2>1, <2>3, <2>4
<1> QED BY <1>8, <1>10, <1>11 DEF Checkpoint, new

(* The auth file is removed from the box after a model execution.          *)
LEMMA CleanUpKeeps ==
    ASSUME Inv, TypeOK', NEW h \in Hook, UNCHANGED <<cli, operation, seeder>>, CleanUp(h)
    PROVE  CustodyHolds'
<1> DEFINE c == OwnerOf(h)
<1>0. c \in Scope /\ h \in Box /\ TypeOK BY Owners DEF Inv
<1>1. /\ scope[c].pc = "open" /\ hook[h].pc = "cleanup" /\ UNCHANGED <<authority, newest>>
  BY DEF CleanUp, At
<1>2. ~hook[h].stopped BY <1>1, AtWork
<1>3. /\ hook'[h].pc = "ready" /\ hook'[h].stopped = hook[h].stopped
      /\ \A k \in Hook : k # h => hook'[k] = hook[k]
      /\ UNCHANGED scope \/ Poison(h)
  BY <1>0, HookMoves DEF CleanUp
<1>4. CASE UNCHANGED box
  BY <1>1, <1>2, <1>3, <1>4, QuietMove DEF Early
<1>5. CASE box[h].up /\ Stage(h, NoNative) /\ EndUse(h, TRUE)
  <2>1. box[h] \in Contents BY <1>0 DEF TypeOK
  <2>2. /\ box'[h].up /\ box'[h].held = box[h].held /\ box'[h].copy = NoNative
        /\ box'[h].exit = box[h].exit /\ \A b \in Box : b # h => box'[b] = box[b]
    BY <1>0, <1>5, <2>1 DEF TypeOK, Stage, Contents
  <2>3. scope' = scope BY <1>0, <1>5, HookMoves
  <2>4. authority.native # NoNative BY <1>0, <1>1, OpenScopes, Natives DEF MaybeNative
  <2>5. ScopeSound(c) /\ HookSound(h) /\ BoxSound(h) BY <1>0 DEF Inv, CustodyHolds
  <2>6. HookFrame(h) BY <1>1, <1>3, <2>2, <2>3, <2>4 DEF HookFrame
  <2>7. BoxSound(h)' BY <1>1, <2>2, <2>5 DEF BoxSound, Active
  <2>8. HookSound(h)'
    BY <1>1, <1>2, <1>3, <2>2, <2>3, <2>5 DEF HookSound, NotOlder, Active, Early
  <2>9. ScopeSound(c)'
    <3>1. ~scope[c].poisoned => Latest(scope[c].native)
      BY <1>1, <1>2, AloneLatest DEF Poisoned
    <3> QED BY <1>1, <2>3, <2>5, <3>1 DEF ScopeSound, Latest
  <2> QED BY <1>1, <1>2, <2>6, <2>7, <2>8, <2>9, EngagedWhole
<1> QED BY <1>4, <1>5 DEF CleanUp

(* The environment is stopped, or is not: only a box that is down counts.   *)
LEMMA StopKeeps ==
    ASSUME Inv, TypeOK', NEW h \in Hook, UNCHANGED <<cli, operation, seeder>>,
           StopEnvironment(h)
    PROVE  CustodyHolds'
<1> DEFINE c == OwnerOf(h)
<1>0. c \in Scope /\ h \in Box /\ TypeOK BY Owners DEF Inv
<1>1. /\ scope[c].pc = "open" /\ hook[h].pc = "ready" /\ UNCHANGED <<authority, newest>>
  BY DEF StopEnvironment, At
<1>2. hook[h] \in HookState /\ scope[c] \in ScopeState BY <1>0 DEF TypeOK
<1>3. /\ \A b \in Box : b # h => box'[b] = box[b]
      /\ box'[h] = DeadBox \/ box'[h] = box[h]
  BY <1>0 DEF StopEnvironment, Destroy, TypeOK
<1>4. ~DeadBox.up /\ DeadBox.copy = NoNative /\ DeadBox.held = NoNative
  BY DEF DeadBox, EmptyBox
<1>5. ScopeSound(c) /\ HookSound(h) /\ BoxSound(h) BY <1>0 DEF Inv, CustodyHolds
<1>6. hook[h].stopped => ~box'[h].up BY <1>3, <1>4, <1>5 DEF HookSound
<1>7. /\ hook'[h].pc = "ready"
      /\ \A k \in Hook : k # h => hook'[k] = hook[k]
      /\ hook'[h].stopped = ~box'[h].up \/ hook'[h].stopped = hook[h].stopped
  <2>1. \A v : hook' = [hook EXCEPT ![h].stopped = v] =>
                  /\ hook'[h].pc = "ready" /\ hook'[h].stopped = v
                  /\ \A k \in Hook : k # h => hook'[k] = hook[k]
    BY <1>0, <1>1, <1>2 DEF TypeOK, HookState
  <2>2. CASE hook' = [hook EXCEPT ![h].stopped = ~box'[h].up] BY <2>1, <2>2
  <2>3. CASE \E known \in BOOLEAN :
                  hook' = [hook EXCEPT ![h].stopped = IF known THEN ~box'[h].up ELSE @]
    <3>1. PICK known \in BOOLEAN :
                  hook' = [hook EXCEPT ![h].stopped = IF known THEN ~box'[h].up ELSE @]
      BY <2>3
    <3>2. CASE known
      <4>1. hook' = [hook EXCEPT ![h].stopped = ~box'[h].up] BY <3>1, <3>2
      <4> QED BY <2>1, <4>1
    <3>3. CASE ~known
      <4>1. hook' = [hook EXCEPT ![h].stopped = hook[h].stopped] BY <3>1, <3>3
      <4> QED BY <2>1, <4>1
    <3> QED BY <3>2, <3>3
  <2>4. CASE UNCHANGED hook BY <1>1, <2>4
  <2> QED BY <2>2, <2>3, <2>4 DEF StopEnvironment
<1>8. /\ \A d \in Scope : d # c => scope'[d] = scope[d]
      /\ scope'[c].pc = "open" /\ scope'[c].native = scope[c].native
      /\ scope'[c].seen = scope[c].seen /\ scope'[c].closed = scope[c].closed
      /\ scope[c].poisoned => scope'[c].poisoned
  <2>1. CASE UNCHANGED scope BY <1>1, <2>1
  <2>2. CASE Poison(h)
    <3>1. scope' = [scope EXCEPT ![c] = [scope[c] EXCEPT !.poisoned = TRUE]]
      BY <2>2 DEF Poison
    <3> QED BY <1>0, <1>1, <1>2, <3>1 DEF TypeOK, ScopeState
  <2> QED BY <2>1, <2>2 DEF StopEnvironment
<1>9. authority.native # NoNative BY <1>0, <1>1, OpenScopes, Natives DEF MaybeNative
<1>10. HookFrame(h) BY <1>1, <1>3, <1>7, <1>8, <1>9 DEF HookFrame
<1>11. BoxSound(h)' BY <1>1, <1>3, <1>4, <1>5 DEF BoxSound, Active
<1>12. HookSound(h)'
  BY <1>1, <1>3, <1>4, <1>5, <1>6, <1>7, <1>8 DEF HookSound, NotOlder, Active, Early
<1>13. ASSUME NEW k \in HooksOf(c), k # h PROVE HookSound(k)'
  <2>1. k \in Hook /\ OwnerOf(k) = c /\ k \in Box BY Owners DEF HooksOf
  <2>2. hook'[k] = hook[k] /\ box'[k] = box[k] BY <1>3, <1>7, <1>13, <2>1
  <2>3. HookSound(k) BY <2>1 DEF Inv, CustodyHolds
  <2>4. Active(k)' <=> Active(k) BY <2>2 DEF Active
  <2> QED BY <1>1, <1>8, <2>1, <2>2, <2>3, <2>4 DEF HookSound, NotOlder, Latest
<1>14. ScopeSound(c)'
  <2>1. \A k \in HooksOf(c) : hook[k].pc \in {"running", "capture"}
                               => hook'[k].pc \in {"running", "capture"}
    BY <1>1, <1>7 DEF HooksOf
  <2> QED BY <1>1, <1>5, <1>8, <2>1 DEF ScopeSound, Latest, HooksOf
<1>15. HooksApart' BY <1>1, <1>6, <1>7, ApartKept
<1> QED BY <1>10, <1>11, <1>12, <1>13, <1>14, <1>15, HookWhole

(* Every step of a hook.                                                   *)
LEMMA HookKeeps ==
    ASSUME Inv, NEW h \in Hook, HookStep(h)
    PROVE  Inv'
<1>1. TypeOK' BY HookTypes
<1>2. UNCHANGED <<cli, operation, seeder>> BY DEF HookStep
<1>3. CustodyHolds'
  <2>1. CASE Bind(h) BY <1>1, <1>2, <2>1, BindKeeps
  <2>2. CASE SetUp(h) \/ StageForUse(h) BY <1>1, <1>2, <2>2, RestoreKeeps
  <2>3. CASE Launch(h) BY <1>1, <1>2, <2>3, LaunchKeeps
  <2>4. CASE Capture(h) BY <1>1, <1>2, <2>4, CaptureKeeps
  <2>5. CASE Checkpoint(h) BY <1>1, <1>2, <2>5, CheckpointKeeps
  <2>6. CASE CleanUp(h) BY <1>1, <1>2, <2>6, CleanUpKeeps
  <2>7. CASE StopEnvironment(h) BY <1>1, <1>2, <2>7, StopKeeps
  <2>8. CASE \/ CaptureConsumer(h) \/ Rebind(h) \/ NewDispatch(h)
             \/ ExecuteModel(h) \/ ExecuteMetadata(h)
             \/ ExecReturns(h) \/ ExecRaises(h)
    BY <1>1, <1>2, <2>8, HookTurns
  <2> QED BY <2>1, <2>2, <2>3, <2>4, <2>5, <2>6, <2>7, <2>8 DEF HookStep
<1> QED BY <1>1, <1>3 DEF Inv

-----------------------------------------------------------------------------
(* Steps of a scope. *)

(* While the record is ready nothing runs and nobody holds it.             *)
LEMMA ReadyIsIdle ==
    ASSUME Inv, authority.phase # "claimed"
    PROVE  /\ \A b \in Box : ~Active(b)
           /\ \A c \in Scope : scope[c].pc # "open"
           /\ \A s \in Cli : cli[s].pc \notin Live
BY OwnedBy

(* A step of a scope leaves the rest of the world as it was: it claims a   *)
(* ready record, or writes one of its own.                                 *)
LEMMA ScopeElsewhere ==
    ASSUME Inv, NEW c \in Scope, scope[c].pc \notin {"ended", "dead"},
           UNCHANGED <<newest, box, cli, operation, seeder>>,
           \A d \in Scope : d # c => scope'[d] = scope[d],
           \A k \in Hook : OwnerOf(k) # c => hook'[k] = hook[k],
           \/ UNCHANGED authority
           \/ authority.phase = "ready" /\ authority'.native = authority.native
           \/ /\ authority.owner = c
              /\ authority'.owner = c \/ \A b \in Box : ~Active(b)
              /\ authority.native # NoNative
              /\ authority'.native.login = authority.native.login
    PROVE  /\ \A b \in Box : BoxSound(b)'
           /\ \A d \in Scope : d # c => ScopeSound(d)'
           /\ \A k \in Hook : OwnerOf(k) # c => HookSound(k)'
           /\ \A s \in Cli : CliSound(s)'
           /\ \A g \in Seeder : SeederSound(g)'
<1>0. c \in Consumer /\ c \notin Cli BY Owners DEF Consumer
<1>1. \/ UNCHANGED authority
      \/ /\ \A d \in Scope : d # c => scope[d].pc # "open"
         /\ \A s \in Cli : cli[s].pc \notin Live
  BY <1>0, OwnedBy, ReadyIsIdle
<1>2. \A b \in Box : BoxSound(b)'
  <2> TAKE b \in Box
  <2>1. Active(b) => /\ authority'.owner = authority.owner
                     /\ authority'.native.login = authority.native.login
    BY ReadyIsIdle
  <2> QED BY <2>1, BoxKept
<1>3. \A d \in Scope : d # c => ScopeSound(d)'
  <2> TAKE d \in Scope
  <2> HAVE d # c
  <2>1. \A k \in HooksOf(d) : hook'[k] = hook[k] BY DEF HooksOf
  <2> QED BY <1>1, <2>1, ScopeKept
<1>4. \A k \in Hook : OwnerOf(k) # c => HookSound(k)' BY HookKept, Owners
<1>5. \A s \in Cli : CliSound(s)' BY <1>1, CliKept
<1>6. \A e \in Consumer : ProvenStopped(e) => ProvenStopped(e)'
  <2> TAKE e \in Consumer
  <2> HAVE ProvenStopped(e)
  <2>1. e # c BY DEF ProvenStopped, RunProvenStopped
  <2>2. e \in Scope => scope'[e].pc \in {"ended", "dead"}
    BY <2>1 DEF ProvenStopped, RunProvenStopped
  <2>3. e \in Cli => cli'[e].pc \in {"exited", "dead"}
    BY Owners DEF ProvenStopped, CliProvenStopped
  <2> QED BY <2>2, <2>3, StopsStay DEF Active
<1>7. \A g \in Seeder : SeederSound(g)'
  <2> TAKE g \in Seeder
  <2>1. authority'.native # NoNative =>
           authority.native # NoNative /\ authority'.native.login = authority.native.login
    OBVIOUS
  <2> QED BY <1>6, <2>1, SeedersKept
<1> QED BY <1>2, <1>3, <1>4, <1>5, <1>7

(* ... and is whole when the scope and its hooks are sound.                *)
LEMMA ScopeWhole ==
    ASSUME Inv, NEW c \in Scope, scope[c].pc \notin {"ended", "dead"},
           UNCHANGED <<newest, box, cli, operation, seeder>>,
           \A d \in Scope : d # c => scope'[d] = scope[d],
           UNCHANGED hook,
           \/ UNCHANGED authority
           \/ authority.phase = "ready" /\ authority'.native = authority.native
           \/ /\ authority.owner = c
              /\ authority'.owner = c \/ \A b \in Box : ~Active(b)
              /\ authority.native # NoNative
              /\ authority'.native.login = authority.native.login,
           authority'.phase = "ready" => \/ UNCHANGED authority
                                         \/ Latest(authority'.native),
           ScopeSound(c)',
           scope'[c].pc \notin {"open", "dead"}
    PROVE  CustodyHolds'
<1>1. RecordSound'
  BY DEF Inv, CustodyHolds, RecordSound, Latest
<1>2. HooksApart' BY ApartKept
<1>3. ASSUME NEW k \in Hook, OwnerOf(k) = c PROVE HookSound(k)'
  <2>1. HookSound(k) /\ scope[c].pc # "dead" BY <1>3 DEF Inv, CustodyHolds
  <2> QED BY <1>3, <2>1 DEF HookSound, Active
<1>4. \A k \in Hook : OwnerOf(k) # c => hook'[k] = hook[k] OBVIOUS
<1>5. /\ \A b \in Box : BoxSound(b)'
      /\ \A d \in Scope : d # c => ScopeSound(d)'
      /\ \A k \in Hook : OwnerOf(k) # c => HookSound(k)'
      /\ \A s \in Cli : CliSound(s)'
      /\ \A g \in Seeder : SeederSound(g)'
  BY <1>4, ScopeElsewhere
<1> QED BY <1>1, <1>2, <1>3, <1>5 DEF CustodyHolds

(* The scope reads the record, or its process comes to its end.            *)
LEMMA ScopeTurns ==
    ASSUME Inv, NEW c \in Scope, UNCHANGED <<cli, operation, seeder>>,
           OpenScope(c) \/ RunEnds(c)
    PROVE  Inv'
<1>0. /\ TypeOK /\ scope[c] \in ScopeState /\ authority \in Session \cup {Absent}
      /\ ScopeSound(c)
  BY DEF Inv, TypeOK, CustodyHolds
<1>1. /\ UNCHANGED <<authority, newest, box, hook>>
      /\ scope[c].pc \in {"idle", "over"}
  BY DEF OpenScope, RunEnds
<1>2. /\ scope' \in [Scope -> ScopeState]
      /\ \A d \in Scope : d # c => scope'[d] = scope[d]
      /\ scope'[c].pc \in {"claiming", "over", "ended"}
      /\ scope'[c].pc = "claiming" =>
            /\ scope[c].pc = "idle" /\ scope'[c].closed = scope[c].closed
            /\ scope'[c].seen # Absent /\ scope'[c].seen.phase = "ready"
  <2>1. CASE OpenScope(c) /\ Claimable(scope[c].generation)
    <3>1. scope' = [scope EXCEPT ![c] = [scope[c] EXCEPT !.pc = "claiming", !.seen = authority]]
      BY <2>1 DEF OpenScope
    <3>2. [scope[c] EXCEPT !.pc = "claiming", !.seen = authority] \in ScopeState
      BY <1>0 DEF ScopeState
    <3> QED BY <1>0, <2>1, <3>1, <3>2 DEF TypeOK, ScopeState, OpenScope, Claimable
  <2>2. CASE OpenScope(c) /\ ~Claimable(scope[c].generation)
    BY <1>0, <2>2 DEF TypeOK, ScopeState, OpenScope
  <2>3. CASE RunEnds(c)
    BY <1>0, <2>3 DEF TypeOK, ScopeState, RunEnds
  <2> QED BY <2>1, <2>2, <2>3
<1>3. TypeOK' BY <1>0, <1>1, <1>2 DEF TypeOK
<1>4. ScopeSound(c)' BY <1>0, <1>1, <1>2 DEF ScopeSound, HooksOf
<1>5. CustodyHolds' BY <1>1, <1>2, <1>4, ScopeWhole
<1> QED BY <1>3, <1>5 DEF Inv

(* The scope claims the record it has read.                                *)
LEMMA ClaimKeeps ==
    ASSUME Inv, NEW c \in Scope, UNCHANGED <<cli, operation, seeder>>, ClaimForScope(c)
    PROVE  Inv'
<1> DEFINE new == Claimed(scope[c].seen, c)
<1>0. /\ TypeOK /\ scope[c] \in ScopeState /\ authority \in Session \cup {Absent}
      /\ ScopeSound(c) /\ c \in Consumer
  BY Owners DEF Inv, TypeOK, CustodyHolds, Consumer
<1>1. /\ UNCHANGED <<newest, box, hook>> /\ scope[c].pc = "claiming"
  BY DEF ClaimForScope
<1>2. /\ scope[c].seen \in Session \cup {Absent} /\ scope[c].seen.phase = "ready"
      /\ scope[c].seen.native \in Native /\ scope[c].seen.native # NoNative
  BY <1>0, <1>1, Phases, Natives DEF ScopeState, ScopeSound, MaybeNative
<1>3. /\ new \in Session /\ new.phase = "claimed" /\ new.owner = c
      /\ new.native = scope[c].seen.native
  BY <1>0, <1>2, Writes
<1> HIDE DEF new
<1>4. PICK reply \in Reply :
            /\ CompareAndSwap(scope[c].seen, new, reply)
            /\ scope' = IF reply = "acknowledged"
                        THEN [scope EXCEPT ![c].pc = "open", ![c].seen = new,
                                           ![c].native = new.native]
                        ELSE [scope EXCEPT ![c].pc = "over"]
  BY DEF ClaimForScope, new
<1>5. /\ \/ authority = scope[c].seen /\ authority' = new
         \/ authority' = authority
      /\ reply = "acknowledged" => authority = scope[c].seen /\ authority' = new
  BY <1>4, Swaps
<1>6. authority' = authority \/ (authority.phase = "ready" /\ authority'.native = authority.native)
  BY <1>2, <1>3, <1>5
<1>7. CASE reply # "acknowledged"
  <2>1. /\ scope' \in [Scope -> ScopeState] /\ scope'[c].pc = "over"
        /\ \A d \in Scope : d # c => scope'[d] = scope[d]
    BY <1>0, <1>4, <1>7 DEF TypeOK, ScopeState
  <2>2. TypeOK' BY <1>0, <1>1, <1>3, <1>5, <2>1 DEF TypeOK
  <2>3. ScopeSound(c)' BY <2>1 DEF ScopeSound
  <2>4. authority'.phase = "ready" => UNCHANGED authority BY <1>3, <1>5
  <2>5. CustodyHolds' BY <1>1, <1>6, <2>1, <2>3, <2>4, ScopeWhole
  <2> QED BY <2>2, <2>5 DEF Inv
<1>8. CASE reply = "acknowledged"
  <2>1. scope' = [scope EXCEPT ![c] = [scope[c] EXCEPT !.pc = "open", !.seen = new,
                                                      !.native = new.native]]
    BY <1>4, <1>8
  <2>2. [scope[c] EXCEPT !.pc = "open", !.seen = new, !.native = new.native] \in ScopeState
    BY <1>0, <1>2, <1>3 DEF ScopeState, MaybeNative
  <2>3. /\ scope' \in [Scope -> ScopeState]
        /\ scope'[c].pc = "open" /\ scope'[c].seen = new /\ scope'[c].native = new.native
        /\ scope'[c].closed = scope[c].closed /\ scope'[c].poisoned = scope[c].poisoned
        /\ \A d \in Scope : d # c => scope'[d] = scope[d]
    BY <1>0, <2>1, <2>2 DEF TypeOK, ScopeState
  <2>4. TypeOK' BY <1>0, <1>1, <1>3, <1>5, <2>3 DEF TypeOK
  <2>5. authority = scope[c].seen /\ authority' = new /\ authority.phase = "ready"
    BY <1>2, <1>5, <1>8
  <2>6. Latest(new.native) BY <1>3, <2>5 DEF Inv, CustodyHolds, RecordSound
  <2>7. new.native.turn \in Int
    BY <1>2, <1>3, Natives DEF MaybeNative
  <2>8. ScopeSound(c)'
    BY <1>0, <1>1, <1>2, <1>3, <2>3, <2>5, <2>6, <2>7 DEF ScopeSound, Latest
  <2>9. ASSUME NEW k \in Hook, OwnerOf(k) = c PROVE HookSound(k)'
    <3>1. hook[k].pc = "unbound" BY <1>0, <1>1, <2>9 DEF ScopeSound, HooksOf
    <3>2. box[k].copy = NoNative /\ box[k].held = NoNative
      BY <2>5, <3>1, <2>9, ReadyIsIdle, Owners DEF Inv, CustodyHolds, HookSound, Active
    <3>3. ~hook[k].stopped BY <3>1, AtWork
    <3> QED BY <1>1, <3>1, <3>2, <3>3 DEF HookSound, NotOlder, Active
  <2>10. /\ \A b \in Box : BoxSound(b)'
         /\ \A d \in Scope : d # c => ScopeSound(d)'
         /\ \A k \in Hook : OwnerOf(k) # c => HookSound(k)'
         /\ \A s \in Cli : CliSound(s)'
         /\ \A g \in Seeder : SeederSound(g)'
    BY <1>1, <1>6, <2>3, ScopeElsewhere
  <2>11. RecordSound' /\ HooksApart' BY <1>1, <1>3, <2>5, ApartKept DEF RecordSound
  <2> QED BY <2>4, <2>8, <2>9, <2>10, <2>11 DEF Inv, CustodyHolds
<1> QED BY <1>7, <1>8

(* The process of the run dies: whatever its hooks were doing goes on in   *)
(* the boxes, under a record that stays claimed.                           *)
LEMMA DeathKeeps ==
    ASSUME Inv, NEW c \in Scope, UNCHANGED <<cli, operation, seeder>>, RunDies(c)
    PROVE  Inv'
<1>0. TypeOK /\ scope[c] \in ScopeState BY DEF Inv, TypeOK
<1>1. /\ UNCHANGED <<authority, newest, box>> /\ scope[c].pc \in {"claiming", "open"}
      /\ scope' = [scope EXCEPT ![c].pc = "dead"]
      /\ hook' = [h \in Hook |-> IF OwnerOf(h) = c
                                 THEN [FreshHook EXCEPT !.pc = "gone"] ELSE hook[h]]
  BY DEF RunDies
<1>2. [FreshHook EXCEPT !.pc = "gone"] \in HookState
  <2>1. 0 \in 0..Uses BY UsesAssumption
  <2>2. FreshHook \in HookState BY <2>1 DEF FreshHook, HookState
  <2> QED BY <2>2 DEF HookState
<1>3. /\ scope' \in [Scope -> ScopeState] /\ scope'[c].pc = "dead"
      /\ \A d \in Scope : d # c => scope'[d] = scope[d]
  BY <1>0, <1>1 DEF TypeOK, ScopeState
<1>4. TypeOK' BY <1>0, <1>1, <1>2, <1>3 DEF TypeOK
<1>5. \A k \in Hook : /\ OwnerOf(k) = c => hook'[k].pc = "gone" /\ ~hook'[k].stopped
                      /\ OwnerOf(k) # c => hook'[k] = hook[k]
  BY <1>1 DEF FreshHook
<1>6. RecordSound' BY <1>1 DEF Inv, CustodyHolds, RecordSound, Latest
<1>7. HooksApart' BY <1>5, ApartKept
<1>8. ScopeSound(c)' BY <1>3 DEF ScopeSound
<1>9. ASSUME NEW k \in Hook, OwnerOf(k) = c PROVE HookSound(k)'
  BY <1>3, <1>5, <1>9 DEF HookSound
<1>10. /\ \A b \in Box : BoxSound(b)'
       /\ \A d \in Scope : d # c => ScopeSound(d)'
       /\ \A k \in Hook : OwnerOf(k) # c => HookSound(k)'
       /\ \A s \in Cli : CliSound(s)'
       /\ \A g \in Seeder : SeederSound(g)'
  BY <1>1, <1>3, <1>5, ScopeElsewhere
<1> QED BY <1>4, <1>6, <1>7, <1>8, <1>9, <1>10 DEF Inv, CustodyHolds

(* The end of the scope: the record is released only when no client runs   *)
(* and the login of the scope is the newest.                               *)
LEMMA FinalizeKeeps ==
    ASSUME Inv, NEW c \in Scope, UNCHANGED <<cli, operation, seeder>>, Finalize(c)
    PROVE  Inv'
<1> DEFINE seen == scope[c].seen
           released == Released(seen, scope[c].native)
           preserved == Preserved(seen, scope[c].native)
<1>0. /\ TypeOK /\ scope[c] \in ScopeState /\ ScopeSound(c) /\ c \in Consumer
      /\ authority \in Session \cup {Absent}
  BY DEF Inv, TypeOK, CustodyHolds, Consumer
<1>1. /\ scope[c].pc = "open" /\ UNCHANGED <<newest, box, hook>>
      /\ \A h \in HooksOf(c) : hook[h].pc \in {"unbound", "ready"}
      /\ scope' = [scope EXCEPT ![c].pc = "over", ![c].closed = TRUE]
  BY DEF Finalize
<1>2. /\ scope[c].native \in Native /\ scope[c].native.login = authority.native.login
      /\ authority.phase = "claimed" /\ authority.owner = c /\ authority.native # NoNative
      /\ ~scope[c].closed => authority = seen
  BY <1>0, <1>1, OpenScopes, Natives DEF MaybeNative
<1>3. \/ UNCHANGED authority
      \/ authority = seen /\ authority' = preserved
      \/ authority = seen /\ authority' = released /\ ~scope[c].poisoned
  <2>1. PICK completed \in BOOLEAN, reply \in Reply :
             IF scope[c].closed \/ (completed /\ (\A h \in HooksOf(c) : hook[h].executed = FALSE)
                                              /\ {h \in HooksOf(c) : Bound(h)} # {})
             THEN UNCHANGED authority
             ELSE IF Safe(c)
             THEN CompareAndSwap(seen, released, reply)
             ELSE CompareAndSwap(seen, preserved, reply)
    BY DEF Finalize
  <2>2. CASE UNCHANGED authority BY <2>2
  <2>3. CASE Safe(c) /\ CompareAndSwap(seen, released, reply)
    BY <2>3, Swaps DEF Safe
  <2>4. CASE CompareAndSwap(seen, preserved, reply)
    BY <2>4, Swaps
  <2> QED BY <2>1, <2>2, <2>3, <2>4
<1>4. authority = seen =>
        /\ preserved \in Session /\ preserved.phase = "claimed" /\ preserved.owner = c
        /\ preserved.native = scope[c].native
        /\ released \in Session /\ released.phase = "ready"
        /\ released.native = scope[c].native
  BY <1>0, <1>2, Writes
<1> HIDE DEF released, preserved
<1>5. scope' = [scope EXCEPT ![c] = [scope[c] EXCEPT !.pc = "over", !.closed = TRUE]]
  BY <1>1
<1>6. /\ scope' \in [Scope -> ScopeState] /\ scope'[c].pc = "over"
      /\ \A d \in Scope : d # c => scope'[d] = scope[d]
  BY <1>0, <1>5 DEF TypeOK, ScopeState
<1>7. TypeOK' BY <1>0, <1>1, <1>3, <1>4, <1>6 DEF TypeOK
<1>8. ~scope[c].poisoned => Latest(scope[c].native) /\ \A b \in Box : ~Active(b)
  <2> SUFFICES ASSUME ~scope[c].poisoned
               PROVE  Latest(scope[c].native) /\ \A b \in Box : ~Active(b)
    OBVIOUS
  <2>1. Latest(scope[c].native) BY <1>0, <1>1 DEF ScopeSound
  <2>2. ASSUME NEW b \in Box, Active(b) PROVE FALSE
    <3>1. OwnerOf(b) = c BY <1>2, <2>2, OwnedBy
    <3>2. b \in HooksOf(c) BY <3>1, Owners DEF HooksOf
    <3>3. HookSound(b) BY <3>2 DEF HooksOf, Inv, CustodyHolds
    <3> QED BY <1>1, <2>2, <3>1, <3>2, <3>3 DEF HookSound
  <2> QED BY <2>1, <2>2
<1>9. \/ UNCHANGED authority
      \/ /\ authority'.owner = c \/ \A b \in Box : ~Active(b)
         /\ authority'.native.login = authority.native.login
         /\ authority'.phase = "ready" => Latest(authority'.native)
  <2>1. CASE authority = seen /\ authority' = preserved BY <1>2, <1>4, <2>1
  <2>2. CASE authority = seen /\ authority' = released /\ ~scope[c].poisoned
    <3>1. authority'.native = scope[c].native BY <1>4, <2>2
    <3>2. Latest(authority'.native)
      BY <1>1, <1>8, <2>2, <3>1 DEF Latest
    <3> QED BY <1>2, <1>8, <2>2, <3>1, <3>2
  <2> QED BY <1>3, <2>1, <2>2
<1>10. ScopeSound(c)' BY <1>6 DEF ScopeSound
<1>11. CustodyHolds' BY <1>1, <1>2, <1>6, <1>9, <1>10, ScopeWhole
<1> QED BY <1>7, <1>11 DEF Inv

(* Every step of a scope.                                                  *)
LEMMA ScopeKeeps ==
    ASSUME Inv, NEW c \in Scope, ScopeStep(c)
    PROVE  Inv'
BY ScopeTurns, ClaimKeeps, DeathKeeps, FinalizeKeeps DEF ScopeStep

-----------------------------------------------------------------------------
(* Steps of a native client, or the end of its box. *)

(* The client of a live lineage runs inside the native execution of its    *)
(* hook.                                                                   *)
LEMMA ClientRuns ==
    ASSUME Inv, NEW b \in Hook, Active(b), scope[OwnerOf(b)].pc = "open"
    PROVE  /\ hook[b].pc \notin Early /\ ~hook[b].stopped
           /\ ~Poisoned(b) => hook[b].pc = "running"
<1>1. HookSound(b) /\ BoxSound(b) BY Owners DEF Inv, CustodyHolds
<1> QED BY <1>1 DEF HookSound, BoxSound, Active, DeadBox, EmptyBox, Poisoned

(* A step inside box b, which may renew the login of the record.           *)
ClientFrame(b) ==
    /\ UNCHANGED <<authority, scope, hook, cli, operation, seeder>>
    /\ \A d \in Box : d # b => box'[d] = box[d]
    /\ box[b].up = FALSE => box'[b].up = FALSE
    /\ ~Active(b) => box'[b].held = NoNative
    /\ \/ UNCHANGED newest
       \/ /\ Active(b)
          /\ \A l \in Login : l # authority.native.login => newest'[l] = newest[l]

(* What it leaves sound.                                                   *)
LEMMA ClientElsewhere ==
    ASSUME Inv, NEW b \in Box, ClientFrame(b)
    PROVE  /\ RecordSound' /\ HooksApart'
           /\ \A d \in Box : d # b => BoxSound(d)'
           /\ \A c \in Scope : ScopeSound(c)'
           /\ \A k \in Hook : k # b => HookSound(k)'
           /\ \A s \in Cli : desk(s) # b => CliSound(s)'
           /\ \A g \in Seeder : SeederSound(g)'
<1>1. /\ UNCHANGED <<authority, scope, hook, cli, operation, seeder>>
      /\ \A d \in Box : d # b => box'[d] = box[d]
      /\ UNCHANGED newest \/ (Active(b) /\ authority.owner = OwnerOf(b)
                               /\ authority.phase = "claimed")
  BY OwnedBy DEF ClientFrame
<1>2. RecordSound' BY <1>1 DEF Inv, CustodyHolds, RecordSound, Latest
<1>3. HooksApart' BY <1>1, ApartKept
<1>4. \A d \in Box : d # b => BoxSound(d)' BY <1>1, BoxKept
<1>5. \A c \in Scope : ScopeSound(c)'
  <2> TAKE c \in Scope
  <2>1. CASE UNCHANGED newest BY <1>1, <2>1, ScopeKept
  <2>2. CASE scope[c].pc # "open" BY <1>1, <2>2, ScopeKept
  <2>3. CASE scope[c].pc = "open" /\ Active(b) /\ authority.owner = OwnerOf(b)
    <3>1. b \in Hook /\ OwnerOf(b) = c /\ b \in HooksOf(c)
      BY <2>3, OwnedBy, Owners DEF HooksOf
    <3>2. ~scope[c].poisoned => hook[b].pc = "running" BY <2>3, <3>1, ClientRuns DEF Poisoned
    <3>3. ScopeSound(c) BY DEF Inv, CustodyHolds
    <3> QED BY <1>1, <2>3, <3>1, <3>2, <3>3 DEF ScopeSound, HooksOf
  <2> QED BY <1>1, <2>1, <2>2, <2>3
<1>6. \A k \in Hook : k # b => HookSound(k)'
  <2> TAKE k \in Hook
  <2> HAVE k # b
  <2>1. k \in Box /\ OwnerOf(k) \in Scope BY Owners
  <2>2. CASE UNCHANGED newest \/ scope[OwnerOf(k)].pc # "open"
    BY <1>1, <2>1, <2>2, HookKept
  <2>3. CASE scope[OwnerOf(k)].pc = "open" /\ Active(b) /\ authority.owner = OwnerOf(b)
    <3>1. b \in Hook /\ OwnerOf(b) = OwnerOf(k) /\ k \in HooksOf(OwnerOf(b))
      BY <2>1, <2>3, OwnedBy, Owners DEF HooksOf
    <3>2. ~hook[b].stopped /\ hook[b].pc # "unbound"
      BY <2>3, <3>1, ClientRuns DEF Early
    <3>3. /\ hook[k].pc \in {"unbound", "ready"}
          /\ box[k].copy = NoNative /\ box[k].held = NoNative
      BY <2>3, <3>1, <3>2, Engaged
    <3>4. HookSound(k) BY DEF Inv, CustodyHolds
    <3> QED BY <1>1, <2>1, <2>3, <3>3, <3>4 DEF HookSound, NotOlder, Active
  <2> QED BY <1>1, <2>2, <2>3
<1>7. \A s \in Cli : desk(s) # b => CliSound(s)'
  <2> TAKE s \in Cli
  <2> HAVE desk(s) # b
  <2>1. desk(s) \in Box BY Owners
  <2>2. CASE UNCHANGED newest BY <1>1, <2>1, <2>2, CliKept
  <2>3. CASE Active(b) /\ authority.owner = OwnerOf(b)
    <3>1. OwnerOf(b) # s BY Owners
    <3> QED BY <1>1, <2>3, <3>1, OwnedBy, CliKept
  <2> QED BY <1>1, <2>2, <2>3
<1>8. \A e \in Consumer : ProvenStopped(e) => ProvenStopped(e)'
  <2> TAKE e \in Consumer
  <2> HAVE ProvenStopped(e)
  <2>1. e \in Scope => /\ scope'[e].pc \in {"ended", "dead"}
                       /\ \A d \in BoxesOf(e) : box[d].up = FALSE => box'[d].up = FALSE
    BY <1>1 DEF ProvenStopped, RunProvenStopped, ClientFrame, BoxesOf
  <2>2. e \in Cli => /\ cli'[e].pc \in {"exited", "dead"} /\ operation'[e] = operation[e]
                     /\ ~Active(desk(e)) => box'[desk(e)].held = NoNative
    BY <1>1, Owners DEF ProvenStopped, CliProvenStopped, ClientFrame, Active
  <2> QED BY <2>1, <2>2, StopsStay
<1>9. \A g \in Seeder : SeederSound(g)'
  <2> TAKE g \in Seeder
  <2>1. SeederSound(g) BY DEF Inv, CustodyHolds
  <2>2. CASE newest'[g] = newest[g]
    BY <1>1, <1>8, <2>2, SeedersKept
  <2>3. CASE newest'[g] # newest[g]
    <3>1. Active(b) /\ g = authority.native.login BY <1>1, <2>3 DEF ClientFrame, Login
    <3>2. authority.native # NoNative BY <3>1, OwnedBy, Natives DEF MaybeNative
    <3>3. seeder[g].pc = "over" BY <2>1, <3>1, <3>2 DEF SeederSound
    <3> QED BY <1>1, <3>3 DEF SeederSound
  <2> QED BY <2>2, <2>3
<1> QED BY <1>2, <1>3, <1>4, <1>5, <1>6, <1>7, <1>9

(* A client step is whole when its own box and consumer are sound.         *)
LEMMA ClientWhole ==
    ASSUME Inv, NEW b \in Box, ClientFrame(b), BoxSound(b)',
           b \in Hook => HookSound(b)',
           b \in Desk => CliSound(OwnerOf(b))'
    PROVE  CustodyHolds'
<1>1. \A d \in Box : BoxSound(d)' BY ClientElsewhere
<1>2. \A k \in Hook : HookSound(k)' BY ClientElsewhere
<1>3. \A s \in Cli : CliSound(s)' BY ClientElsewhere, Owners
<1> QED BY <1>1, <1>2, <1>3, ClientElsewhere DEF CustodyHolds

(* Where a running client stands towards the record and what it saved.     *)
LEMMA ClientHolds ==
    ASSUME Inv, NEW b \in Box, Active(b)
    PROVE  /\ box[b] \in Contents /\ box[b].up /\ box[b].exit = "none"
           /\ box[b].held \in Native /\ box[b].held.login \in Login
           /\ box[b].held.turn \in Turn /\ box[b].held.turn \in Int
           /\ authority.owner = OwnerOf(b) /\ authority.native \in Native
           /\ box[b].held.login = authority.native.login
           /\ box[b].copy # NoNative => /\ box[b].copy.turn \in Int
                                        /\ box[b].copy.turn <= box[b].held.turn
<1>1. box[b] \in Contents BY DEF Inv, TypeOK
<1>2. BoxSound(b) BY DEF Inv, CustodyHolds
<1>3. box[b].up BY <1>1, <1>2 DEF BoxSound, DeadBox, EmptyBox, Active, Contents
<1>4. box[b].held \in Native BY <1>1, Natives DEF Contents, Active
<1> QED BY <1>1, <1>2, <1>3, <1>4, OwnedBy, Natives
        DEF BoxSound, Active, Contents, MaybeNative, Login

(* The provider moves the chain on, with the client that asked.            *)
LEMMA RotateKeeps ==
    ASSUME Inv, NEW b \in Box, Rotate(b), UNCHANGED <<scope, hook, cli, operation, seeder>>
    PROVE  Inv'
<1> DEFINE n == box[b].held
           l == box[b].held.login
<1>0. /\ TypeOK /\ BoxSound(b) BY DEF Inv, CustodyHolds
<1>1. /\ Active(b) /\ n.turn = newest[l] /\ n.turn < MaxTurn
      /\ newest' = [newest EXCEPT ![l] = @ + 1]
      /\ box' = [box EXCEPT ![b].held.turn = @ + 1]
      /\ UNCHANGED authority
  BY DEF Rotate
<1>2. /\ box[b] \in Contents /\ n \in Native /\ l \in Login /\ n.turn \in Turn
      /\ n.turn \in Int /\ l = authority.native.login
      /\ box[b].copy # NoNative => box[b].copy.turn \in Int /\ box[b].copy.turn <= n.turn
  BY <1>1, ClientHolds
<1>3. n.turn + 1 \in Turn BY <1>1, <1>2, CustodyAssumption DEF Turn
<1>4. [n EXCEPT !.turn = @ + 1] \in Native BY <1>2, <1>3 DEF Native
<1>5. box' = [box EXCEPT ![b] = [box[b] EXCEPT !.held = [n EXCEPT !.turn = @ + 1]]]
  BY <1>1
<1>6. /\ box' \in [Box -> Contents]
      /\ \A d \in Box : d # b => box'[d] = box[d]
      /\ box'[b].held = [n EXCEPT !.turn = @ + 1]
      /\ box'[b].up = box[b].up /\ box'[b].copy = box[b].copy /\ box'[b].exit = box[b].exit
  BY <1>0, <1>2, <1>4, <1>5 DEF TypeOK, Contents, MaybeNative
<1>7. box'[b].held \in Native /\ box'[b].held.login = l /\ box'[b].held.turn = n.turn + 1
  BY <1>2, <1>4, <1>6 DEF Native
<1>8. /\ newest' \in [Login -> Turn] /\ newest'[l] = n.turn + 1
      /\ \A m \in Login : m # l => newest'[m] = newest[m]
  BY <1>0, <1>1, <1>2, <1>3 DEF TypeOK
<1>9. TypeOK' BY <1>0, <1>1, <1>6, <1>8 DEF TypeOK
<1>10. box'[b].held # NoNative BY <1>7, Natives DEF MaybeNative
<1>11. Latest(box[b].held)' BY <1>7, <1>8 DEF Latest
<1>12. ClientFrame(b) BY <1>1, <1>2, <1>6, <1>8 DEF ClientFrame
<1>13. BoxSound(b)'
  BY <1>0, <1>1, <1>2, <1>6, <1>7, ClientHolds DEF BoxSound
<1>14. ASSUME b \in Hook PROVE HookSound(b)'
  <2>1. HookSound(b) BY <1>14 DEF Inv, CustodyHolds
  <2>2. CASE scope[OwnerOf(b)].pc # "open"
    BY <1>1, <1>6, <1>14, <2>1, <2>2 DEF HookSound
  <2>3. CASE scope[OwnerOf(b)].pc = "open"
    <3>1. /\ hook[b].pc \notin Early /\ ~hook[b].stopped
          /\ ~Poisoned(b) => hook[b].pc = "running"
      BY <1>1, <1>14, <2>3, ClientRuns
    <3>2. scope[OwnerOf(b)].native.turn \in Int
      BY <1>14, <2>3, OpenScopes, Owners, Natives DEF MaybeNative
    <3>3. n.turn >= scope[OwnerOf(b)].native.turn /\ l = scope[OwnerOf(b)].native.login
      BY <1>1, <2>1, <2>3 DEF HookSound, NotOlder, Active
    <3>4. NotOlder(box[b].held, scope[OwnerOf(b)].native.login, scope[OwnerOf(b)].native.turn)'
      BY <1>2, <1>7, <3>2, <3>3 DEF NotOlder
    <3>5. NotOlder(box[b].copy, scope[OwnerOf(b)].native.login, scope[OwnerOf(b)].native.turn)'
      BY <1>6, <2>1, <2>3 DEF HookSound, NotOlder
    <3> QED BY <1>6, <1>10, <1>11, <2>1, <2>3, <3>1, <3>4, <3>5
            DEF HookSound, Active, Poisoned, Early
  <2> QED BY <2>2, <2>3
<1>15. ASSUME b \in Desk PROVE CliSound(OwnerOf(b))'
  <2> DEFINE s == OwnerOf(b)
  <2>1. s \in Cli /\ b = desk(s) BY <1>15, Owners
  <2>2. CliSound(s) BY <2>1 DEF Inv, CustodyHolds
  <2>3. Active(desk(s))' BY <1>10, <2>1 DEF Active, desk
  <2>4. box'[desk(s)].copy = box[desk(s)].copy BY <1>6, <2>1
  <2>5. Latest(box[desk(s)].held)' BY <1>11, <2>1 DEF desk
  <2>6. Active(desk(s)) BY <1>1, <2>1
  <2> QED BY <1>1, <2>2, <2>3, <2>4, <2>5, <2>6 DEF CliSound, desk
<1> QED BY <1>9, <1>12, <1>13, <1>14, <1>15, ClientWhole DEF Inv

(* A client saves what it has.                                             *)
LEMMA PersistKeeps ==
    ASSUME Inv, NEW b \in Box, Persist(b), UNCHANGED <<scope, hook, cli, operation, seeder>>
    PROVE  Inv'
<1> DEFINE n == box[b].held
<1>0. /\ TypeOK /\ BoxSound(b) BY DEF Inv, CustodyHolds
<1>1. /\ Active(b) /\ UNCHANGED <<authority, newest>>
      /\ box' = [box EXCEPT ![b].copy = n]
  BY DEF Persist, Stage
<1>2. /\ box[b] \in Contents /\ box[b].up /\ n \in Native /\ n # NoNative
      /\ n.turn \in Int /\ n.login = authority.native.login
      /\ box[b].copy # NoNative => box[b].copy.turn \in Int /\ box[b].copy.turn <= n.turn
  BY <1>1, ClientHolds, Natives DEF MaybeNative
<1>3. /\ box' \in [Box -> Contents]
      /\ \A d \in Box : d # b => box'[d] = box[d]
      /\ box'[b].held = n /\ box'[b].copy = n
      /\ box'[b].up = box[b].up /\ box'[b].exit = box[b].exit
  BY <1>0, <1>1, <1>2 DEF TypeOK, Contents, MaybeNative
<1>4. TypeOK' BY <1>0, <1>1, <1>3 DEF TypeOK
<1>5. ClientFrame(b) BY <1>1, <1>3 DEF ClientFrame
<1>6. BoxSound(b)' BY <1>0, <1>1, <1>2, <1>3 DEF BoxSound, Active
<1>7. ASSUME b \in Hook PROVE HookSound(b)'
  <2>1. HookSound(b) BY <1>7 DEF Inv, CustodyHolds
  <2>2. ~hook[b].stopped /\ hook[b].pc # "unbound" BY <1>1, <1>2, <2>1 DEF HookSound
  <2>3. CASE scope[OwnerOf(b)].pc # "open"
    BY <1>1, <2>1, <2>2, <2>3 DEF HookSound
  <2>4. CASE scope[OwnerOf(b)].pc = "open"
    <3>1. /\ hook[b].pc \notin Early
          /\ ~Poisoned(b) => hook[b].pc = "running"
      BY <1>1, <1>7, <2>4, ClientRuns
    <3> QED BY <1>1, <1>2, <1>3, <2>1, <2>2, <2>4, <3>1
            DEF HookSound, Active, Poisoned, NotOlder, Latest
  <2> QED BY <2>3, <2>4
<1>8. ASSUME b \in Desk PROVE CliSound(OwnerOf(b))'
  <2> DEFINE s == OwnerOf(b)
  <2>1. s \in Cli /\ b = desk(s) BY <1>8, Owners
  <2>2. CliSound(s) BY <2>1 DEF Inv, CustodyHolds
  <2>3. Active(desk(s)) /\ Active(desk(s))' BY <1>1, <1>2, <1>3, <2>1 DEF Active, desk
  <2>4. box'[desk(s)].copy = n /\ box'[desk(s)].held = n /\ box[desk(s)].held = n
    BY <1>3, <2>1
  <2>5. CASE cli[s].pc \notin Live
    BY <1>1, <2>2, <2>5 DEF CliSound, Live
  <2>6. CASE cli[s].pc \in Live
    <3>1. authority.native \in Native /\ authority.native.turn \in Int
      BY <2>1, <2>6, OwnedBy, Natives DEF MaybeNative
    <3>2. ~cli[s].closed => cli[s].seen.native.turn <= n.turn
      BY <1>2, <2>1, <2>2, <2>6, <3>1 DEF CliSound
    <3> QED BY <1>1, <1>2, <2>2, <2>3, <2>4, <2>6, <3>2 DEF CliSound, desk, Latest
  <2> QED BY <2>5, <2>6
<1> QED BY <1>4, <1>5, <1>6, <1>7, <1>8, ClientWhole DEF Inv

(* A client ends: with 0 only when its renewal is saved.                   *)
LEMMA EndKeeps ==
    ASSUME Inv, NEW b \in Box, ClientEnds(b), UNCHANGED <<scope, hook, cli, operation, seeder>>
    PROVE  Inv'
<1> DEFINE n == box[b].held
<1>0. /\ TypeOK /\ BoxSound(b) BY DEF Inv, CustodyHolds
<1>1. /\ Active(b) /\ UNCHANGED <<authority, newest>> BY DEF ClientEnds
<1>2. PICK exit \in {"good", "bad"} :
          /\ exit = "good" => box[b].held = box[b].copy
          /\ box' = [box EXCEPT ![b].held = NoNative, ![b].exit = exit]
  BY DEF ClientEnds
<1>3. box[b] \in Contents /\ box[b].up BY <1>1, ClientHolds
<1>4. box' = [box EXCEPT ![b] = [box[b] EXCEPT !.held = NoNative, !.exit = exit]]
  BY <1>2
<1>5. [box[b] EXCEPT !.held = NoNative, !.exit = exit] \in Contents
  BY <1>3 DEF Contents, MaybeNative
<1>6. /\ box' \in [Box -> Contents]
      /\ \A d \in Box : d # b => box'[d] = box[d]
      /\ box'[b].held = NoNative /\ box'[b].copy = box[b].copy
      /\ box'[b].up = box[b].up /\ box'[b].exit = exit
  BY <1>0, <1>3, <1>4, <1>5 DEF TypeOK, Contents
<1>7. TypeOK' BY <1>0, <1>1, <1>6 DEF TypeOK
<1>8. ClientFrame(b) BY <1>1, <1>6 DEF ClientFrame
<1>9. BoxSound(b)' BY <1>3, <1>6 DEF BoxSound, Active
<1>10. ASSUME b \in Hook PROVE HookSound(b)'
  <2>1. HookSound(b) BY <1>10 DEF Inv, CustodyHolds
  <2>2. CASE scope[OwnerOf(b)].pc # "open"
    BY <1>6, <1>1, <2>1, <2>2 DEF HookSound, Active
  <2>3. CASE scope[OwnerOf(b)].pc = "open"
    <3>1. /\ hook[b].pc \notin Early /\ ~hook[b].stopped
          /\ ~Poisoned(b) => hook[b].pc = "running"
      BY <1>1, <1>10, <2>3, ClientRuns
    <3>2. ~Poisoned(b) => Latest(n) BY <1>1, <2>1, <2>3, <3>1 DEF HookSound, Poisoned
    <3> QED BY <1>1, <1>2, <1>6, <2>1, <2>3, <3>1, <3>2
            DEF HookSound, Active, Poisoned, NotOlder, Latest, Early
  <2> QED BY <2>2, <2>3
<1>11. ASSUME b \in Desk PROVE CliSound(OwnerOf(b))'
  <2> DEFINE s == OwnerOf(b)
  <2>1. s \in Cli /\ b = desk(s) BY <1>11, Owners
  <2>2. CliSound(s) BY <2>1 DEF Inv, CustodyHolds
  <2>3. Active(desk(s)) /\ ~Active(desk(s))' BY <1>1, <1>6, <2>1 DEF Active, desk
  <2>4. /\ box'[desk(s)].copy = box[desk(s)].copy /\ box'[desk(s)].exit = exit
        /\ box[desk(s)].held = n /\ (exit = "good" => n = box[desk(s)].copy)
    BY <1>2, <1>6, <2>1
  <2>5. /\ cli[s].pc \notin {"held", "active", "launching", "renewed", "loggingOut"}
        /\ cli[s].pc = "closing" => cli[s].ambiguous
    BY <2>2, <2>3 DEF CliSound
  <2>6. cli[s].pc \in {"spawned", "running"} => Latest(n)
    BY <2>2, <2>3, <2>4 DEF CliSound
  <2>7. cli[s].pc \in {"spawned", "running"} /\ exit = "good" => Latest(box[desk(s)].copy)'
    BY <1>1, <2>4, <2>6 DEF Latest, desk
  <2> QED BY <1>1, <2>2, <2>3, <2>4, <2>5, <2>7 DEF CliSound, desk
<1> QED BY <1>7, <1>8, <1>9, <1>10, <1>11, ClientWhole DEF Inv

(* A sandbox ends with everything in it.                                   *)
LEMMA BoxDeathKeeps ==
    ASSUME Inv, NEW b \in Box, BoxDies(b), UNCHANGED <<scope, hook, cli, operation, seeder>>
    PROVE  Inv'
<1>0. /\ TypeOK /\ BoxSound(b) BY DEF Inv, CustodyHolds
<1>1. /\ b \in Hook /\ box[b].up /\ UNCHANGED <<authority, newest>> /\ Destroy(b)
  BY DEF BoxDies
<1>2. box' \in [Box -> Contents] BY <1>0, <1>1, HookParts
<1>3. /\ \A d \in Box : d # b => box'[d] = box[d]
      /\ box'[b] = DeadBox
  BY <1>0, <1>1 DEF TypeOK, Destroy
<1>4. /\ ~DeadBox.up /\ DeadBox.copy = NoNative /\ DeadBox.held = NoNative
      /\ DeadBox.exit = "none"
  BY DEF DeadBox, EmptyBox
<1>5. TypeOK' BY <1>0, <1>1, <1>2 DEF TypeOK
<1>6. ClientFrame(b) BY <1>1, <1>3, <1>4 DEF ClientFrame
<1>7. BoxSound(b)' BY <1>1, <1>3, <1>4 DEF BoxSound, Active
<1>8. HookSound(b) BY <1>1 DEF Inv, CustodyHolds
<1>9. HookSound(b)'
  BY <1>1, <1>3, <1>4, <1>8 DEF HookSound, Active, NotOlder, Early
<1>10. b \notin Desk BY <1>1, Owners
<1> QED BY <1>5, <1>6, <1>7, <1>9, <1>10, ClientWhole DEF Inv

(* Every step in a box.                                                    *)
LEMMA ClientKeeps ==
    ASSUME Inv, NEW b \in Box, ClientStep(b)
    PROVE  Inv'
BY RotateKeeps, PersistKeeps, EndKeeps, BoxDeathKeeps DEF ClientStep

-----------------------------------------------------------------------------
(* Steps of a CLI session. *)

(* A session's step touches its own desk and state, and the record only if *)
(* that is ready or its own.                                               *)
LEMMA CliWhole ==
    ASSUME Inv, NEW s \in Cli, cli[s].pc \notin {"exited", "dead"},
           UNCHANGED <<newest, scope, hook, seeder>>,
           \A t \in Cli : t # s => cli'[t] = cli[t] /\ operation'[t] = operation[t],
           \A b \in Box : b # desk(s) => box'[b] = box[b],
           \/ UNCHANGED authority
           \/ authority.phase = "ready" /\ authority'.native = authority.native
           \/ /\ authority.owner = s
              /\ authority'.owner = s \/ \A b \in Box : ~Active(b)
              /\ authority'.native # NoNative =>
                    /\ authority.native # NoNative
                    /\ authority'.native.login = authority.native.login
              /\ \A b \in Box : Active(b) => authority'.native # NoNative,
           authority'.phase = "ready" => \/ UNCHANGED authority
                                         \/ Latest(authority'.native),
           BoxSound(desk(s))', CliSound(s)'
    PROVE  CustodyHolds'
<1>0. s \in Consumer /\ s \notin Scope /\ desk(s) \in Box /\ desk(s) \notin Hook
  BY Owners DEF Consumer
<1>1. \/ UNCHANGED authority
      \/ /\ \A d \in Scope : scope[d].pc # "open"
         /\ \A t \in Cli : t # s => cli[t].pc \notin Live
  BY <1>0, OwnedBy, ReadyIsIdle
<1>2. RecordSound' BY DEF Inv, CustodyHolds, RecordSound, Latest
<1>3. HooksApart' BY ApartKept
<1>4. \A b \in Box : BoxSound(b)'
  <2> TAKE b \in Box
  <2>1. Active(b) => /\ authority'.owner = authority.owner
                     /\ authority'.native.login = authority.native.login
    BY ReadyIsIdle
  <2> QED BY <2>1, BoxKept
<1>5. \A d \in Scope : ScopeSound(d)' BY <1>1, ScopeKept
<1>6. \A k \in Hook : HookSound(k)'
  <2> TAKE k \in Hook
  <2>1. box'[k] = box[k] BY <1>0, Owners
  <2> QED BY <2>1, HookKept
<1>7. \A t \in Cli : CliSound(t)'
  <2> TAKE t \in Cli
  <2>1. CASE t = s BY <2>1
  <2>2. CASE t # s
    <3>1. desk(t) \in Box /\ desk(t) # desk(s) BY <2>2, Owners
    <3> QED BY <1>1, <2>2, <3>1, CliKept
  <2> QED BY <2>1, <2>2
<1>8. \A e \in Consumer : ProvenStopped(e) => ProvenStopped(e)'
  <2> TAKE e \in Consumer
  <2> HAVE ProvenStopped(e)
  <2>1. e # s BY <1>0 DEF ProvenStopped, CliProvenStopped
  <2>2. e \in Scope => /\ scope'[e].pc \in {"ended", "dead"}
                       /\ \A b \in BoxesOf(e) : box'[b] = box[b]
    BY <1>0, <2>1, Owners DEF ProvenStopped, RunProvenStopped, BoxesOf
  <2>3. e \in Cli => /\ cli'[e].pc \in {"exited", "dead"} /\ operation'[e] = operation[e]
                     /\ box'[desk(e)] = box[desk(e)]
    <3> SUFFICES ASSUME e \in Cli
                 PROVE  /\ cli'[e].pc \in {"exited", "dead"} /\ operation'[e] = operation[e]
                        /\ box'[desk(e)] = box[desk(e)]
      OBVIOUS
    <3>1. e \notin Scope /\ desk(e) \in Box /\ desk(e) # desk(s) BY <2>1, Owners
    <3>2. CliProvenStopped(e) BY <3>1 DEF ProvenStopped
    <3> QED BY <2>1, <3>1, <3>2 DEF CliProvenStopped
  <2> QED BY <2>2, <2>3, StopsStay DEF Active
<1>9. \A g \in Seeder : SeederSound(g)'
  <2> TAKE g \in Seeder
  <2>1. authority'.native # NoNative =>
           authority.native # NoNative /\ authority'.native.login = authority.native.login
    OBVIOUS
  <2> QED BY <1>8, <2>1, SeedersKept
<1> QED BY <1>2, <1>3, <1>4, <1>5, <1>6, <1>7, <1>9 DEF CustodyHolds

(* The part of a live session, and where its client and copy stand.        *)
LEMMA LiveSessions ==
    ASSUME Inv, NEW s \in Cli
    PROVE  /\ TypeOK /\ CliSound(s) /\ BoxSound(desk(s))
           /\ desk(s) \in Box /\ cli[s] \in CliState /\ box[desk(s)] \in Contents
           /\ authority \in Session \cup {Absent} /\ s \in Consumer
           /\ cli[s].pc \in Live =>
                 /\ authority.owner = s /\ authority.phase = "claimed"
                 /\ authority.native \in Native /\ authority.native # NoNative
                 /\ box[desk(s)].copy \in Native
                 /\ box[desk(s)].copy.login = authority.native.login
                 /\ ~cli[s].closed => /\ authority = cli[s].seen
                                      /\ authority.native.turn <= box[desk(s)].copy.turn
           /\ \A b \in Box : Active(b) /\ cli[s].pc \in Live => b = desk(s)
<1>1. /\ TypeOK /\ CliSound(s) /\ desk(s) \in Box /\ BoxSound(desk(s))
  BY Owners DEF Inv, CustodyHolds
<1>2. /\ cli[s] \in CliState /\ box[desk(s)] \in Contents
      /\ authority \in Session \cup {Absent} /\ s \in Consumer
  BY <1>1 DEF TypeOK, Consumer
<1>3. cli[s].pc \in Live =>
         /\ authority.owner = s /\ authority.phase = "claimed"
         /\ authority.native \in Native /\ authority.native # NoNative
         /\ box[desk(s)].copy # NoNative
         /\ box[desk(s)].copy.login = authority.native.login
         /\ ~cli[s].closed => /\ authority = cli[s].seen
                              /\ authority.native.turn <= box[desk(s)].copy.turn
  BY <1>1, OwnedBy, Natives DEF CliSound, MaybeNative
<1>4. box[desk(s)].copy \in MaybeNative BY <1>2 DEF Contents
<1>5. ASSUME NEW b \in Box, Active(b), cli[s].pc \in Live PROVE b = desk(s)
  <2>1. OwnerOf(b) = s BY <1>3, <1>5, OwnedBy
  <2> QED BY <2>1, Owners
<1> QED BY <1>1, <1>2, <1>3, <1>4, <1>5, Natives

(* A session that moves on, or writes its evidence.                        *)
LEMMA CliTurn ==
    ASSUME Inv, NEW s \in Cli, cli[s].pc \notin {"exited", "dead"},
           UNCHANGED <<authority, newest, box, scope, hook, seeder>>,
           cli' \in [Cli -> CliState], operation' \in [Cli -> Evidence],
           \A t \in Cli : t # s => cli'[t] = cli[t] /\ operation'[t] = operation[t],
           CliSound(s)'
    PROVE  Inv'
<1>1. TypeOK' BY DEF Inv, TypeOK
<1>2. desk(s) \in Box BY Owners
<1>3. BoxSound(desk(s))' BY <1>2, BoxKept
<1>4. CustodyHolds' BY <1>2, <1>3, CliWhole
<1> QED BY <1>1, <1>4 DEF Inv

(* The steps of that kind.                                                 *)
LEMMA CliTurns ==
    ASSUME Inv, NEW s \in Cli, UNCHANGED <<scope, hook, seeder>>,
           \/ OpenCli(s) \/ ReadForCli(s) \/ CheckStatus(s) \/ LeaveSession(s)
           \/ AnnounceChild(s) \/ RegisterChild(s) \/ CliEnds(s)
    PROVE  Inv'
<1>0. /\ TypeOK /\ CliSound(s) /\ cli[s] \in CliState
      /\ authority \in Session \cup {Absent}
  BY LiveSessions
<1>1. cli \in [Cli -> CliState] /\ operation \in [Cli -> Evidence]
      /\ operation[s] \in Evidence
  BY <1>0 DEF TypeOK
<1>2. CASE OpenCli(s)
  <2>1. PICK checked \in BOOLEAN : operation' = [operation EXCEPT ![s].children = checked]
    BY <1>2 DEF OpenCli
  <2>2. /\ operation' \in [Cli -> Evidence]
        /\ \A t \in Cli : t # s => operation'[t] = operation[t]
    BY <1>1, <2>1 DEF Evidence
  <2>3. /\ cli' \in [Cli -> CliState] /\ cli[s].pc = "idle"
        /\ \A t \in Cli : t # s => cli'[t] = cli[t]
        /\ cli'[s].pc = "opened" /\ cli'[s].closed = cli[s].closed
        /\ UNCHANGED <<authority, newest, box>>
    BY <1>0, <1>1, <1>2 DEF OpenCli, CliGo, CliState
  <2>4. CliSound(s)' BY <1>0, <2>3 DEF CliSound, Live
  <2> QED BY <2>2, <2>3, <2>4, CliTurn
<1>3. CASE ReadForCli(s)
  <2>1. /\ cli' \in [Cli -> CliState] /\ cli[s].pc = "opened"
        /\ \A t \in Cli : t # s => cli'[t] = cli[t]
        /\ cli'[s].closed = cli[s].closed
        /\ \/ cli'[s].pc = "over"
           \/ /\ cli'[s].pc = "claiming" /\ cli'[s].seen # Absent
              /\ cli'[s].seen.phase = "ready"
        /\ UNCHANGED <<authority, newest, box, operation>>
    BY <1>0, <1>1, <1>3 DEF ReadForCli, Claimable, CliGo, CliState
  <2>2. CliSound(s)' BY <1>0, <2>1 DEF CliSound, Live
  <2> QED BY <1>1, <2>1, <2>2, CliTurn
<1>4. CASE CheckStatus(s) \/ LeaveSession(s)
  <2>1. /\ operation' \in [Cli -> Evidence]
        /\ \A t \in Cli : t # s => operation'[t] = operation[t]
    <3>1. CASE CheckStatus(s) BY <1>1, <3>1 DEF CheckStatus, Evidence
    <3>2. CASE LeaveSession(s) BY <1>1, <3>2 DEF LeaveSession
    <3> QED BY <1>4, <3>1, <3>2
  <2>2. /\ cli[s].pc \in {"held", "active"} /\ UNCHANGED <<authority, newest, box>>
    BY <1>4 DEF CheckStatus, LeaveSession
  <2>3. \/ CliGo(s, "active")
        \/ \E doubt \in BOOLEAN :
              cli' = [cli EXCEPT ![s].pc = "closing", ![s].ambiguous = doubt]
    BY <1>4 DEF CheckStatus, LeaveSession
  <2>4. /\ cli' \in [Cli -> CliState]
        /\ \A t \in Cli : t # s => cli'[t] = cli[t]
        /\ cli'[s].pc \in {"active", "closing"} /\ cli'[s].closed = cli[s].closed
        /\ cli'[s].seen = cli[s].seen
    BY <1>0, <1>1, <2>2, <2>3 DEF CliGo, CliState
  <2>5. CliSound(s)' BY <1>0, <2>2, <2>4 DEF CliSound, Live, Latest, Active, desk
  <2> QED BY <2>1, <2>2, <2>4, <2>5, CliTurn
<1>5. CASE AnnounceChild(s)
  <2>1. /\ operation' \in [Cli -> Evidence]
        /\ \A t \in Cli : t # s => operation'[t] = operation[t]
    BY <1>1, <1>5 DEF AnnounceChild, Evidence
  <2>2. /\ cli[s].pc = "active" /\ UNCHANGED <<authority, newest, box>>
        /\ LET renewal == cli[s].kind = "refresh"
           IN cli' = [cli EXCEPT ![s].pc = "launching", ![s].stopped = FALSE,
                                 ![s].ambiguous = @ \/ renewal]
    BY <1>5 DEF AnnounceChild
  <2>3. DEFINE new == [cli[s] EXCEPT !.pc = "launching", !.stopped = FALSE,
                                     !.ambiguous = @ \/ cli[s].kind = "refresh"]
  <2>4. new \in CliState /\ new.pc = "launching" /\ new.closed = cli[s].closed
        /\ new.seen = cli[s].seen
    BY <1>0 DEF CliState
  <2>5. cli' = [cli EXCEPT ![s] = new] BY <2>2
  <2> HIDE DEF new
  <2>6. /\ cli' \in [Cli -> CliState] /\ cli'[s] = new
        /\ \A t \in Cli : t # s => cli'[t] = cli[t]
    BY <1>1, <2>4, <2>5
  <2>7. CliSound(s)' BY <1>0, <2>2, <2>4, <2>6 DEF CliSound, Live, Latest, Active, desk
  <2> QED BY <2>1, <2>2, <2>6, <2>7, CliTurn
<1>6. CASE RegisterChild(s)
  <2>1. /\ operation' \in [Cli -> Evidence]
        /\ \A t \in Cli : t # s => operation'[t] = operation[t]
    BY <1>1, <1>6 DEF RegisterChild, Evidence
  <2>2. /\ cli' \in [Cli -> CliState] /\ cli[s].pc = "spawned"
        /\ \A t \in Cli : t # s => cli'[t] = cli[t]
        /\ cli'[s].pc = "running" /\ cli'[s].closed = cli[s].closed
        /\ cli'[s].seen = cli[s].seen
        /\ UNCHANGED <<authority, newest, box>>
    BY <1>0, <1>1, <1>6 DEF RegisterChild, CliGo, CliState
  <2>3. CliSound(s)' BY <1>0, <2>2 DEF CliSound, Live, Latest, Active, desk
  <2> QED BY <2>1, <2>2, <2>3, CliTurn
<1>7. CASE CliEnds(s)
  <2>1. /\ cli' \in [Cli -> CliState] /\ cli[s].pc \notin {"exited", "dead"}
        /\ \A t \in Cli : t # s => cli'[t] = cli[t]
        /\ cli'[s].pc \in {"exited", "dead"}
        /\ UNCHANGED <<authority, newest, box, operation>>
    BY <1>0, <1>1, <1>7 DEF CliEnds, CliGo, CliState
  <2>2. CliSound(s)' BY <2>1 DEF CliSound, Live
  <2> QED BY <1>1, <2>1, <2>2, CliTurn
<1> QED BY <1>2, <1>3, <1>4, <1>5, <1>6, <1>7

(* The child has ended and is read: only an exit of 0 can leave no doubt.   *)
LEMMA ReturnKeeps ==
    ASSUME Inv, NEW s \in Cli, UNCHANGED <<scope, hook, seeder>>, ChildReturns(s)
    PROVE  Inv'
<1> DEFINE well == box[desk(s)].exit = "good"
           then == [logout |-> "loggingOut", refresh |-> "renewed", metadata |-> "closing"]
<1>0. /\ TypeOK /\ CliSound(s) /\ BoxSound(desk(s)) /\ cli[s] \in CliState
  BY LiveSessions
<1>1. /\ cli[s].pc = "running" /\ box[desk(s)].exit # "none"
      /\ UNCHANGED <<authority, newest, box, operation>>
  BY DEF ChildReturns
<1>2. PICK doubt \in BOOLEAN :
            /\ ~well => doubt
            /\ cli' = [cli EXCEPT ![s].pc = IF well THEN then[cli[s].kind] ELSE "closing",
                                  ![s].stopped = TRUE,
                                  ![s].ambiguous = @ \/ doubt]
  BY DEF ChildReturns
<1>3. ~Active(desk(s)) BY <1>0, <1>1 DEF BoxSound
<1>4. well => Latest(box[desk(s)].copy) BY <1>0, <1>1, <1>3 DEF CliSound
<1>5. then[cli[s].kind] \in {"loggingOut", "renewed", "closing"}
  <2>1. cli[s].kind \in {"logout", "metadata", "refresh"} BY <1>0 DEF CliState
  <2> QED BY <2>1
<1> DEFINE next == IF well THEN then[cli[s].kind] ELSE "closing"
           new == [cli[s] EXCEPT !.pc = next, !.stopped = TRUE, !.ambiguous = @ \/ doubt]
<1>6. /\ next \in {"loggingOut", "renewed", "closing"}
      /\ ~well => next = "closing"
  BY <1>5
<1>7. cli' = [cli EXCEPT ![s] = new] BY <1>2
<1> HIDE DEF next, well
<1>8. /\ new \in CliState /\ new.pc = next /\ new.closed = cli[s].closed
      /\ new.seen = cli[s].seen /\ new.ambiguous = (cli[s].ambiguous \/ doubt)
  BY <1>0, <1>6 DEF CliState
<1> HIDE DEF new
<1>9. /\ cli' \in [Cli -> CliState] /\ cli'[s] = new
      /\ \A t \in Cli : t # s => cli'[t] = cli[t]
      /\ operation' \in [Cli -> Evidence]
  BY <1>0, <1>1, <1>7, <1>8 DEF TypeOK
<1>10. next = "closing" /\ ~new.ambiguous => well BY <1>2, <1>8 DEF well
<1>11. CliSound(s)'
  BY <1>0, <1>1, <1>3, <1>4, <1>6, <1>8, <1>9, <1>10 DEF CliSound, Live, Latest, Active, desk
<1> QED BY <1>1, <1>9, <1>11, CliTurn

(* An acknowledged claim is followed by the private copy.                  *)
LEMMA CliClaimKeeps ==
    ASSUME Inv, NEW s \in Cli, UNCHANGED <<scope, hook, seeder>>, ClaimForCli(s)
    PROVE  Inv'
<1> DEFINE new == Claimed(cli[s].seen, s)
<1>0. /\ TypeOK /\ CliSound(s) /\ BoxSound(desk(s)) /\ cli[s] \in CliState
      /\ desk(s) \in Box /\ box[desk(s)] \in Contents /\ s \in Consumer
      /\ authority \in Session \cup {Absent}
  BY LiveSessions
<1>1. /\ cli[s].pc = "claiming" /\ UNCHANGED <<newest, operation>> BY DEF ClaimForCli
<1>2. /\ cli[s].seen \in Session \cup {Absent} /\ cli[s].seen.phase = "ready"
      /\ cli[s].seen.native \in Native /\ cli[s].seen.native # NoNative
      /\ cli[s].seen.native.turn \in Int
  BY <1>0, <1>1, Phases, Natives DEF CliState, CliSound, MaybeNative
<1>3. /\ new \in Session /\ new.phase = "claimed" /\ new.owner = s
      /\ new.native = cli[s].seen.native
  BY <1>0, <1>2, Writes
<1> HIDE DEF new
<1>4. PICK reply \in Reply :
            /\ CompareAndSwap(cli[s].seen, new, reply)
            /\ IF reply = "acknowledged"
               THEN /\ cli' = [cli EXCEPT ![s].pc = "held", ![s].seen = new]
                    /\ Stage(desk(s), new.native)
               ELSE CliGo(s, "over") /\ UNCHANGED box
  BY DEF ClaimForCli, new
<1>5. /\ \/ authority = cli[s].seen /\ authority' = new
         \/ authority' = authority
      /\ reply = "acknowledged" => authority = cli[s].seen /\ authority' = new
  BY <1>4, Swaps
<1>6. authority' = authority \/ (authority.phase = "ready" /\ authority'.native = authority.native)
  BY <1>2, <1>3, <1>5
<1>7. authority'.phase = "ready" => UNCHANGED authority BY <1>3, <1>5
<1>8. authority' \in Session \cup {Absent} BY <1>0, <1>3, <1>5
<1>9. CASE reply # "acknowledged"
  <2>1. /\ cli' \in [Cli -> CliState] /\ cli'[s].pc = "over"
        /\ \A t \in Cli : t # s => cli'[t] = cli[t]
        /\ UNCHANGED box
    BY <1>0, <1>4, <1>9 DEF TypeOK, CliGo, CliState
  <2>2. TypeOK' BY <1>0, <1>1, <1>8, <2>1 DEF TypeOK
  <2>3. CliSound(s)' BY <2>1 DEF CliSound, Live
  <2>4. BoxSound(desk(s))'
    <3>1. Active(desk(s)) => UNCHANGED authority BY <1>0, <1>6, ReadyIsIdle
    <3> QED BY <1>0, <2>1, <3>1, BoxKept
  <2>5. CustodyHolds' BY <1>1, <1>6, <1>7, <2>1, <2>3, <2>4, CliWhole
  <2> QED BY <2>2, <2>5 DEF Inv
<1>10. CASE reply = "acknowledged"
  <2>1. /\ cli' \in [Cli -> CliState]
        /\ cli'[s].pc = "held" /\ cli'[s].seen = new /\ cli'[s].closed = cli[s].closed
        /\ \A t \in Cli : t # s => cli'[t] = cli[t]
    BY <1>0, <1>3, <1>4, <1>10 DEF TypeOK, CliState
  <2>2. box' = [box EXCEPT ![desk(s)].copy = new.native] BY <1>4, <1>10 DEF Stage
  <2>3. /\ box' \in [Box -> Contents] /\ box'[desk(s)].copy = new.native
        /\ box'[desk(s)].up = box[desk(s)].up /\ box'[desk(s)].held = box[desk(s)].held
        /\ \A b \in Box : b # desk(s) => box'[b] = box[b]
    BY <1>0, <1>2, <1>3, <2>2 DEF TypeOK, Contents, MaybeNative
  <2>4. TypeOK' BY <1>0, <1>1, <1>8, <2>1, <2>3 DEF TypeOK
  <2>5. authority = cli[s].seen /\ authority' = new /\ authority.phase = "ready"
    BY <1>2, <1>5, <1>10
  <2>6. Latest(new.native) BY <1>3, <2>5 DEF Inv, CustodyHolds, RecordSound
  <2>7. ~Active(desk(s)) /\ ~Active(desk(s))'
    BY <1>0, <2>3, <2>5, ReadyIsIdle DEF Active, desk
  <2>8. CliSound(s)'
    BY <1>0, <1>1, <1>2, <1>3, <2>1, <2>3, <2>5, <2>6, <2>7 DEF CliSound, Live, Latest, desk
  <2>9. box'[desk(s)].up
    BY <1>0, <2>3, Owners DEF BoxSound
  <2>10. BoxSound(desk(s))' BY <2>7, <2>9 DEF BoxSound, desk
  <2>11. CustodyHolds' BY <1>1, <1>6, <1>7, <2>1, <2>3, <2>8, <2>10, CliWhole
  <2> QED BY <2>4, <2>11 DEF Inv
<1> QED BY <1>9, <1>10

(* The child starts on the private copy.                                   *)
LEMMA SpawnKeeps ==
    ASSUME Inv, NEW s \in Cli, UNCHANGED <<scope, hook, seeder>>, SpawnChild(s)
    PROVE  Inv'
<1> DEFINE d == desk(s)
<1>0. /\ TypeOK /\ CliSound(s) /\ BoxSound(d) /\ cli[s] \in CliState
      /\ d \in Box /\ box[d] \in Contents
  BY LiveSessions
<1>1. /\ cli[s].pc = "launching" /\ UNCHANGED <<authority, newest, operation>>
      /\ Start(d) /\ CliGo(s, "spawned")
  BY DEF SpawnChild
<1>2. /\ authority.owner = s /\ authority.native \in Native
      /\ box[d].copy \in Native /\ box[d].copy # NoNative
      /\ box[d].copy.turn \in Int /\ box[d].copy.login = authority.native.login
      /\ Latest(box[d].copy)
  BY <1>0, <1>1, LiveSessions, Natives DEF Live, MaybeNative, CliSound
<1>3. /\ cli' \in [Cli -> CliState]
      /\ cli'[s].pc = "spawned" /\ cli'[s].closed = cli[s].closed
      /\ cli'[s].seen = cli[s].seen
      /\ \A t \in Cli : t # s => cli'[t] = cli[t]
  BY <1>0, <1>1 DEF TypeOK, CliGo, CliState
<1>4. box' = [box EXCEPT ![d] = [box[d] EXCEPT !.held = box[d].copy, !.exit = "none"]]
  BY <1>1 DEF Start
<1>5. /\ box' \in [Box -> Contents] /\ box'[d].copy = box[d].copy
      /\ box'[d].held = box[d].copy /\ box'[d].exit = "none" /\ box'[d].up = box[d].up
      /\ \A b \in Box : b # d => box'[b] = box[b]
  BY <1>0, <1>4 DEF TypeOK, Contents
<1>6. TypeOK' BY <1>0, <1>1, <1>3, <1>5 DEF TypeOK
<1>7. box'[d].up BY <1>0, <1>5, Owners DEF BoxSound
<1>8. BoxSound(d)' BY <1>1, <1>2, <1>5, <1>7, Owners DEF BoxSound, desk
<1>9. CliSound(s)'
  <2>1. Active(d)' /\ Latest(box[d].held)' /\ box'[d].copy.login = authority'.native.login
    BY <1>1, <1>2, <1>5 DEF Active, Latest, desk
  <2> QED BY <1>0, <1>1, <1>2, <1>3, <1>5, <2>1 DEF CliSound, Live, desk
<1>10. CustodyHolds' BY <1>0, <1>1, <1>3, <1>5, <1>8, <1>9, CliWhole
<1> QED BY <1>6, <1>10 DEF Inv

(* A child that could not be brought to its end leaves the login in doubt.  *)
LEMMA RaiseKeeps ==
    ASSUME Inv, NEW s \in Cli, UNCHANGED <<scope, hook, seeder>>, ChildRaises(s)
    PROVE  Inv'
<1> DEFINE d == desk(s)
<1>0. /\ TypeOK /\ CliSound(s) /\ BoxSound(d) /\ cli[s] \in CliState
      /\ d \in Box /\ box[d] \in Contents
  BY LiveSessions
<1>1. /\ cli[s].pc \in {"launching", "spawned", "running"}
      /\ UNCHANGED <<authority, newest, operation>>
  BY DEF ChildRaises
<1>2. PICK killed \in BOOLEAN, proved \in BOOLEAN :
          /\ box' = IF killed THEN [box EXCEPT ![d].held = NoNative] ELSE box
          /\ cli' = [cli EXCEPT ![s].pc = "closing", ![s].ambiguous = TRUE,
                                ![s].stopped = proved \/ cli[s].kind # "refresh"]
  BY DEF ChildRaises
<1>3. LET new == [cli[s] EXCEPT !.pc = "closing", !.ambiguous = TRUE,
                                !.stopped = proved \/ cli[s].kind # "refresh"]
      IN /\ new \in CliState /\ new.pc = "closing" /\ new.ambiguous
         /\ new.closed = cli[s].closed /\ new.seen = cli[s].seen
         /\ cli' = [cli EXCEPT ![s] = new]
  BY <1>0, <1>2 DEF CliState
<1>4. /\ cli' \in [Cli -> CliState] /\ cli'[s].pc = "closing" /\ cli'[s].ambiguous
      /\ cli'[s].closed = cli[s].closed /\ cli'[s].seen = cli[s].seen
      /\ \A t \in Cli : t # s => cli'[t] = cli[t]
  BY <1>0, <1>3 DEF TypeOK
<1>5. /\ box' \in [Box -> Contents]
      /\ \A b \in Box : b # d => box'[b] = box[b]
      /\ box'[d].copy = box[d].copy /\ box'[d].up = box[d].up /\ box'[d].exit = box[d].exit
      /\ box'[d].held \in {box[d].held, NoNative}
  <2>1. CASE killed
    <3>1. box' = [box EXCEPT ![d].held = NoNative] BY <1>2, <2>1
    <3> QED BY <1>0, <3>1 DEF TypeOK, Contents, MaybeNative
  <2>2. CASE ~killed
    <3>1. box' = box BY <1>2, <2>2
    <3> QED BY <1>0, <3>1 DEF TypeOK
  <2> QED BY <2>1, <2>2
<1>6. TypeOK' BY <1>0, <1>1, <1>4, <1>5 DEF TypeOK
<1>7. BoxSound(d)'
  <2>1. box'[d].up BY <1>0, <1>5, Owners DEF BoxSound
  <2>2. Active(d)' => Active(d) /\ box'[d].held = box[d].held BY <1>5 DEF Active, desk
  <2> QED BY <1>0, <1>1, <1>5, <2>1, <2>2 DEF BoxSound, desk
<1>8. CliSound(s)' BY <1>0, <1>1, <1>4, <1>5 DEF CliSound, Live, desk
<1>9. CustodyHolds' BY <1>0, <1>1, <1>4, <1>5, <1>7, <1>8, CliWhole
<1> QED BY <1>6, <1>9 DEF Inv

(* The checkpoint of a renewal, the logout and the end of the session write *)
(* over the record the session owns.                                       *)
LEMMA CliWrites ==
    ASSUME Inv, NEW s \in Cli, UNCHANGED <<scope, hook, seeder>>,
           CheckpointRenewal(s) \/ LogOut(s) \/ CloseSession(s)
    PROVE  Inv'
<1> DEFINE d    == desk(s)
           seen == cli[s].seen
           copy == box[desk(s)].copy
           checkpointed == Checkpointed(seen, copy)
           released     == Released(seen, copy)
           preserved    == Preserved(seen, copy)
           loggedOut    == LoggedOut(seen)
<1>0. /\ TypeOK /\ CliSound(s) /\ BoxSound(d) /\ cli[s] \in CliState
      /\ d \in Box /\ box[d] \in Contents /\ s \in Consumer
      /\ authority \in Session \cup {Absent}
  BY LiveSessions
<1>1. /\ cli[s].pc \in {"renewed", "loggingOut", "closing"}
      /\ UNCHANGED <<newest, box, operation>>
  BY DEF CheckpointRenewal, LogOut, CloseSession
<1>2. /\ authority.owner = s /\ authority.phase = "claimed"
      /\ authority.native \in Native /\ authority.native # NoNative
      /\ copy \in Native /\ copy # NoNative /\ copy.turn \in Int
      /\ copy.login = authority.native.login
      /\ \A b \in Box : Active(b) => b = d
  BY <1>0, <1>1, LiveSessions, Natives DEF Live, MaybeNative
<1>3. authority = seen =>
        /\ checkpointed \in Session /\ checkpointed.phase = "claimed"
        /\ checkpointed.owner = s /\ checkpointed.native = copy
        /\ preserved \in Session /\ preserved.phase = "claimed"
        /\ preserved.owner = s /\ preserved.native = copy
        /\ released \in Session /\ released.phase = "ready" /\ released.native = copy
        /\ loggedOut \in Session /\ loggedOut.phase = "logged_out"
        /\ loggedOut.native = NoNative
  BY <1>0, <1>2, Writes
<1> HIDE DEF checkpointed, preserved, released, loggedOut
<1>4. cli[s].pc \in {"renewed", "loggingOut"} \/ (cli[s].pc = "closing" /\ ~cli[s].ambiguous)
      => Latest(copy) /\ ~Active(d) /\ \A b \in Box : ~Active(b)
  BY <1>0, <1>2 DEF CliSound
<1>5. ASSUME cli' \in [Cli -> CliState],
             \A t \in Cli : t # s => cli'[t] = cli[t],
             cli'[s].pc \in {"closing", "over"},
             \/ UNCHANGED authority
             \/ /\ authority = seen
                /\ authority' \in {checkpointed, released, preserved, loggedOut},
             authority' \in {released, loggedOut} => UNCHANGED authority \/ \A b \in Box : ~Active(b),
             authority' = released => UNCHANGED authority \/ Latest(copy),
             cli'[s].pc = "closing" =>
                /\ cli[s].pc = "renewed"
                /\ \/ UNCHANGED authority
                   \/ authority = seen /\ authority' = checkpointed
                /\ cli'[s].closed \/ authority' = cli'[s].seen
      PROVE  Inv'
  <2>1. TypeOK' BY <1>0, <1>1, <1>3, <1>5 DEF TypeOK
  <2>2. \/ UNCHANGED authority
        \/ /\ authority.owner = s
           /\ authority'.owner = s \/ \A b \in Box : ~Active(b)
           /\ authority'.native # NoNative =>
                 /\ authority.native # NoNative
                 /\ authority'.native.login = authority.native.login
           /\ \A b \in Box : Active(b) => authority'.native # NoNative
    BY <1>2, <1>3, <1>5
  <2>3. authority'.phase = "ready" => \/ UNCHANGED authority
                                      \/ Latest(authority'.native)
    BY <1>1, <1>3, <1>5 DEF Latest
  <2>4. BoxSound(d)'
    <3>1. Active(d) => /\ authority'.owner = authority.owner
                       /\ authority'.native.login = authority.native.login
      BY <1>0, <1>2, <1>3, <1>5
    <3> QED BY <1>0, <1>1, <3>1, BoxKept
  <2>5. CliSound(s)'
    <3>1. CASE cli'[s].pc = "over" BY <3>1 DEF CliSound, Live
    <3>2. CASE cli'[s].pc = "closing"
      <4>1. Latest(copy) /\ ~Active(d) BY <1>4, <1>5, <3>2
      <4>2. /\ authority'.owner = s /\ authority'.native.login = copy.login
            /\ cli[s].closed = FALSE
        BY <1>0, <1>2, <1>3, <1>5, <3>2 DEF CliSound, CliState
      <4>3. ~cli'[s].closed => cli'[s].seen.native.turn <= copy.turn
        <5>1. authority = seen /\ authority.native.turn <= copy.turn
          BY <1>1, <4>2, LiveSessions DEF Live
        <5>2. authority'.native.turn <= copy.turn BY <1>2, <1>3, <1>5, <3>2, <5>1
        <5> QED BY <1>5, <3>2, <5>2
      <4> QED BY <1>1, <1>2, <1>5, <3>2, <4>1, <4>2, <4>3
              DEF CliSound, Live, Latest, Active, desk
    <3> QED BY <1>5, <3>1, <3>2
  <2>6. CustodyHolds' BY <1>0, <1>1, <1>5, <2>2, <2>3, <2>4, <2>5, CliWhole
  <2> QED BY <2>1, <2>6 DEF Inv
<1>6. CASE CheckpointRenewal(s)
  <2>1. cli[s].pc = "renewed" BY <1>6 DEF CheckpointRenewal
  <2>2. CASE CliGo(s, "closing") /\ UNCHANGED authority
    <3>1. /\ cli' \in [Cli -> CliState] /\ cli'[s].pc = "closing"
          /\ \A t \in Cli : t # s => cli'[t] = cli[t]
          /\ cli'[s].seen = seen /\ cli'[s].closed = cli[s].closed
      BY <1>0, <2>2 DEF TypeOK, CliGo, CliState
    <3>2. authority' = cli'[s].seen \/ cli'[s].closed
      BY <1>1, <2>2, <3>1, LiveSessions DEF Live
    <3> QED BY <1>4, <1>5, <2>1, <2>2, <3>1, <3>2
  <2>3. CASE \E reply \in Reply :
                  /\ CompareAndSwap(seen, checkpointed, reply)
                  /\ cli' = IF reply = "acknowledged"
                            THEN [cli EXCEPT ![s].pc = "closing", ![s].seen = checkpointed,
                                             ![s].ambiguous = FALSE]
                            ELSE [cli EXCEPT ![s].pc = "closing", ![s].closed = TRUE]
    <3>1. PICK reply \in Reply :
                  /\ CompareAndSwap(seen, checkpointed, reply)
                  /\ cli' = IF reply = "acknowledged"
                            THEN [cli EXCEPT ![s].pc = "closing", ![s].seen = checkpointed,
                                             ![s].ambiguous = FALSE]
                            ELSE [cli EXCEPT ![s].pc = "closing", ![s].closed = TRUE]
      BY <2>3
    <3>2. /\ \/ authority = seen /\ authority' = checkpointed
             \/ authority' = authority
          /\ reply = "acknowledged" => authority = seen /\ authority' = checkpointed
      BY <3>1, Swaps
    <3>3. /\ cli' \in [Cli -> CliState] /\ cli'[s].pc = "closing"
          /\ \A t \in Cli : t # s => cli'[t] = cli[t]
          /\ cli'[s].closed \/ authority' = cli'[s].seen
      <4>1. CASE reply = "acknowledged"
        <5>1. cli' = [cli EXCEPT ![s] = [cli[s] EXCEPT !.pc = "closing", !.seen = checkpointed,
                                                      !.ambiguous = FALSE]]
          BY <3>1, <4>1
        <5> QED BY <1>0, <1>3, <3>2, <4>1, <5>1 DEF TypeOK, CliState
      <4>2. CASE reply # "acknowledged"
        <5>1. cli' = [cli EXCEPT ![s] = [cli[s] EXCEPT !.pc = "closing", !.closed = TRUE]]
          BY <3>1, <4>2
        <5> QED BY <1>0, <5>1 DEF TypeOK, CliState
      <4> QED BY <4>1, <4>2
    <3> QED BY <1>4, <1>5, <2>1, <3>2, <3>3
  <2> QED BY <1>6, <2>2, <2>3 DEF CheckpointRenewal, checkpointed
<1>7. CASE LogOut(s) \/ CloseSession(s)
  <2>1. cli' = [cli EXCEPT ![s].pc = "over", ![s].closed = TRUE]
    BY <1>7 DEF LogOut, CloseSession
  <2>2. cli' = [cli EXCEPT ![s] = [cli[s] EXCEPT !.pc = "over", !.closed = TRUE]]
    BY <2>1
  <2>3. /\ cli' \in [Cli -> CliState] /\ cli'[s].pc = "over"
        /\ \A t \in Cli : t # s => cli'[t] = cli[t]
    BY <1>0, <2>2 DEF TypeOK, CliState
  <2>4. CASE LogOut(s)
    <3>1. /\ cli[s].pc = "loggingOut"
          /\ \E reply \in Reply : CompareAndSwap(seen, loggedOut, reply)
      BY <2>4 DEF LogOut, loggedOut
    <3>2. UNCHANGED authority \/ (authority = seen /\ authority' = loggedOut)
      BY <3>1, Swaps
    <3>3. \A b \in Box : ~Active(b) BY <1>4, <3>1
    <3>4. Latest(copy) BY <1>4, <3>1
    <3> QED BY <1>5, <2>3, <3>2, <3>3, <3>4
  <2>5. CASE CloseSession(s)
    <3>1. /\ cli[s].pc = "closing"
          /\ \E reply \in Reply :
                IF cli[s].closed \/ ~cli[s].stopped
                THEN UNCHANGED authority
                ELSE IF ~cli[s].ambiguous
                THEN CompareAndSwap(seen, released, reply)
                ELSE CompareAndSwap(seen, preserved, reply)
      BY <2>5 DEF CloseSession, released, preserved
    <3>2. \/ UNCHANGED authority
          \/ authority = seen /\ authority' = released /\ ~cli[s].ambiguous
          \/ authority = seen /\ authority' = preserved
      BY <3>1, Swaps
    <3>3. ~cli[s].ambiguous => Latest(copy) /\ \A b \in Box : ~Active(b) BY <1>4, <3>1
    <3>4. authority = seen => preserved # released /\ preserved # loggedOut
      BY <1>3
    <3> QED BY <1>5, <2>3, <3>2, <3>3, <3>4
  <2> QED BY <1>7, <2>4, <2>5
<1> QED BY <1>6, <1>7

(* Every step of a session.                                                *)
LEMMA CliKeeps ==
    ASSUME Inv, NEW s \in Cli, CliStep(s)
    PROVE  Inv'
BY CliTurns, ReturnKeeps, CliClaimKeeps, SpawnKeeps, RaiseKeeps, CliWrites DEF CliStep

-----------------------------------------------------------------------------
(* Steps of a login or reseed. *)

(* Where a consumer is proved stopped, its record can be replaced: nothing *)
(* of it runs, in any box.                                                 *)
LEMMA StoppedIsIdle ==
    ASSUME Inv, authority.owner # NoOwner => ProvenStopped(authority.owner)
    PROVE  /\ \A b \in Box : ~Active(b)
           /\ \A c \in Scope : scope[c].pc # "open"
           /\ \A s \in Cli : cli[s].pc \notin Live
<1> DEFINE o == authority.owner
<1>1. CASE o = NoOwner
  <2>1. authority.phase # "claimed" BY <1>1, OwnedBy, Phases
  <2> QED BY <2>1, ReadyIsIdle
<1>2. CASE o \in Scope /\ RunProvenStopped(o)
  <2>1. ASSUME NEW b \in Box, Active(b) PROVE FALSE
    <3>1. OwnerOf(b) = o BY <2>1, OwnedBy
    <3>2. ~box[b].up BY <1>2, <3>1 DEF RunProvenStopped, BoxesOf
    <3>3. box[b].up BY <2>1, ClientHolds
    <3> QED BY <3>2, <3>3
  <2>2. scope[o].pc # "open" BY <1>2 DEF RunProvenStopped
  <2> QED BY <1>2, <2>1, <2>2, OwnedBy, Owners
<1>3. CASE o \in Cli /\ CliProvenStopped(o)
  <2>1. ~Active(desk(o)) /\ cli[o].pc \notin Live BY <1>3 DEF CliProvenStopped, Live
  <2>2. ASSUME NEW b \in Box, Active(b) PROVE FALSE
    <3>1. OwnerOf(b) = o BY <2>2, OwnedBy
    <3>2. b = desk(o) BY <1>3, <3>1, Owners
    <3> QED BY <2>1, <2>2, <3>2
  <2> QED BY <1>3, <2>1, <2>2, OwnedBy, Owners
<1>4. o \in Consumer \cup {NoOwner} BY OwnedBy, Phases
<1> QED BY <1>1, <1>2, <1>3, <1>4 DEF ProvenStopped, Consumer

(* What is stopped stays so when only a seeder and the record move.        *)
LEMMA SeederStops ==
    ASSUME UNCHANGED <<box, scope, hook, cli, operation>>,
           NEW c \in Consumer, ProvenStopped(c)
    PROVE  ProvenStopped(c)'
BY StopsStay, Owners DEF ProvenStopped, RunProvenStopped, CliProvenStopped, Active

(* The steps before the new record is published.                           *)
LEMMA SeederTurns ==
    ASSUME Inv, NEW g \in Seeder,
           ChooseGeneration(g) \/ CheckSeedTarget(g) \/ NativeLogin(g) \/ RecheckSeedTarget(g)
    PROVE  Inv'
<1>0. /\ TypeOK /\ CustodyHolds /\ SeederSound(g) /\ seeder[g] \in SeederState
      /\ authority \in Session \cup {Absent}
  BY DEF Inv, TypeOK, CustodyHolds
<1>1. UNCHANGED <<authority, newest, box, scope, hook, cli, operation>>
  BY DEF ChooseGeneration, CheckSeedTarget, NativeLogin, RecheckSeedTarget
<1>2. /\ seeder' \in [Seeder -> SeederState] /\ seeder[g].pc # "over"
      /\ \A e \in Seeder : e # g => seeder'[e] = seeder[e]
      /\ seeder'[g].pc = "publish" =>
            /\ seeder'[g].seen = authority
            /\ authority.owner # NoOwner => ProvenStopped(authority.owner)
  <2>1. CASE ChooseGeneration(g)
    BY <1>0, <2>1 DEF ChooseGeneration, TypeOK, SeederState
  <2>2. CASE CheckSeedTarget(g)
    BY <1>0, <2>2 DEF CheckSeedTarget, SeederGo, TypeOK, SeederState
  <2>3. CASE NativeLogin(g)
    BY <1>0, <2>3 DEF NativeLogin, SeederGo, TypeOK, SeederState
  <2>4. CASE RecheckSeedTarget(g) /\ SeedTarget(g)
    BY <1>0, <2>4 DEF RecheckSeedTarget, SeedTarget, TypeOK, SeederState
  <2>5. CASE RecheckSeedTarget(g) /\ ~SeedTarget(g)
    BY <1>0, <2>5 DEF RecheckSeedTarget, TypeOK, SeederState
  <2> QED BY <2>1, <2>2, <2>3, <2>4, <2>5
<1>3. TypeOK' BY <1>0, <1>1, <1>2 DEF TypeOK
<1>4. SeederSound(g)'
  <2>1. seeder'[g].pc = "publish" /\ authority.owner # NoOwner
        => ProvenStopped(authority.owner)'
    <3>1. authority.owner \in Consumer \cup {NoOwner} BY <1>0, Phases
    <3> QED BY <1>1, <1>2, <3>1, SeederStops DEF ProvenStopped, RunProvenStopped,
               CliProvenStopped, Active, BoxesOf
  <2> QED BY <1>0, <1>1, <1>2, <2>1 DEF SeederSound
<1>5. \A e \in Seeder : SeederSound(e)'
  BY <1>1, <1>2, <1>4, SeedersKept, SeederStops
<1>6. /\ RecordSound' /\ HooksApart'
      /\ \A b \in Box : BoxSound(b)'
      /\ \A c \in Scope : ScopeSound(c)'
      /\ \A h \in Hook : HookSound(h)'
      /\ \A s \in Cli : CliSound(s)'
  <2>1. RecordSound' BY <1>0, <1>1 DEF CustodyHolds, RecordSound, Latest
  <2>2. HooksApart' BY <1>1, ApartKept
  <2>3. \A b \in Box : BoxSound(b)' BY <1>1, BoxKept
  <2>4. \A c \in Scope : ScopeSound(c)' BY <1>1, ScopeKept
  <2>5. \A h \in Hook : HookSound(h)' BY <1>1, HookKept
  <2>6. \A s \in Cli : CliSound(s)' BY <1>1, CliKept
  <2> QED BY <2>1, <2>2, <2>3, <2>4, <2>5, <2>6
<1> QED BY <1>3, <1>5, <1>6 DEF Inv, CustodyHolds

(* A fresh login replaces a record whose consumer is proved stopped.       *)
LEMMA PublishKeeps ==
    ASSUME Inv, NEW g \in Seeder, PublishSeed(g)
    PROVE  Inv'
<1> DEFINE login == [login |-> g, turn |-> 0]
           new   == Seeded(seeder[g].seen.generation + 1, login)
<1>0. /\ TypeOK /\ CustodyHolds /\ SeederSound(g) /\ seeder[g] \in SeederState
      /\ authority \in Session \cup {Absent}
  BY DEF Inv, TypeOK, CustodyHolds
<1>1. /\ seeder[g].pc = "publish" /\ UNCHANGED <<newest, box, scope, hook, cli, operation>>
      /\ SeederGo(g, "over")
      /\ \E reply \in Reply : CompareAndSwap(seeder[g].seen, new, reply)
  BY DEF PublishSeed
<1>2. UNCHANGED authority \/ (authority = seeder[g].seen /\ authority' = new)
  BY <1>1, Swaps
<1>3. login \in Native /\ login.login = g /\ login.turn = 0
  BY CustodyAssumption DEF Native, Login, Turn
<1>4. seeder[g].seen.generation + 1 \in Nat BY <1>0, Phases DEF SeederState
<1>5. /\ new \in Session /\ new.phase = "ready" /\ new.owner = NoOwner
      /\ new.native = login
  BY <1>3, <1>4, SeedWrites
<1>6. /\ seeder' \in [Seeder -> SeederState] /\ seeder'[g].pc = "over"
      /\ \A e \in Seeder : e # g => seeder'[e] = seeder[e]
  BY <1>0, <1>1 DEF SeederGo, TypeOK, SeederState
<1> HIDE DEF new, login
<1>7. TypeOK' BY <1>0, <1>1, <1>2, <1>5, <1>6 DEF TypeOK
<1>8. \/ UNCHANGED authority
      \/ /\ authority' = new
         /\ \A b \in Box : ~Active(b)
         /\ \A c \in Scope : scope[c].pc # "open"
         /\ \A s \in Cli : cli[s].pc \notin Live
  <2>1. CASE authority = seeder[g].seen /\ authority' = new
    <3>1. authority.owner # NoOwner => ProvenStopped(authority.owner)
      BY <1>0, <1>1, <2>1 DEF SeederSound
    <3> QED BY <2>1, <3>1, StoppedIsIdle
  <2> QED BY <1>2, <2>1
<1>9. RecordSound'
  <2>1. CASE UNCHANGED authority
    BY <1>0, <1>1, <2>1 DEF CustodyHolds, RecordSound, Latest
  <2>2. CASE authority' = new
    <3>1. newest[g] = 0 BY <1>0, <1>1 DEF SeederSound
    <3> QED BY <1>1, <1>3, <1>5, <2>2, <3>1 DEF RecordSound, Latest
  <2> QED BY <1>8, <2>1, <2>2
<1>10. HooksApart' BY <1>1, ApartKept
<1>11. \A b \in Box : BoxSound(b)' BY <1>1, <1>8, BoxKept
<1>12. \A c \in Scope : ScopeSound(c)' BY <1>1, <1>8, ScopeKept
<1>13. \A h \in Hook : HookSound(h)' BY <1>1, HookKept
<1>14. \A s \in Cli : CliSound(s)' BY <1>1, <1>8, CliKept
<1>15. \A e \in Seeder : SeederSound(e)'
  <2> TAKE e \in Seeder
  <2>1. CASE e = g BY <1>6, <2>1 DEF SeederSound
  <2>2. CASE e # g
    <3>1. SeederSound(e) BY <1>0 DEF CustodyHolds
    <3>2. seeder[e].seen.owner \in Consumer \cup {NoOwner}
      BY <1>0, Phases DEF TypeOK, SeederState
    <3>3. authority'.native = authority.native \/ authority'.native.login = g
      BY <1>2, <1>3, <1>5
    <3> QED BY <1>1, <1>6, <2>2, <3>1, <3>2, <3>3, SeederStops DEF SeederSound
  <2> QED BY <2>1, <2>2
<1> QED BY <1>7, <1>9, <1>10, <1>11, <1>12, <1>13, <1>14, <1>15 DEF Inv, CustodyHolds

(* Every step of a login or reseed.                                        *)
LEMMA SeederKeeps ==
    ASSUME Inv, NEW g \in Seeder, SeederStep(g)
    PROVE  Inv'
BY SeederTurns, PublishKeeps DEF SeederStep

-----------------------------------------------------------------------------
(* The invariant holds in every behaviour. *)

(* At the start nobody has a login.                                        *)
LEMMA InitHolds == Init => Inv
<1> SUFFICES ASSUME Init PROVE Inv OBVIOUS
<1>1. /\ authority = Absent /\ newest = [l \in Login |-> 0]
      /\ box = [b \in Box |-> EmptyBox]
      /\ hook = [h \in Hook |-> FreshHook]
      /\ operation = [s \in Cli |-> NoEvidence]
      /\ seeder = [g \in Seeder |-> IdleSeeder]
      /\ cli \in [Cli -> {IdleCli(k) : k \in {"logout", "metadata", "refresh"}}]
  BY DEF Init
<1>2. /\ scope \in [Scope -> ScopeState]
      /\ \A c \in Scope : scope[c].pc = "idle" /\ ~scope[c].closed
  <2>1. \A k \in 1..Cardinality(Seeder) : k \in Nat OBVIOUS
  <2>2. IdleScope \in ScopeState /\ IdleScope.pc = "idle" /\ IdleScope.closed = FALSE
    BY DEF IdleScope, ScopeState, MaybeNative
  <2>3. \A k \in 1..Cardinality(Seeder) :
          LET s == [IdleScope EXCEPT !.generation = k]
          IN s \in ScopeState /\ s.pc = "idle" /\ ~s.closed
    BY <2>1, <2>2 DEF ScopeState
  <2>4. scope \in [Scope -> {[IdleScope EXCEPT !.generation = k] :
                               k \in 1..Cardinality(Seeder)}]
    BY DEF Init
  <2>5. ASSUME NEW c \in Scope
        PROVE  scope[c] \in ScopeState /\ scope[c].pc = "idle" /\ ~scope[c].closed
    <3>1. PICK k \in 1..Cardinality(Seeder) : scope[c] = [IdleScope EXCEPT !.generation = k]
      BY <2>4
    <3> QED BY <2>3, <3>1
  <2>6. DOMAIN scope = Scope /\ scope = [c \in Scope |-> scope[c]] BY <2>4
  <2> QED BY <2>5, <2>6
<1>3. /\ cli \in [Cli -> CliState]
      /\ \A s \in Cli : cli[s].pc = "idle" /\ cli[s].closed = FALSE
  <2>1. \A k \in {"logout", "metadata", "refresh"} :
          IdleCli(k) \in CliState /\ IdleCli(k).pc = "idle" /\ IdleCli(k).closed = FALSE
    BY DEF IdleCli, CliState
  <2> QED BY <1>1, <2>1
<1>4. EmptyBox \in Contents /\ EmptyBox.up /\ EmptyBox.copy = NoNative /\ EmptyBox.held = NoNative
  BY DEF EmptyBox, Contents, MaybeNative
<1>5. FreshHook \in HookState /\ FreshHook.pc = "unbound" /\ ~FreshHook.stopped
  <2>1. 0 \in 0..Uses BY UsesAssumption
  <2> QED BY <2>1 DEF FreshHook, HookState
<1>6. NoEvidence \in Evidence /\ IdleSeeder \in SeederState /\ IdleSeeder.pc = "idle"
  BY DEF NoEvidence, Evidence, IdleSeeder, SeederState
<1>7. 0 \in Turn BY CustodyAssumption DEF Turn
<1>8. TypeOK BY <1>1, <1>2, <1>3, <1>4, <1>5, <1>6, <1>7 DEF TypeOK
<1>9. authority.phase = "absent" /\ authority.native = NoNative BY <1>1 DEF Absent
<1>10. \A b \in Box : ~Active(b) /\ box[b].up /\ box[b].copy = NoNative
  BY <1>1, <1>4 DEF Active
<1>11. RecordSound /\ HooksApart BY <1>1, <1>5, <1>9 DEF RecordSound, HooksApart
<1>12. \A b \in Box : BoxSound(b) BY <1>10 DEF BoxSound
<1>13. \A c \in Scope : ScopeSound(c) BY <1>1, <1>2, <1>5 DEF ScopeSound, HooksOf
<1>14. \A h \in Hook : HookSound(h)
  <2> TAKE h \in Hook
  <2>1. OwnerOf(h) \in Scope /\ h \in Box BY Owners
  <2>2. scope[OwnerOf(h)].pc = "idle" /\ hook[h].pc = "unbound" /\ ~hook[h].stopped
    BY <1>1, <1>2, <1>5, <2>1
  <2> QED BY <1>10, <2>1, <2>2 DEF HookSound
<1>15. \A s \in Cli : CliSound(s) BY <1>3 DEF CliSound, Live
<1>16. \A g \in Seeder : SeederSound(g) BY <1>1, <1>6, <1>9 DEF SeederSound, Login
<1> QED BY <1>8, <1>11, <1>12, <1>13, <1>14, <1>15, <1>16 DEF Inv, CustodyHolds

(* Every step keeps it.                                                    *)
LEMMA NextHolds == Inv /\ [Next]_custody => Inv'
<1> SUFFICES ASSUME Inv, [Next]_custody PROVE Inv' OBVIOUS
<1>1. CASE UNCHANGED custody
  <2>1. UNCHANGED <<authority, newest, box, scope, hook, cli, operation, seeder>>
    BY <1>1 DEF custody
  <2>2. TypeOK' BY <2>1 DEF Inv, TypeOK
  <2>3. RecordSound' BY <2>1 DEF Inv, CustodyHolds, RecordSound, Latest
  <2>4. HooksApart' BY <2>1, ApartKept
  <2>5. \A b \in Box : BoxSound(b)' BY <2>1, BoxKept
  <2>6. \A c \in Scope : ScopeSound(c)' BY <2>1, ScopeKept
  <2>7. \A h \in Hook : HookSound(h)' BY <2>1, HookKept
  <2>8. \A s \in Cli : CliSound(s)' BY <2>1, CliKept
  <2>9. \A g \in Seeder : SeederSound(g)' BY <2>1, SeedersKept, SeederStops
  <2> QED BY <2>2, <2>3, <2>4, <2>5, <2>6, <2>7, <2>8, <2>9 DEF Inv, CustodyHolds
<1>2. CASE \E b \in Box : ClientStep(b) BY <1>2, ClientKeeps
<1>3. CASE \E h \in Hook : HookStep(h) BY <1>3, HookKeeps
<1>4. CASE \E c \in Scope : ScopeStep(c) BY <1>4, ScopeKeeps
<1>5. CASE \E s \in Cli : CliStep(s) BY <1>5, CliKeeps
<1>6. CASE \E g \in Seeder : SeederStep(g) BY <1>6, SeederKeeps
<1> QED BY <1>1, <1>2, <1>3, <1>4, <1>5, <1>6 DEF Next

(* The variables keep their types.                                         *)
THEOREM CustodyTypes == Spec => []TypeOK
<1>1. Init => Inv BY InitHolds
<1>2. Inv /\ [Next]_custody => Inv' BY NextHolds
<1>3. Inv => TypeOK BY DEF Inv
<1> QED BY <1>1, <1>2, <1>3, PTL DEF Spec

(* Whoever owns the record knows where the newest turn of its login is     *)
(* (RuntimeAuthScope, auth_session, SessionClaim).                         *)
THEOREM CustodyAlwaysHolds == Spec => []CustodyHolds
<1>1. Init => Inv BY InitHolds
<1>2. Inv /\ [Next]_custody => Inv' BY NextHolds
<1>3. Inv => CustodyHolds BY DEF Inv
<1> QED BY <1>1, <1>2, <1>3, PTL DEF Spec

(* A released record holds the provider's current turn of its login        *)
(* (_finish_claim, auth_session, PublishSeed).                             *)
THEOREM ReleasedIsAlwaysNewest == Spec => []ReleasedIsNewest
<1>1. Inv => ReleasedIsNewest
  BY DEF Inv, CustodyHolds, RecordSound, Latest, ReleasedIsNewest
<1>2. Init => Inv BY InitHolds
<1>3. Inv /\ [Next]_custody => Inv' BY NextHolds
<1> QED BY <1>1, <1>2, <1>3, PTL DEF Spec

(* ... and no client of that login still runs.                             *)
THEOREM ReleasedIsAlwaysIdle == Spec => []ReleasedIsIdle
<1>1. Inv => ReleasedIsIdle BY ReadyIsIdle DEF ReleasedIsIdle
<1>2. Init => Inv BY InitHolds
<1>3. Inv /\ [Next]_custody => Inv' BY NextHolds
<1> QED BY <1>1, <1>2, <1>3, PTL DEF Spec

-----------------------------------------------------------------------------
(* Clients take turns. *)

(* Putting a copy into a box, or destroying the box, starts no client.     *)
LEMMA BoxWrites ==
    ASSUME TypeOK, NEW b \in Box
    PROVE  /\ \A n \in MaybeNative : Stage(b, n) =>
                 \A d \in Box : Active(d)' => Active(d)
           /\ Destroy(b) => \A d \in Box : Active(d)' => Active(d)
<1>1. box \in [Box -> Contents] /\ box[b] \in Contents BY DEF TypeOK
<1>2. ASSUME NEW n \in MaybeNative, Stage(b, n)
      PROVE  \A d \in Box : Active(d)' => Active(d)
  <2>1. box' = [box EXCEPT ![b] = [box[b] EXCEPT !.copy = n]] BY <1>2 DEF Stage
  <2>2. [box[b] EXCEPT !.copy = n].held = box[b].held BY <1>1 DEF Contents
  <2>3. \A d \in Box : box'[d].held = box[d].held BY <1>1, <2>1, <2>2
  <2> QED BY <2>3 DEF Active
<1>3. ASSUME Destroy(b)
      PROVE  \A d \in Box : Active(d)' => Active(d)
  <2>1. DeadBox.held = NoNative BY DEF DeadBox, EmptyBox
  <2>2. box' = [box EXCEPT ![b] = DeadBox] BY <1>3 DEF Destroy
  <2> QED BY <1>1, <2>1, <2>2 DEF Active
<1> QED BY <1>2, <1>3

(* A native client starts only in Launch and SpawnChild, and then nothing  *)
(* else runs on the login.                                                 *)
LEMMA StartsAlone ==
    ASSUME Inv, Next, NEW b \in Box, Active(b)', ~Active(b)
    PROVE  \A d \in Box : d # b => ~Active(d) /\ box'[d] = box[d]
<1>0. /\ TypeOK /\ box \in [Box -> Contents] /\ scope \in [Scope -> ScopeState]
      /\ authority \in Session \cup {Absent}
  BY DEF Inv, TypeOK
<1>1. ASSUME NEW d \in Box, ClientStep(d) PROVE FALSE
  <2>1. Active(d) => d # b OBVIOUS
  <2>2. CASE Rotate(d) \/ Persist(d) \/ ClientEnds(d)
    <3>1. Active(d) BY <2>2 DEF Rotate, Persist, ClientEnds
    <3>2. box'[b] = box[b]
      BY <1>0, <2>1, <2>2, <3>1 DEF Rotate, Persist, ClientEnds, Stage
    <3> QED BY <3>2 DEF Active
  <2>3. CASE BoxDies(d) BY <1>0, <2>3, BoxWrites DEF BoxDies
  <2> QED BY <1>1, <2>2, <2>3 DEF ClientStep
<1>2. ASSUME NEW h \in Hook, HookStep(h)
      PROVE  \A d \in Box : d # b => ~Active(d) /\ box'[d] = box[d]
  <2>0. h \in Box /\ OwnerOf(h) \in Scope /\ scope[OwnerOf(h)].native \in MaybeNative
    BY <1>0, Owners DEF ScopeState
  <2>1. CASE UNCHANGED box BY <2>1 DEF Active
  <2>2. CASE \E n \in MaybeNative : Stage(h, n) BY <1>0, <2>0, <2>2, BoxWrites
  <2>3. CASE Destroy(h) BY <1>0, <2>0, <2>3, BoxWrites
  <2>4. CASE Launch(h) /\ Start(h)
    <3>1. scope[OwnerOf(h)].pc = "open" /\ hook[h].pc = "launch"
      BY <2>4 DEF Launch, At
    <3>2. ~hook[h].stopped BY <3>1, AtWork
    <3>3. \A d \in Box : d # h => box'[d] = box[d] BY <1>0, <2>4 DEF Start
    <3>4. b = h BY <3>3 DEF Active
    <3>5. authority.owner = OwnerOf(h) BY <2>0, <3>1, OwnedBy
    <3>6. ASSUME NEW d \in Box, d # h PROVE ~Active(d)
      <4>1. CASE OwnerOf(d) = OwnerOf(h)
        <5>1. d \in HooksOf(OwnerOf(h)) BY <2>0, <4>1, Owners DEF HooksOf
        <5> QED BY <3>1, <3>2, <3>6, <5>1, Engaged DEF Active
      <4>2. CASE OwnerOf(d) # OwnerOf(h) BY <3>5, <4>2, OwnedBy
      <4> QED BY <4>1, <4>2
    <3> QED BY <3>3, <3>4, <3>6
  <2>5. /\ Bind(h) \/ CaptureConsumer(h) \/ Rebind(h) \/ NewDispatch(h)
              \/ ExecuteModel(h) \/ ExecuteMetadata(h) \/ ExecReturns(h)
              \/ ExecRaises(h) \/ Capture(h) \/ Checkpoint(h) => UNCHANGED box
        /\ SetUp(h) \/ StageForUse(h) =>
              UNCHANGED box \/ Stage(h, scope[OwnerOf(h)].native)
        /\ CleanUp(h) => UNCHANGED box \/ Stage(h, NoNative)
        /\ StopEnvironment(h) => UNCHANGED box \/ Destroy(h)
        /\ Launch(h) => UNCHANGED box \/ Start(h)
    BY DEF Bind, CaptureConsumer, Rebind, NewDispatch, ExecuteModel, ExecuteMetadata,
           ExecReturns, ExecRaises, Capture, Checkpoint, SetUp, StageForUse,
           RestoreCredentials, CleanUp, StopEnvironment, Launch
  <2>6. NoNative \in MaybeNative BY DEF MaybeNative
  <2> QED BY <1>2, <2>0, <2>1, <2>2, <2>3, <2>4, <2>5, <2>6 DEF HookStep
<1>3. ASSUME NEW c \in Scope, ScopeStep(c) PROVE FALSE
  <2>1. UNCHANGED box
    BY <1>3 DEF ScopeStep, OpenScope, ClaimForScope, Finalize, RunEnds, RunDies
  <2> QED BY <2>1 DEF Active
<1>4. ASSUME NEW s \in Cli, CliStep(s)
      PROVE  \A d \in Box : d # b => ~Active(d) /\ box'[d] = box[d]
  <2>0. desk(s) \in Box /\ cli[s] \in CliState BY LiveSessions
  <2>1. CASE UNCHANGED box BY <2>1 DEF Active
  <2>2. CASE ClaimForCli(s)
    <3>1. /\ cli[s].pc = "claiming" /\ CliSound(s)
          /\ \/ UNCHANGED box
             \/ Stage(desk(s), Claimed(cli[s].seen, s).native)
      BY <2>2, LiveSessions DEF ClaimForCli
    <3>2. s \in Consumer /\ cli[s].seen \in Session \cup {Absent}
      BY <2>0 DEF Consumer, CliState
    <3>3. cli[s].seen.phase = "ready" BY <3>1 DEF CliSound
    <3>4. cli[s].seen.native \in Native BY <3>2, <3>3, Phases
    <3>5. Claimed(cli[s].seen, s).native \in MaybeNative
      BY <3>2, <3>3, <3>4, Writes DEF MaybeNative
    <3> QED BY <1>0, <2>0, <2>1, <3>1, <3>5, BoxWrites
  <2>3. CASE SpawnChild(s)
    <3>1. cli[s].pc = "launching" /\ Start(desk(s)) BY <2>3 DEF SpawnChild
    <3>2. \A d \in Box : d # desk(s) => box'[d] = box[d] BY <1>0, <3>1 DEF Start
    <3>3. b = desk(s) BY <3>2 DEF Active
    <3>4. \A d \in Box : Active(d) => d = desk(s) BY <3>1, LiveSessions DEF Live
    <3> QED BY <3>2, <3>3, <3>4
  <2>4. CASE ChildRaises(s)
    <3>1. box' = [box EXCEPT ![desk(s)].held = NoNative] \/ box' = box
      BY <2>4 DEF ChildRaises
    <3>2. \A d \in Box : box'[d].held \in {box[d].held, NoNative}
      <4>1. CASE box' = box BY <4>1
      <4>2. CASE box' = [box EXCEPT ![desk(s)].held = NoNative]
        <5>1. box[desk(s)] \in Contents BY <1>0, <2>0
        <5>2. box'[desk(s)].held = NoNative BY <1>0, <2>0, <4>2, <5>1 DEF Contents
        <5>3. \A d \in Box : d # desk(s) => box'[d] = box[d] BY <1>0, <4>2
        <5> QED BY <5>2, <5>3
      <4> QED BY <3>1, <4>1, <4>2
    <3> QED BY <3>2 DEF Active
  <2>5. UNCHANGED box \/ ClaimForCli(s) \/ SpawnChild(s) \/ ChildRaises(s)
    BY <1>4 DEF CliStep, OpenCli, ReadForCli, CheckStatus, LeaveSession, AnnounceChild,
                RegisterChild, ChildReturns, CheckpointRenewal, LogOut, CloseSession, CliEnds
  <2> QED BY <2>1, <2>2, <2>3, <2>4, <2>5
<1>5. ASSUME NEW g \in Seeder, SeederStep(g) PROVE FALSE
  <2>1. UNCHANGED box
    BY <1>5 DEF SeederStep, ChooseGeneration, CheckSeedTarget, NativeLogin,
                RecheckSeedTarget, PublishSeed
  <2> QED BY <2>1 DEF Active
<1> QED BY <1>1, <1>2, <1>3, <1>4, <1>5 DEF Next

(* At most one native client runs at a time.                               *)
LEMMA OneActiveKept == Inv /\ OneActive /\ [Next]_custody => OneActive'
<1> SUFFICES ASSUME Inv, OneActive, [Next]_custody, NEW b \in Box, NEW d \in Box,
                    Active(b)', Active(d)', b # d
             PROVE  FALSE
  BY DEF OneActive
<1>1. CASE UNCHANGED custody BY <1>1 DEF custody, OneActive, Active
<1>2. CASE Next
  <2>1. CASE Active(b) /\ Active(d) BY <2>1 DEF OneActive
  <2>2. CASE ~Active(b)
    <3>1. ~Active(d) /\ box'[d] = box[d] BY <1>2, <2>2, StartsAlone
    <3> QED BY <3>1 DEF Active
  <2>3. CASE ~Active(d)
    <3>1. ~Active(b) /\ box'[b] = box[b] BY <1>2, <2>3, StartsAlone
    <3> QED BY <3>1 DEF Active
  <2> QED BY <2>1, <2>2, <2>3
<1> QED BY <1>1, <1>2

(* Two clients never run on the same login, across hooks of a run, runs,   *)
(* CLI sessions and generations (RuntimeAuthHook, auth_session, reseeding). *)
THEOREM OneClientAtATime == Spec => []OneClient
<1>1. Init => OneActive
  <2> SUFFICES ASSUME Init, NEW b \in Box PROVE ~Active(b) BY DEF OneActive
  <2>1. box[b] = EmptyBox BY DEF Init
  <2> QED BY <2>1 DEF Active, EmptyBox
<1>2. OneActive => OneClient BY DEF OneActive, OneClient
<1>3. Init => Inv BY InitHolds
<1>4. Inv /\ [Next]_custody => Inv' BY NextHolds
<1>5. Inv /\ OneActive /\ [Next]_custody => OneActive' BY OneActiveKept
<1> QED BY <1>1, <1>2, <1>3, <1>4, <1>5, PTL DEF Spec

-----------------------------------------------------------------------------
(* What a step may do to the record. *)

(* A claim takes a ready record as it is. *)
ClaimWrite ==
    /\ authority.phase = "ready"
    /\ authority'.generation = authority.generation
    /\ authority'.native = authority.native

(* The owner saves a copy that is not older, or logs out; only at its end    *)
(* does it give the record up.                                             *)
OwnWrite(n) ==
    /\ authority.phase = "claimed"
    /\ n.login = authority.native.login /\ n.turn >= authority.native.turn
    /\ authority'.generation = authority.generation
    /\ authority'.native \in {n, NoNative}
    /\ authority'.owner # authority.owner =>
          IF authority.owner \in Scope
          THEN scope[authority.owner].pc = "open"
          ELSE cli[authority.owner].pc \in {"closing", "loggingOut"}

(* A reseed starts the next generation when no client runs. *)
NewGeneration ==
    /\ authority'.generation = authority.generation + 1
    /\ \A b \in Box : ~Active(b)

(* An open scope writes what it holds over the record it has seen.         *)
LEMMA ScopeWrite ==
    ASSUME Inv, NEW c \in Scope, scope[c].pc = "open", ~scope[c].closed,
           NEW new, authority = scope[c].seen, authority' = new,
           \/ new = Checkpointed(scope[c].seen, scope[c].native)
           \/ new = Released(scope[c].seen, scope[c].native)
           \/ new = Preserved(scope[c].seen, scope[c].native)
    PROVE  \E n \in Native : OwnWrite(n)
<1>1. /\ scope[c].native \in Native /\ scope[c].native.login = authority.native.login
      /\ authority.phase = "claimed" /\ authority.owner = c
      /\ authority \in Session \cup {Absent} /\ c \in Consumer
      /\ authority.native \in Native
      /\ authority.native.turn <= scope[c].native.turn
  BY OpenScopes DEF Consumer
<1>2. /\ authority'.generation = authority.generation
      /\ authority'.native = scope[c].native
  BY <1>1, Writes
<1>3. scope[c].native.turn \in Int /\ authority.native.turn \in Int
  BY <1>1, Natives DEF MaybeNative
<1>4. OwnWrite(scope[c].native) BY <1>1, <1>2, <1>3 DEF OwnWrite
<1> QED BY <1>1, <1>4

(* A session writes its private copy over the record it has seen, or logs   *)
(* it out.                                                                 *)
LEMMA SessionWrite ==
    ASSUME Inv, NEW s \in Cli, cli[s].pc \in {"renewed", "loggingOut", "closing"},
           ~cli[s].closed,
           NEW new, authority = cli[s].seen, authority' = new,
           \/ new = Checkpointed(cli[s].seen, box[desk(s)].copy)
           \/ new = Preserved(cli[s].seen, box[desk(s)].copy)
           \/ /\ cli[s].pc \in {"loggingOut", "closing"}
              /\ \/ new = Released(cli[s].seen, box[desk(s)].copy)
                 \/ new = LoggedOut(cli[s].seen)
    PROVE  \E n \in Native : OwnWrite(n)
<1> DEFINE copy == box[desk(s)].copy
<1>1. /\ copy \in Native /\ copy.login = authority.native.login
      /\ authority.phase = "claimed" /\ authority.owner = s
      /\ authority \in Session \cup {Absent} /\ s \in Consumer
      /\ authority.native \in Native /\ authority.native.turn <= copy.turn
  BY LiveSessions DEF Live
<1>2. /\ authority'.generation = authority.generation
      /\ authority'.native \in {copy, NoNative}
      /\ authority'.owner # authority.owner => cli[s].pc \in {"closing", "loggingOut"}
  BY <1>1, Writes
<1>3. copy.turn \in Int /\ authority.native.turn \in Int
  BY <1>1, Natives DEF MaybeNative
<1>4. s \notin Scope BY Owners
<1>5. OwnWrite(copy)
  BY <1>1, <1>2, <1>3, <1>4 DEF OwnWrite
<1> QED BY <1>1, <1>5

(* Every step leaves the record, claims it, writes one's own, or reseeds.   *)
LEMMA RecordSteps ==
    ASSUME Inv, Next
    PROVE  \/ UNCHANGED authority
           \/ ClaimWrite
           \/ \E n \in Native : OwnWrite(n)
           \/ NewGeneration
<1>1. ASSUME NEW b \in Box, ClientStep(b) PROVE UNCHANGED authority
  BY <1>1 DEF ClientStep, Rotate, Persist, ClientEnds, BoxDies
<1>2. ASSUME NEW h \in Hook, HookStep(h)
      PROVE  UNCHANGED authority \/ \E n \in Native : OwnWrite(n)
  <2>1. CASE Checkpoint(h)
    <3>1. OwnerOf(h) \in Scope /\ scope[OwnerOf(h)].pc = "open"
      BY <2>1, Owners DEF Checkpoint, At
    <3>2. \/ UNCHANGED authority
          \/ /\ ~scope[OwnerOf(h)].closed
             /\ \E reply \in Reply :
                   CompareAndSwap(scope[OwnerOf(h)].seen,
                      Checkpointed(scope[OwnerOf(h)].seen, scope[OwnerOf(h)].native), reply)
      BY <2>1 DEF Checkpoint, Reply
    <3> QED BY <3>1, <3>2, Swaps, ScopeWrite
  <2>2. UNCHANGED authority \/ Checkpoint(h)
    BY <1>2 DEF HookStep, Bind, CaptureConsumer, Rebind, NewDispatch, ExecuteModel,
                ExecuteMetadata, ExecReturns, ExecRaises, Capture, SetUp, StageForUse,
                CleanUp, StopEnvironment, Launch
  <2> QED BY <2>1, <2>2
<1>3. ASSUME NEW c \in Scope, ScopeStep(c)
      PROVE  UNCHANGED authority \/ ClaimWrite \/ \E n \in Native : OwnWrite(n)
  <2>1. CASE ClaimForScope(c)
    <3>1. scope[c] \in ScopeState /\ ScopeSound(c) /\ c \in Consumer
      BY DEF Inv, TypeOK, CustodyHolds, Consumer
    <3>2. scope[c].pc = "claiming" BY <2>1 DEF ClaimForScope
    <3>3. scope[c].seen \in Session \cup {Absent} /\ scope[c].seen.phase = "ready"
      BY <3>1, <3>2 DEF ScopeState, ScopeSound
    <3>4. \E reply \in Reply :
             CompareAndSwap(scope[c].seen, Claimed(scope[c].seen, c), reply)
      BY <2>1 DEF ClaimForScope
    <3>5. scope[c].seen.native \in Native BY <3>3, Phases
    <3>6. /\ Claimed(scope[c].seen, c).native = scope[c].seen.native
          /\ Claimed(scope[c].seen, c).generation = scope[c].seen.generation
      BY <3>1, <3>3, <3>5, Writes
    <3>7. \/ authority = scope[c].seen /\ authority' = Claimed(scope[c].seen, c)
          \/ authority' = authority
      BY <3>4, Swaps
    <3> QED BY <3>3, <3>6, <3>7 DEF ClaimWrite
  <2>2. CASE Finalize(c)
    <3>1. /\ scope[c].pc = "open"
          /\ \/ UNCHANGED authority
             \/ /\ ~scope[c].closed
                /\ \E reply \in Reply :
                      \/ CompareAndSwap(scope[c].seen,
                            Released(scope[c].seen, scope[c].native), reply)
                      \/ CompareAndSwap(scope[c].seen,
                            Preserved(scope[c].seen, scope[c].native), reply)
      BY <2>2 DEF Finalize
    <3> QED BY <3>1, Swaps, ScopeWrite
  <2>3. UNCHANGED authority \/ ClaimForScope(c) \/ Finalize(c)
    BY <1>3 DEF ScopeStep, OpenScope, RunEnds, RunDies
  <2> QED BY <2>1, <2>2, <2>3
<1>4. ASSUME NEW s \in Cli, CliStep(s)
      PROVE  UNCHANGED authority \/ ClaimWrite \/ \E n \in Native : OwnWrite(n)
  <2>0. /\ cli[s] \in CliState /\ CliSound(s) /\ s \in Consumer
        /\ cli[s].closed => cli[s].pc \notin {"renewed", "loggingOut"}
    BY LiveSessions DEF CliSound
  <2>1. CASE ClaimForCli(s)
    <3>1. /\ cli[s].pc = "claiming"
          /\ \E reply \in Reply :
                CompareAndSwap(cli[s].seen, Claimed(cli[s].seen, s), reply)
      BY <2>1 DEF ClaimForCli
    <3>2. cli[s].seen \in Session \cup {Absent} /\ cli[s].seen.phase = "ready"
      BY <2>0, <3>1 DEF CliState, CliSound
    <3>3. cli[s].seen.native \in Native BY <3>2, Phases
    <3> QED BY <2>0, <3>1, <3>2, <3>3, Swaps, Writes DEF ClaimWrite
  <2>2. CASE CheckpointRenewal(s)
    <3>1. /\ cli[s].pc = "renewed"
          /\ \/ UNCHANGED authority
             \/ \E reply \in Reply :
                   CompareAndSwap(cli[s].seen,
                      Checkpointed(cli[s].seen, box[desk(s)].copy), reply)
      BY <2>2 DEF CheckpointRenewal
    <3> QED BY <2>0, <3>1, Swaps, SessionWrite
  <2>3. CASE LogOut(s)
    <3>1. /\ cli[s].pc = "loggingOut"
          /\ \E reply \in Reply :
                CompareAndSwap(cli[s].seen, LoggedOut(cli[s].seen), reply)
      BY <2>3 DEF LogOut
    <3> QED BY <2>0, <3>1, Swaps, SessionWrite
  <2>4. CASE CloseSession(s)
    <3>1. /\ cli[s].pc = "closing"
          /\ \/ UNCHANGED authority
             \/ /\ ~cli[s].closed
                /\ \E reply \in Reply :
                      \/ CompareAndSwap(cli[s].seen,
                            Released(cli[s].seen, box[desk(s)].copy), reply)
                      \/ CompareAndSwap(cli[s].seen,
                            Preserved(cli[s].seen, box[desk(s)].copy), reply)
      BY <2>4 DEF CloseSession
    <3> QED BY <3>1, Swaps, SessionWrite
  <2>5. \/ UNCHANGED authority
        \/ ClaimForCli(s) \/ CheckpointRenewal(s) \/ LogOut(s) \/ CloseSession(s)
    BY <1>4 DEF CliStep, OpenCli, ReadForCli, CheckStatus, LeaveSession, AnnounceChild,
                SpawnChild, RegisterChild, ChildReturns, ChildRaises, CliEnds
  <2> QED BY <2>1, <2>2, <2>3, <2>4, <2>5
<1>5. ASSUME NEW g \in Seeder, SeederStep(g)
      PROVE  UNCHANGED authority \/ NewGeneration
  <2>1. CASE PublishSeed(g)
    <3> DEFINE new == Seeded(seeder[g].seen.generation + 1, [login |-> g, turn |-> 0])
    <3>1. seeder[g].pc = "publish" /\ \E reply \in Reply : CompareAndSwap(seeder[g].seen, new, reply)
      BY <2>1 DEF PublishSeed
    <3>2. new.generation = seeder[g].seen.generation + 1 BY DEF Seeded
    <3> HIDE DEF new
    <3>3. UNCHANGED authority \/ (authority = seeder[g].seen /\ authority' = new)
      BY <3>1, Swaps
    <3>4. CASE authority = seeder[g].seen /\ authority' = new
      <4>1. SeederSound(g) BY DEF Inv, CustodyHolds
      <4>2. authority.owner # NoOwner => ProvenStopped(authority.owner)
        BY <3>1, <3>4, <4>1 DEF SeederSound
      <4>3. \A b \in Box : ~Active(b) BY <4>2, StoppedIsIdle
      <4> QED BY <3>2, <3>4, <4>3 DEF NewGeneration
    <3> QED BY <3>3, <3>4
  <2>2. UNCHANGED authority \/ PublishSeed(g)
    BY <1>5 DEF SeederStep, ChooseGeneration, CheckSeedTarget, NativeLogin, RecheckSeedTarget
  <2> QED BY <2>1, <2>2
<1> QED BY <1>1, <1>2, <1>3, <1>4, <1>5 DEF Next

(* The record never goes back to an earlier generation, nor within one to  *)
(* an earlier turn of the login (checkpoint, preserve, release).           *)
THEOREM LineageIsMonotone == Spec => LineageNeverGoesBack
<1> DEFINE Onward ==
      /\ authority'.generation >= authority.generation
      /\ (authority'.generation = authority.generation
            /\ NoNative \notin {authority.native, authority'.native}) =>
            /\ authority'.native.login = authority.native.login
            /\ authority'.native.turn >= authority.native.turn
<1>1. ASSUME Inv, [Next]_custody PROVE Onward
  <2>1. authority \in Session \cup {Absent} /\ authority.generation \in Nat
    BY <1>1, Phases DEF Inv, TypeOK
  <2>2. authority.native # NoNative => authority.native.turn \in Int
    BY <2>1, Phases, Natives DEF MaybeNative
  <2>3. CASE authority'.generation = authority.generation /\ authority'.native = authority.native
    BY <2>1, <2>2, <2>3
  <2>4. CASE UNCHANGED authority BY <2>3, <2>4
  <2>5. CASE ClaimWrite BY <2>3, <2>5 DEF ClaimWrite
  <2>6. CASE \E n \in Native : OwnWrite(n)
    BY <2>1, <2>6 DEF OwnWrite
  <2>7. CASE NewGeneration BY <2>1, <2>7 DEF NewGeneration
  <2> QED BY <1>1, <2>4, <2>5, <2>6, <2>7, RecordSteps DEF custody
<1>2. Inv /\ [Next]_custody => [Onward]_custody BY <1>1
<1>3. Init => Inv BY InitHolds
<1>4. Inv /\ [Next]_custody => Inv' BY NextHolds
<1> QED BY <1>2, <1>3, <1>4, PTL DEF Spec, LineageNeverGoesBack

(* A claim ends by its owner's own release or logout, or by a new          *)
(* generation once nothing of the owner runs any more: no other consumer   *)
(* takes it over (SessionClaim, check_seed_target).                        *)
THEOREM ClaimsAreNotTakenOver == Spec => NoTakeover
<1> DEFINE EndsOwn ==
      authority.phase = "claimed" /\ authority'.owner # authority.owner =>
          \/ authority'.generation = authority.generation
             /\ IF authority.owner \in Scope
                THEN scope[authority.owner].pc = "open"
                ELSE cli[authority.owner].pc \in {"closing", "loggingOut"}
          \/ authority'.generation > authority.generation
             /\ \A b \in BoxesOf(authority.owner) : ~Active(b)
<1>1. ASSUME Inv, [Next]_custody PROVE EndsOwn
  <2>1. authority.generation \in Nat BY <1>1, Phases DEF Inv, TypeOK
  <2>2. CASE UNCHANGED authority BY <2>2
  <2>3. CASE ClaimWrite BY <2>3 DEF ClaimWrite
  <2>4. CASE \E n \in Native : OwnWrite(n) BY <2>4 DEF OwnWrite
  <2>5. CASE NewGeneration BY <2>1, <2>5 DEF NewGeneration, BoxesOf
  <2> QED BY <1>1, <2>2, <2>3, <2>4, <2>5, RecordSteps DEF custody
<1>2. Inv /\ [Next]_custody => [EndsOwn]_custody BY <1>1
<1>3. Init => Inv BY InitHolds
<1>4. Inv /\ [Next]_custody => Inv' BY NextHolds
<1> QED BY <1>2, <1>3, <1>4, PTL DEF Spec, NoTakeover

=============================================================================
