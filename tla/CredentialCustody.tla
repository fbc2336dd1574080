------------------------- MODULE CredentialCustody -------------------------
(***************************************************************************)
(* One profile's login, its runs, its CLI sessions and its reseeds.        *)
(***************************************************************************)
EXTENDS CredentialSeeding, FiniteSets

custody == <<authority, newest, box, scope, hook, cli, operation, seeder>>

(* Each run was sealed under some generation; each session has its kind. *)
Init ==
    /\ authority = Absent
    /\ newest = [l \in Login |-> 0]
    /\ box = [b \in Box |-> EmptyBox]
    /\ scope \in [Scope -> {[IdleScope EXCEPT !.generation = g] :
                               g \in 1..Cardinality(Seeder)}]
    /\ hook = [h \in Hook |-> FreshHook]
    /\ cli \in [Cli -> {IdleCli(k) : k \in {"logout", "metadata", "refresh"}}]
    /\ operation = [s \in Cli |-> NoEvidence]
    /\ seeder = [g \in Seeder |-> IdleSeeder]

ClientStep(b) ==
    /\ Rotate(b) \/ Persist(b) \/ ClientEnds(b) \/ BoxDies(b)
    /\ UNCHANGED <<scope, hook, cli, operation, seeder>>

HookStep(h) ==
    /\ \/ Bind(h) \/ CaptureConsumer(h) \/ Rebind(h) \/ SetUp(h)
       \/ NewDispatch(h) \/ ExecuteModel(h) \/ ExecuteMetadata(h)
       \/ StageForUse(h) \/ Launch(h) \/ ExecReturns(h) \/ ExecRaises(h)
       \/ Capture(h) \/ Checkpoint(h) \/ CleanUp(h) \/ StopEnvironment(h)
    /\ UNCHANGED <<cli, operation, seeder>>

ScopeStep(c) ==
    /\ OpenScope(c) \/ ClaimForScope(c) \/ Finalize(c) \/ RunEnds(c) \/ RunDies(c)
    /\ UNCHANGED <<cli, operation, seeder>>

CliStep(s) ==
    /\ \/ OpenCli(s) \/ ReadForCli(s) \/ ClaimForCli(s) \/ CheckStatus(s)
       \/ LeaveSession(s) \/ AnnounceChild(s) \/ SpawnChild(s) \/ RegisterChild(s)
       \/ ChildReturns(s) \/ ChildRaises(s) \/ CheckpointRenewal(s)
       \/ LogOut(s) \/ CloseSession(s) \/ CliEnds(s)
    /\ UNCHANGED <<scope, hook, seeder>>

SeederStep(g) ==
    \/ ChooseGeneration(g) \/ CheckSeedTarget(g) \/ NativeLogin(g)
    \/ RecheckSeedTarget(g) \/ PublishSeed(g)

Next ==
    \/ \E b \in Box : ClientStep(b)
    \/ \E h \in Hook : HookStep(h)
    \/ \E c \in Scope : ScopeStep(c)
    \/ \E s \in Cli : CliStep(s)
    \/ \E g \in Seeder : SeederStep(g)

Spec == Init /\ [][Next]_custody

-----------------------------------------------------------------------------
(* The variables keep their types. *)
TypeOK ==
    /\ authority \in Session \cup {Absent}
    /\ newest \in [Login -> Turn]
    /\ box \in [Box -> Contents]
    /\ scope \in [Scope -> ScopeState]
    /\ hook \in [Hook -> HookState]
    /\ cli \in [Cli -> CliState]
    /\ operation \in [Cli -> Evidence]
    /\ seeder \in [Seeder -> SeederState]

(* A released record holds the provider's current turn of its login: no     *)
(* failure, lost reply or crash on the way puts a spent refresh token back  *)
(* into use (Finalize, CloseSession, PublishSeed).                         *)
ReleasedIsNewest ==
    authority.phase = "ready" =>
        authority.native.turn = newest[authority.native.login]

(* ... and no client of that login still runs, which would spend it later.  *)
ReleasedIsIdle ==
    authority.phase = "ready" =>
        \A b \in Box : Active(b) => box[b].held.login # authority.native.login

(* Renewal is serialized per login: two clients never run on the same one,  *)
(* across hooks of a run, runs, CLI sessions and generations.              *)
OneClient ==
    \A b, d \in Box :
        Active(b) /\ Active(d) /\ b # d => box[b].held.login # box[d].held.login

(* The record never goes back: generations grow, and within one the turn    *)
(* that is stored never decreases (Checkpoint, Preserved, Released).        *)
LineageNeverGoesBack ==
    [][ /\ authority'.generation >= authority.generation
        /\ (authority'.generation = authority.generation
              /\ NoNative \notin {authority.native, authority'.native}) =>
              /\ authority'.native.login = authority.native.login
              /\ authority'.native.turn >= authority.native.turn ]_custody

(* A claim ends by its owner's own release or logout, or by a new generation *)
(* once nothing of the owner runs any more: no timeout and no other consumer *)
(* takes it over.                                                          *)
NoTakeover ==
    [][ authority.phase = "claimed" /\ authority'.owner # authority.owner =>
          \/ authority'.generation = authority.generation
             /\ IF authority.owner \in Scope
                THEN scope[authority.owner].pc = "open"
                ELSE cli[authority.owner].pc \in {"closing", "loggingOut"}
          \/ authority'.generation > authority.generation
             /\ \A b \in BoxesOf(authority.owner) : ~Active(b) ]_custody

=============================================================================
