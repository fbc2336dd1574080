------------------------- MODULE CredentialSeeding -------------------------
(***************************************************************************)
(* Login and reseed: a fresh native login is published as the next         *)
(* generation of the profile, over a ready or logged-out record, or over a *)
(* claim whose consumer is proved stopped.                                 *)
(***************************************************************************)
EXTENDS RuntimeCredentials, CliCredentials

VARIABLE seeder

SeederState == [pc : {"idle", "chosen", "login", "recheck", "publish", "over"},
                prior : Session \cup {Absent},   \* the record the command chose to follow
                seen : Session \cup {Absent}]    \* the record it would replace

IdleSeeder == [pc |-> "idle", prior |-> Absent, seen |-> Absent]

SeederGo(g, l) == seeder' = [seeder EXCEPT ![g].pc = l]

(* prove_previous_consumer_stopped: no process of the run, and none of its  *)
(* boxes; or the evidence of a CLI operation.                              *)
RunProvenStopped(c) ==
    /\ scope[c].pc \in {"ended", "dead"}
    /\ \A b \in BoxesOf(c) : ~box[b].up

ProvenStopped(c) == IF c \in Scope THEN RunProvenStopped(c) ELSE CliProvenStopped(c)

(* check_seed_target, with the stopped_owner callback of the command: it     *)
(* answers for the owner that was read when the command began.             *)
SeedTarget(g) ==
    /\ authority.generation = seeder[g].prior.generation
    /\ authority.owner # NoOwner =>
          authority.owner = seeder[g].prior.owner /\ ProvenStopped(authority.owner)

ChooseGeneration(g) ==
    /\ seeder[g].pc = "idle"
    /\ seeder' = [seeder EXCEPT ![g].pc = "chosen", ![g].prior = authority]
    /\ UNCHANGED <<authority, newest, box, scope, hook, cli, operation>>

CheckSeedTarget(g) ==
    /\ seeder[g].pc = "chosen"
    /\ SeederGo(g, IF SeedTarget(g) THEN "login" ELSE "over")
    /\ UNCHANGED <<authority, newest, box, scope, hook, cli, operation>>

(* The browser or device login: minutes in which everything else may move.  *)
NativeLogin(g) ==
    /\ seeder[g].pc = "login"
    /\ SeederGo(g, "recheck") \/ SeederGo(g, "over")
    /\ UNCHANGED <<authority, newest, box, scope, hook, cli, operation>>

RecheckSeedTarget(g) ==
    /\ seeder[g].pc = "recheck"
    /\ seeder' = IF SeedTarget(g)
                 THEN [seeder EXCEPT ![g].pc = "publish", ![g].seen = authority]
                 ELSE [seeder EXCEPT ![g].pc = "over"]
    /\ UNCHANGED <<authority, newest, box, scope, hook, cli, operation>>

PublishSeed(g) ==
    /\ seeder[g].pc = "publish"
    /\ LET login == [login |-> g, turn |-> 0]
           new   == Seeded(seeder[g].seen.generation + 1, login)
       IN \E reply \in Reply : CompareAndSwap(seeder[g].seen, new, reply)
    /\ SeederGo(g, "over")
    /\ UNCHANGED <<newest, box, scope, hook, cli, operation>>

=============================================================================
