------------------------ MODULE MCCredentialCustody ------------------------
(***************************************************************************)
(* A model-checking instance of CredentialCustody.  Trials, and logins, are *)
(* interchangeable: no definition tells them apart.                        *)
(***************************************************************************)
EXTENDS CredentialCustody, TLC

(* The bound of the run.  Either the CLI stays out and a second trial may   *)
(* take part, with as many renewals as MaxTurn allows; or one trial meets a *)
(* CLI session, with one renewal of each login.                            *)
OneRivalOfTheTrial ==
    \/ \A s \in Cli : cli[s] = IdleCli("logout")
    \/ /\ \A h, i \in Hook : FreshHook \notin {hook[h], hook[i]} => h = i
       /\ \A l \in Login : newest[l] <= 1

CustodySymmetry == Permutations(Trial) \cup Permutations(Seeder)
=============================================================================
