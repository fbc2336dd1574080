-------------------------- MODULE CliCredentials --------------------------
(***************************************************************************)
(* The native login under a local command: logout, metadata collection and *)
(* explicit renewal.  auth_session claims the record, runs native children *)
(* on a private copy and releases it; the CLI operation around it keeps    *)
(* durable evidence of the children, so that a later reseed can prove that *)
(* a session which died left none behind.                                  *)
(***************************************************************************)
EXTENDS CredentialAuthority

VARIABLES cli,        \* the sessions
          operation   \* their durable CliLifetime records

desk(s) == <<s, "desk">>

CliState == [pc : {"idle", "opened", "claiming", "held", "active", "launching",
                   "spawned", "running", "renewed", "loggingOut", "closing",
                   "over", "exited", "dead"},
             kind : {"logout", "metadata", "refresh"}, seen : Session \cup {Absent},
             closed : BOOLEAN, stopped : BOOLEAN, ambiguous : BOOLEAN]

IdleCli(kind) == [pc |-> "idle", kind |-> kind, seen |-> Absent, closed |-> FALSE,
                  stopped |-> TRUE, ambiguous |-> FALSE]

(* What the private record says; "children" is whether any is registered. *)
Evidence   == [launching : BOOLEAN, children : BOOLEAN]
NoEvidence == [launching |-> FALSE, children |-> FALSE]

CliGo(s, l) == cli' = [cli EXCEPT ![s].pc = l]

-----------------------------------------------------------------------------
(* The operation's record is written and the harness's version checked by   *)
(* a first child (Pi's is read from its package instead).                  *)
OpenCli(s) ==
    /\ cli[s].pc = "idle"
    /\ CliGo(s, "opened")
    /\ \E checked \in BOOLEAN :
          operation' = [operation EXCEPT ![s].children = checked]
    /\ UNCHANGED <<authority, newest, box>>

(* The session names a generation, which may no longer be the current one.  *)
ReadForCli(s) ==
    /\ cli[s].pc = "opened"
    /\ \/ /\ Claimable(authority.generation)
          /\ cli' = [cli EXCEPT ![s].pc = "claiming", ![s].seen = authority]
       \/ CliGo(s, "over")
    /\ UNCHANGED <<authority, newest, box, operation>>

(* An acknowledged claim is followed by writing the private copy. *)
ClaimForCli(s) ==
    /\ cli[s].pc = "claiming"
    /\ LET new == Claimed(cli[s].seen, s)
       IN \E reply \in Reply :
            /\ CompareAndSwap(cli[s].seen, new, reply)
            /\ IF reply = "acknowledged"
               THEN /\ cli' = [cli EXCEPT ![s].pc = "held", ![s].seen = new]
                    /\ Stage(desk(s), new.native)
               ELSE CliGo(s, "over") /\ UNCHANGED box
    /\ UNCHANGED <<newest, operation>>

(* The status child reads the copy only.  Its failure ends the session; a   *)
(* signal or an error in running it leaves the login in doubt.             *)
CheckStatus(s) ==
    /\ cli[s].pc = "held"
    /\ operation' = [operation EXCEPT ![s].children = TRUE]
    /\ \/ CliGo(s, "active")
       \/ \E doubt \in BOOLEAN :
             cli' = [cli EXCEPT ![s].pc = "closing", ![s].ambiguous = doubt]
    /\ UNCHANGED <<authority, newest, box>>

(* The caller's block ends or fails before it runs a child. *)
LeaveSession(s) ==
    /\ cli[s].pc = "active"
    /\ \E doubt \in BOOLEAN :
          cli' = [cli EXCEPT ![s].pc = "closing", ![s].ambiguous = doubt]
    /\ UNCHANGED <<authority, newest, box, operation>>

-----------------------------------------------------------------------------
(* A native child.  Evidence is written before it is started and completed  *)
(* after; a renewal is doubtful from before its launch.                    *)
AnnounceChild(s) ==
    /\ cli[s].pc = "active"
    /\ operation' = [operation EXCEPT ![s].launching = TRUE]
    /\ LET renewal == cli[s].kind = "refresh"
       IN cli' = [cli EXCEPT ![s].pc = "launching", ![s].stopped = FALSE,
                             ![s].ambiguous = @ \/ renewal]
    /\ UNCHANGED <<authority, newest, box>>

SpawnChild(s) ==
    /\ cli[s].pc = "launching"
    /\ Start(desk(s))
    /\ CliGo(s, "spawned")
    /\ UNCHANGED <<authority, newest, operation>>

RegisterChild(s) ==
    /\ cli[s].pc = "spawned"
    /\ operation' = [operation EXCEPT ![s] = [launching |-> FALSE, children |-> TRUE]]
    /\ CliGo(s, "running")
    /\ UNCHANGED <<authority, newest, box>>

(* Faulty variant of ChildReturns: the exit code is not read. *)
ChildReturnsAnyCode(s) ==
    LET then == [logout |-> "loggingOut", refresh |-> "renewed", metadata |-> "closing"]
    IN /\ cli[s].pc = "running"
       /\ box[desk(s)].exit # "none"
       /\ cli' = [cli EXCEPT ![s].pc = then[cli[s].kind], ![s].stopped = TRUE]
       /\ UNCHANGED <<authority, newest, box, operation>>

(* The child ended and its group is gone.  Only an exit of 0 can keep the    *)
(* session usable: run() doubts signals, its callers every other failure,  *)
(* and collection doubts an answer without proof of its own children.      *)
ChildReturns(s) ==
    LET well == box[desk(s)].exit = "good"
        then == [logout |-> "loggingOut", refresh |-> "renewed", metadata |-> "closing"]
    IN /\ cli[s].pc = "running"
       /\ box[desk(s)].exit # "none"
       /\ \E doubt \in BOOLEAN :
            /\ doubt => ~well \/ cli[s].kind = "metadata"
            /\ ~well => doubt
            /\ cli' = [cli EXCEPT ![s].pc = IF well THEN then[cli[s].kind] ELSE "closing",
                                  ![s].stopped = TRUE,
                                  ![s].ambiguous = @ \/ doubt]
       /\ UNCHANGED <<authority, newest, box, operation>>

(* Faulty variant of ChildRaises: a failed child leaves no doubt. *)
ChildRaisesOnly(s) ==
    /\ cli[s].pc \in {"launching", "spawned", "running"}
    /\ \E killed \in BOOLEAN :
          box' = IF killed THEN [box EXCEPT ![desk(s)].held = NoNative] ELSE box
    /\ cli' = [cli EXCEPT ![s].pc = "closing", ![s].stopped = TRUE]
    /\ UNCHANGED <<authority, newest, operation>>

(* A deadline, a cancellation or an error on the way: the group is killed,   *)
(* unless that fails too.  run() then calls the child stopped all the same; *)
(* a renewal does so only on proof.                                        *)
ChildRaises(s) ==
    /\ cli[s].pc \in {"launching", "spawned", "running"}
    /\ \E killed, proved \in BOOLEAN :
          /\ proved => killed
          /\ box' = IF killed THEN [box EXCEPT ![desk(s)].held = NoNative] ELSE box
          /\ cli' = [cli EXCEPT ![s].pc = "closing", ![s].ambiguous = TRUE,
                                ![s].stopped = proved \/ cli[s].kind # "refresh"]
    /\ UNCHANGED <<authority, newest, operation>>

(* A renewal counts when the tokens changed and the checkpoint of the new    *)
(* ones is acknowledged.                                                   *)
CheckpointRenewal(s) ==
    LET new == Checkpointed(cli[s].seen, box[desk(s)].copy)
    IN /\ cli[s].pc = "renewed"
       /\ \/ /\ box[desk(s)].copy # cli[s].seen.native
             /\ \E reply \in Reply :
                  /\ CompareAndSwap(cli[s].seen, new, reply)
                  /\ cli' = IF reply = "acknowledged"
                            THEN [cli EXCEPT ![s].pc = "closing", ![s].seen = new,
                                             ![s].ambiguous = FALSE]
                            ELSE [cli EXCEPT ![s].pc = "closing", ![s].closed = TRUE]
          \/ CliGo(s, "closing") /\ UNCHANGED authority
       /\ UNCHANGED <<newest, box, operation>>

-----------------------------------------------------------------------------
(* The end of the session: SessionClaim.logout, or what auth_session's       *)
(* finally block decides.                                                  *)
LogOut(s) ==
    /\ cli[s].pc = "loggingOut"
    /\ \E reply \in Reply : CompareAndSwap(cli[s].seen, LoggedOut(cli[s].seen), reply)
    /\ cli' = [cli EXCEPT ![s].pc = "over", ![s].closed = TRUE]
    /\ UNCHANGED <<newest, box, operation>>

CloseSession(s) ==
    LET seen == cli[s].seen
        copy == box[desk(s)].copy
    IN /\ cli[s].pc = "closing"
       /\ \E reply \in Reply :
             IF cli[s].closed \/ ~cli[s].stopped
             THEN UNCHANGED authority
             ELSE IF ~cli[s].ambiguous
             THEN CompareAndSwap(seen, Released(seen, copy), reply)
             ELSE CompareAndSwap(seen, Preserved(seen, copy), reply)
       /\ cli' = [cli EXCEPT ![s].pc = "over", ![s].closed = TRUE]
       /\ UNCHANGED <<newest, box, operation>>

CliEnds(s) ==
    \/ /\ cli[s].pc = "over"
       /\ CliGo(s, "exited")
       /\ UNCHANGED <<authority, newest, box, operation>>
    \/ /\ cli[s].pc \notin {"idle", "over", "exited", "dead"}
       /\ CliGo(s, "dead")
       /\ UNCHANGED <<authority, newest, box, operation>>

-----------------------------------------------------------------------------
(* Faulty variant of CliProvenStopped: an unregistered child is overlooked. *)
CliProvenByRecord(s) ==
    /\ cli[s].pc \in {"exited", "dead"}
    /\ operation[s].children
    /\ operation[s].launching \/ ~Active(desk(s))

(* prove_cli_operation_stopped: the evidence is complete, the process and    *)
(* every registered child are gone.                                        *)
CliProvenStopped(s) ==
    /\ cli[s].pc \in {"exited", "dead"}
    /\ ~operation[s].launching
    /\ operation[s].children
    /\ ~Active(desk(s))

=============================================================================
