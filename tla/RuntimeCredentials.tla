------------------------- MODULE RuntimeCredentials -------------------------
(***************************************************************************)
(* The credentials of one run: RuntimeAuthScope claims the session record, *)
(* its hooks (one per trial) carry the native login into the trial's box   *)
(* and back around every native execution, and the end of the scope        *)
(* decides whether the login may be used again.                            *)
(*                                                                         *)
(* A hook takes one step per provider await; the hooks of a scope          *)
(* interleave at those awaits.  A hook is "ready" between its methods.     *)
(***************************************************************************)
EXTENDS CredentialAuthority

CONSTANT Uses    \* native executions explored per hook

ASSUME UsesAssumption == Uses \in Nat

VARIABLES scope, hook

ScopeState == [pc : {"idle", "claiming", "open", "over", "ended", "dead"},
               generation : Nat, seen : Session \cup {Absent},
               closed : BOOLEAN, native : MaybeNative, poisoned : BOOLEAN]

HookState == [pc : {"unbound", "binding", "setup", "ready", "staging", "launch",
                    "running", "capture", "checkpoint", "cleanup", "gone"},
              kind : {"none", "model", "metadata"}, uses : 0..Uses,
              proof : BOOLEAN, staged : BOOLEAN, reserved : BOOLEAN,
              executed : BOOLEAN, settled : BOOLEAN, stopped : BOOLEAN]

IdleScope == [pc |-> "idle", generation |-> 1, seen |-> Absent, closed |-> FALSE,
              native |-> NoNative, poisoned |-> FALSE]
FreshHook == [pc |-> "unbound", kind |-> "none", uses |-> 0, proof |-> FALSE,
              staged |-> FALSE, reserved |-> FALSE, executed |-> FALSE,
              settled |-> TRUE, stopped |-> FALSE]

HooksOf(c)     == {h \in Hook : OwnerOf(h) = c}
Bound(h)       == hook[h].pc # "unbound"
Executing(h)   == hook[h].pc \in {"staging", "launch", "running", "capture",
                                  "checkpoint", "cleanup"}
Poisoned(h)    == scope[OwnerOf(h)].poisoned

(* processes_settled: something was dispatched, nothing is reserved or      *)
(* running, and every execution ended well and was captured.               *)
Settled(h) == hook[h].uses > 0 /\ ~hook[h].reserved /\ ~Executing(h) /\ hook[h].settled

HookGo(h, l) == hook' = [hook EXCEPT ![h].pc = l]
Poison(h)    == scope' = [scope EXCEPT ![OwnerOf(h)].poisoned = TRUE]

At(h, l) == scope[OwnerOf(h)].pc = "open" /\ hook[h].pc = l

-----------------------------------------------------------------------------
(* The scope claims the record: one read, one conditional write. *)

OpenScope(c) ==
    /\ scope[c].pc = "idle"
    /\ IF Claimable(scope[c].generation)
       THEN scope' = [scope EXCEPT ![c].pc = "claiming", ![c].seen = authority]
       ELSE scope' = [scope EXCEPT ![c].pc = "over"]
    /\ UNCHANGED <<authority, newest, box, hook>>

ClaimForScope(c) ==
    /\ scope[c].pc = "claiming"
    /\ LET new == Claimed(scope[c].seen, c)
       IN \E reply \in Reply :
            /\ CompareAndSwap(scope[c].seen, new, reply)
            /\ scope' = IF reply = "acknowledged"
                        THEN [scope EXCEPT ![c].pc = "open", ![c].seen = new,
                                           ![c].native = new.native]
                        ELSE [scope EXCEPT ![c].pc = "over"]
    /\ UNCHANGED <<newest, box, hook>>

-----------------------------------------------------------------------------
(* Binding a hook to its trial's environment. *)

(* Faulty variant of Bind: the other hooks' boxes may still run. *)
BindUnlessPoisoned(h) ==
    /\ At(h, "unbound")
    /\ ~Poisoned(h)
    /\ HookGo(h, "binding")
    /\ UNCHANGED <<authority, newest, box, scope>>

(* Only one hook of a scope may have a box that is not proved stopped.  A  *)
(* refused hook stays unbound and its trial fails.                         *)
Bind(h) ==
    /\ At(h, "unbound")
    /\ ~Poisoned(h)
    /\ \A other \in HooksOf(OwnerOf(h)) \ {h} : Bound(other) => hook[other].stopped
    /\ HookGo(h, "binding")
    /\ UNCHANGED <<authority, newest, box, scope>>

(* capture_consumer pins the box that will have to be proved stopped. *)
CaptureConsumer(h) ==
    /\ At(h, "binding")
    /\ \/ /\ box[h].up
          /\ hook' = [hook EXCEPT ![h].pc = "setup", ![h].proof = TRUE]
          /\ UNCHANGED scope
       \/ HookGo(h, "ready") /\ Poison(h)
    /\ UNCHANGED <<authority, newest, box>>

(* A later step in the same box: the credentials are put there again. *)
Rebind(h) ==
    /\ At(h, "ready")
    /\ ~hook[h].stopped /\ ~Poisoned(h) /\ ~hook[h].staged
    /\ HookGo(h, "setup")
    /\ UNCHANGED <<authority, newest, box, scope>>

(* _restore_credentials, from a bind or at the start of an execution. *)
RestoreCredentials(h) ==
    \/ /\ box[h].up
       /\ Stage(h, scope[OwnerOf(h)].native)
       /\ hook' = [hook EXCEPT ![h].staged = TRUE,
                               ![h].pc = IF @ = "setup" THEN "ready" ELSE "launch"]
       /\ UNCHANGED scope
    \/ /\ HookGo(h, IF hook[h].pc = "setup" THEN "ready" ELSE "capture")
       /\ Poison(h)
       /\ UNCHANGED box

SetUp(h) ==
    /\ At(h, "setup")
    /\ RestoreCredentials(h)
    /\ UNCHANGED <<authority, newest>>

-----------------------------------------------------------------------------
(* A native execution: execute_model, or execute_metadata for a query that *)
(* sends no prompt.  Both run the client on the staged copy, then collect. *)

Available(h) == At(h, "ready") /\ ~hook[h].stopped /\ ~Poisoned(h)

NewDispatch(h) ==
    /\ Available(h)
    /\ ~hook[h].reserved
    /\ hook[h].uses < Uses
    /\ hook' = [hook EXCEPT ![h].reserved = TRUE, ![h].uses = @ + 1]
    /\ UNCHANGED <<authority, newest, box, scope>>

ExecuteModel(h) ==
    /\ Available(h)
    /\ hook[h].reserved
    /\ hook' = [hook EXCEPT ![h].pc = "staging", ![h].kind = "model"]
    /\ UNCHANGED <<authority, newest, box, scope>>

ExecuteMetadata(h) ==
    /\ Available(h)
    /\ hook[h].uses < Uses
    /\ hook' = [hook EXCEPT ![h].pc = "staging", ![h].kind = "metadata",
                            ![h].uses = @ + 1, ![h].executed = TRUE]
    /\ UNCHANGED <<authority, newest, box, scope>>

StageForUse(h) ==
    /\ At(h, "staging")
    /\ IF hook[h].staged
       THEN HookGo(h, "launch") /\ UNCHANGED <<box, scope>>
       ELSE RestoreCredentials(h)
    /\ UNCHANGED <<authority, newest>>

(* The native status check passes and the client starts, or the execution  *)
(* is given up before or while it is started.                              *)
Launch(h) ==
    /\ At(h, "launch")
    /\ \/ /\ box[h].up /\ box[h].copy # NoNative
          /\ Start(h)
          /\ hook' = [hook EXCEPT ![h].pc = "running", ![h].executed = TRUE]
          /\ UNCHANGED scope
       \/ /\ \E started \in BOOLEAN :
                hook' = [hook EXCEPT ![h].pc = "capture", ![h].executed = @ \/ started]
          /\ Poison(h)
          /\ UNCHANGED box
    /\ UNCHANGED <<authority, newest>>

(* Faulty variant of ExecReturns: the exit code is not read. *)
ExecReturnsAnyCode(h) ==
    /\ At(h, "running")
    /\ box[h].exit # "none"
    /\ HookGo(h, "capture")
    /\ UNCHANGED <<authority, newest, box, scope>>

(* The exec returned and the producer's own exit code could be read: only   *)
(* zero proves that a renewal was saved.                                   *)
ExecReturns(h) ==
    /\ At(h, "running")
    /\ box[h].exit # "none"
    /\ HookGo(h, "capture")
    /\ IF box[h].exit = "good" THEN UNCHANGED scope ELSE Poison(h)
    /\ UNCHANGED <<authority, newest, box>>

(* It timed out, was cancelled, or its transport failed: the client may     *)
(* still run.                                                              *)
ExecRaises(h) ==
    /\ At(h, "running")
    /\ HookGo(h, "capture")
    /\ Poison(h)
    /\ UNCHANGED <<authority, newest, box>>

(* The execution is over for its hook; unless everything went well the      *)
(* lineage is poisoned.                                                    *)
BackToReady(h, well) ==
    LET kept == hook[h].kind = "metadata"
    IN hook' = [hook EXCEPT ![h].pc = "ready", ![h].kind = "none",
                            ![h].staged = @ /\ kept, ![h].reserved = @ /\ kept,
                            ![h].settled = @ /\ well /\ ~Poisoned(h)]

EndUse(h, well) ==
    /\ BackToReady(h, well)
    /\ IF well THEN UNCHANGED scope ELSE Poison(h)

(* _capture_native reads the auth file back.  It runs after failures too.   *)
Capture(h) ==
    /\ At(h, "capture")
    /\ \/ /\ box[h].up /\ box[h].copy # NoNative
          /\ scope' = [scope EXCEPT ![OwnerOf(h)].native = box[h].copy]
          /\ HookGo(h, "checkpoint")
       \/ EndUse(h, FALSE)
    /\ UNCHANGED <<authority, newest, box>>

(* SessionClaim.checkpoint: what was collected becomes durable, still       *)
(* claimed.  Without an acknowledgement the claim is never written again.   *)
Checkpoint(h) ==
    LET c   == OwnerOf(h)
        new == Checkpointed(scope[c].seen, scope[c].native)
    IN /\ At(h, "checkpoint")
       /\ \/ /\ ~scope[c].closed
             /\ CompareAndSwap(scope[c].seen, new, "acknowledged")
             /\ scope' = [scope EXCEPT ![c].seen = new]
             /\ HookGo(h, "cleanup")
          \/ /\ ~scope[c].closed
             /\ \E reply \in Reply \ {"acknowledged"} :
                   CompareAndSwap(scope[c].seen, new, reply)
             /\ scope' = [scope EXCEPT ![c].closed = TRUE, ![c].poisoned = TRUE]
             /\ BackToReady(h, FALSE)
          \/ /\ scope[c].closed
             /\ EndUse(h, FALSE)
             /\ UNCHANGED authority
       /\ UNCHANGED <<newest, box>>

(* After a model execution the auth file is removed from the box. *)
CleanUp(h) ==
    /\ At(h, "cleanup")
    /\ \/ /\ box[h].up
          /\ IF hook[h].kind = "model" THEN Stage(h, NoNative) ELSE UNCHANGED box
          /\ EndUse(h, TRUE)
       \/ EndUse(h, FALSE) /\ UNCHANGED box
    /\ UNCHANGED <<authority, newest>>

-----------------------------------------------------------------------------
(* The trial stops its environment: the stop may fail or leave the box      *)
(* running, and only then is the pinned identity asked.                    *)
StopEnvironment(h) ==
    /\ At(h, "ready")
    /\ Destroy(h) \/ UNCHANGED box
    /\ IF hook[h].proof
       THEN \/ /\ hook' = [hook EXCEPT ![h].stopped = ~box'[h].up]
               /\ UNCHANGED scope
            \/ /\ \E known \in BOOLEAN :
                     hook' = [hook EXCEPT ![h].stopped = IF known THEN ~box'[h].up ELSE @]
               /\ Poison(h)
       ELSE UNCHANGED <<hook, scope>>
    /\ UNCHANGED <<authority, newest>>

(* Faulty variant of Safe: holding a copy is enough to release it. *)
SafeOnceStaged(c) == scope[c].native # NoNative

(* The runner returned or raised; _finish_claim decides the claim's end.    *)
Safe(c) ==
    LET used == {h \in HooksOf(c) : Bound(h)}
    IN ~scope[c].poisoned /\ \A h \in used : hook[h].stopped /\ Settled(h)

Finalize(c) ==
    LET seen  == scope[c].seen
        used  == {h \in HooksOf(c) : Bound(h)}
        idle  == \A h \in HooksOf(c) : hook[h].executed = FALSE
    IN /\ scope[c].pc = "open"
       /\ \A h \in HooksOf(c) : hook[h].pc \in {"unbound", "ready"}
       /\ \E completed \in BOOLEAN, reply \in Reply :
             IF scope[c].closed \/ (completed /\ idle /\ used # {})
             THEN UNCHANGED authority
             ELSE IF Safe(c)
             THEN CompareAndSwap(seen, Released(seen, scope[c].native), reply)
             ELSE CompareAndSwap(seen, Preserved(seen, scope[c].native), reply)
       /\ scope' = [scope EXCEPT ![c].pc = "over", ![c].closed = TRUE]
       /\ UNCHANGED <<newest, box, hook>>

(* The process of the run ends: in order after its scope, or at any time,   *)
(* and then whatever runs in the boxes goes on.                            *)
RunEnds(c) ==
    /\ scope[c].pc = "over"
    /\ scope' = [scope EXCEPT ![c].pc = "ended"]
    /\ UNCHANGED <<authority, newest, box, hook>>

RunDies(c) ==
    /\ scope[c].pc \in {"claiming", "open"}
    /\ scope' = [scope EXCEPT ![c].pc = "dead"]
    /\ hook' = [h \in Hook |-> IF OwnerOf(h) = c
                               THEN [FreshHook EXCEPT !.pc = "gone"] ELSE hook[h]]
    /\ UNCHANGED <<authority, newest, box>>

=============================================================================
