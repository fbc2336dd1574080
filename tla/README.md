# A TLA+ verification of tetrabench

tetrabench plans benchmark runs, executes them with Harbor and keeps their
evidence. Four of its parts are protocols between processes that share little but
a record and may die at any step:

- the *detached run*, which executes on Modal under a controller that may be
  retried, replaced, cancelled and recovered by commands on several machines;
- the *custody of a native login*, a chain of single-use refresh tokens that runs,
  command-line sessions and reseeds may use one at a time;
- the *local run*, a Docker run that other commands of the same machine cancel,
  report on and clean up after, and the *run id* it may share with a submission;
- the *calibration attempt*, in which a broker with the provider's key lets an
  agent spend a bounded amount and accounts for it, whatever fails.

This directory models all four in TLA+, checks them with TLC on small instances
and proves with TLAPS, for all instances, every invariant and action property
that the passing runs check. What stays with TLC is liveness. File names without a
directory are in `src/tetrabench/`; the calibration is
`tools/run_authority_fencing_calibration.py`.

## 1. The system

### Parts and how they interact

    submit  --create/observe-->  admission.json (S3)  <--claim, CAS--  controller call
       \---------spawn-------->  Modal FunctionCall ---executes--->  Harbor -> sandboxes
    recover --inspect, CAS, sweep, prepare, spawn-->       |
    cancel  --CAS, stop call, sweep, CAS----------->       +--publish--> terminals/ (S3)

| Part | Code | State it keeps | Operations |
| --- | --- | --- | --- |
| Admission record | `records.py` | one JSON object per run: a history of revisions (number, state, owner call, terminal digest) | validate a revision, validate a successor, build the next one |
| Run store | `s3.py`, `storage.py` | immutable content, request, events, terminals; the one mutable admission object with its etag | create, read, conditional update, publish and observe terminals |
| Detached controller | `controller.py`, `controller_runtime.py` | the Volume's attempt directories; everything else is re-read | reconcile, claim, re-check, drain children, run Harbor, publish, acknowledge, mark failed |
| Submission | `submission.py` | local receipts | publish request, create admission, spawn; respawn for recovery |
| Recovery | `lifecycle.py` | none between commands | inspect owner, settle, enter `recovering`, sweep, prepare, spawn |
| Cancellation | `lifecycle.py` | none between commands | record intent, stop owner, poll, sweep, record `cancelled` |
| Status and result | `lifecycle.py`, `remote.py` | none | classify what the store shows |
| Modal provider | `modal_app.py`, `harbor.py` | FunctionCalls, containers, sandboxes | spawn, inspect, cancel, list and terminate children |
| Receipts, references | `receipts.py`, `run_reference.py` | per run id: a receipt chain or an engine reference, under one lock | admit, append intent, append return |
| Local Docker run | `local_execution.py`, `local_control.py`, `docker_lifecycle.py`, `engines/docker.py` | owner record, cancellation request, "stopped" witness, containers | run, cancel, clean up |
| Credential sessions | `auth_sessions.py`, `auth_recovery.py` | one session object per profile | claim, checkpoint, release, recover |
| Runtime credential handoff | `runtime_auth.py`, `nativeauth_io.py` | the binding of a trial to a claimed session | bind, stage, capture, checkpoint, release |
| Native CLI operations, refresh | `auth_operations.py`, `native_refresh*.py`, `native_control.py` | operation evidence, child processes | start, stop, refresh, report |
| Harbor adapter, harnesses | `harbor_runner.py`, `harbor_api.py`, ... | none | translate a plan, check native results |
| Artifacts, integrity | `artifacts.py`, `integrity.py` | none | bounded copying, digests |
| Planning, catalog, context | `plan.py`, `config.py`, `catalog.py`, ... | configuration files | build and validate a plan |
| Discovery | `discovery*.py`, `capabilities.py` | none | read tools and public metadata |
| Rewards, costs | `rewards.py`, `costs.py` | none | decimal aggregation |
| Command line, engines | `cli.py`, `engines/` | none | dispatch and report |
| Calibration broker and runner | `tools/run_authority_fencing_calibration.py` | spend ledger, request records, `ledger.json`; the attempt record | admit, forward, settle, drain; start, activate, account |
| Admission tools | the other `tools/` | none | run the program, compare what it reports |

The detached run is the first hard part. No process can lock another out;
the only atomic operation is a conditional `PutObject`, and its reply can be
lost. The controller can die at any point and Modal can run the same call again.
Modal may say that a call has finished while its container is still executing.
Every command can be interrupted and run again, and two of them can run at the
same time. Against this the code promises that one controller at a time runs
Harbor, that a visible terminal record is final, that children of a former
owner are gone before a successor starts, that cancellation is never forgotten,
and that repeating a command completes it.

Custody is the second. A native client renews its login whenever it likes, and
from then on every other copy is spent. The client runs in a sandbox that may
vanish, under an `exec` that may time out while the client goes on, and its
renewal reaches the record only by reading a file back and writing the record
conditionally, with no retry of a lost reply. One wrong release puts a spent
token back into use and locks the user out. So the code releases a login only
when everything went well, and otherwise leaves it claimed until a person logs in
again and the old consumer is proved to be gone.

In the local run the commands meet in files and in one `flock`. The lock of a
killed owner is free although the Compose clients it started may go on, and the
daemon may go on creating a container for a client that is dead. So a free lock
proves nothing about containers: the code trusts only a witness that the owner
wrote after an orderly end, or a second look at the containers. A request to
cancel is a file that the owner's event loop polls, next to Ctrl-C.

In a calibration attempt the runner knows about its broker only from a file that
the broker rewrites, and speaks to it only through a pipe, whose end also says
that the runner is gone. Money is at stake: a request that was forwarded must be
in the account of the attempt, although its price may never arrive, the broker
may be killed and the runner may give up in any phase.

### What makes each part correct

- *Record*: only listed transitions; the owner never changes except through
  `prepared`; terminal exactly with a digest.
- *Store*: of several writers that read the same revision one wins, and a writer
  that cannot tell whether it won behaves safely either way.
- *Controller*: executes only as the owner of a running admission; publishes
  proof before it acknowledges it; cannot overwrite cancellation with failure.
- *Recovery*: takes a run only from a finished owner without proof; leaves no
  stale children; prepares once per takeover; is resumable.
- *Cancellation*: records `cancelled` only over a stopped owner; is resumable.
- *Credential record*: one consumer at a time; a claim ends only by its owner's
  own write or by a new login over a consumer that is proved stopped; the stored
  turn of a login never decreases.
- *Runtime handoff, CLI sessions*: one client at a time on a login; a login is
  released only with its newest turn and when no client of it can still run.
- *Receipts, references*: one family of records per run id; evidence of a spawn is
  written before it and never lost.
- *Local run*: a cancellation reaches the owner; a cleanup reported complete is,
  and stays so; no container is removed while Harbor works.
- *Calibration*: no more is granted than the attempt's share; what is stated as
  spent covers what the provider took; nothing is forwarded after a drain that
  was seen; an orphaned broker ends.

`PROJECT.json` lists each hazard at its line with the property that covers it,
or the reason why none does yet.

## 2. The modules

| Module | Models | State |
| --- | --- | --- |
| `RunRecords` | `records.py`: `Allowed`, `ValidRevision`, `ValidStep`, `NextRevision` | constant level |
| `RunState` | `s3.py` and child observation: conditional update, terminal observation, one sweep; the loops every process uses | all variables |
| `Controller` | `ControllerAdmissionService`, `ControllerRuntime`, one call and its container; Modal's part | - |
| `Submission` | `SubmissionService.submit` and the shared `Spawn` | - |
| `Recovery` | `RecoveryService.recover`, `_finish_recovery`, `_terminal_result` | - |
| `Cancellation` | `CancellationService.cancel`, `_finish_running_cancellation` | - |
| `DetachedRun` | the composition, its properties and fairness | - |
| `RunOwnership` | the abstract promise: who holds the run, who proved it, is it stopping | `holder`, `proof`, `stage` |
| `AdmissionInvariant`, `OwnershipInvariant` | the inductive invariants and the edges of the protocol | - |
| `MCDetachedRun`, `MCCredentialCustody` | symmetry sets, and one state constraint, for TLC | - |
| `DetachedRunProofs`, `AdmissionLemmas`, `AdmissionProofs`, `OwnershipProofs` | the proofs | - |
| `CredentialAuthority` | `auth_sessions.py`: the session record and its conditional write; the provider and the native clients | `authority`, `newest`, `box` |
| `RuntimeCredentials` | `runtime_auth.py`: `RuntimeAuthScope`, `RuntimeAuthHook` | `scope`, `hook` |
| `CliCredentials` | `auth_session`, logout, metadata, refresh, and the evidence of a CLI operation | `cli`, `operation` |
| `CredentialSeeding` | login and reseed, the proofs that a former consumer stopped | `seeder` |
| `CredentialCustody` | the composition and its properties | - |
| `CustodyInvariant`, `CustodyProofs` | the inductive invariant of custody, the proofs | - |
| `RunNamespace` | `run_reference.py`, `receipts.py`, and `submission.py` around them: one run id on one machine | `held`, `reference`, `receipt`, `admitted`, `claimed`, `spawned`, `namer` |
| `LocalRun` | `local_execution.py`, `local_control.py`, `docker_lifecycle.py`, `engines/docker.py`; EXTENDS `RunNamespace`, on which an attached launch and submissions meet | `owner`, `lock`, `files`, `execution`, `result`, `client`, `containers`, `command`, `turn` |
| `LocalProofs`, `NamespaceProofs` | the proofs about a local run and about its run id | - |
| `SpendLedger` | class `SpendLedger` | `cost`, `reserved`, `reservations`, `fatal` |
| `CalibrationBroker` | `BrokerState`, `do_POST`, `_broker_child_main` | `gate`, `stage`, `records`, `file`, ... |
| `CalibrationRun` | `_run_attempt`, `DockerBrokerSidecar`, the end of `main`; the composition, its properties and fairness | `pc`, `started`, `confirmed`, `drained`, `document`, `account` |
| `CalibrationInvariant`, `CalibrationProofs` | the inductive invariant of an attempt, the proofs | - |

### State of the detached run

- `admission`: the last revision stored at `runs/<id>/admission.json`
  (`Missing` before it exists). The retained history is left out because
  `update_admission` accepts only records that extend the history of the one
  read: a valid history is a valid sequence of steps. Revision numbers never
  repeat for a run, so a revision number stands for the etag (`EtagMatches`).
- `terminals`: the terminal records a reader sees. A controller call publishes
  at most one, so its call id is its digest.
- `call`: what Modal says about each FunctionCall; `stopping` is a call that
  somebody asked Modal to stop.
- `sandboxes`, `attempts`: calls with Harbor children, and with an attempt
  directory on the Volume.
- `pc`, `mem`: where each process is, and its locals: the admission it read
  last, loop counters, what it established, the proof it is acting on.

### Steps of the detached run

An action is one call to S3 or Modal with the local decisions up to the next
one: these are the points where other processes get in between. A local check
that reads nothing new is never a step of its own. `Cas` has three outcomes:
applied and reported, applied but reported as a conflict (the boto3 client
repeats a request whose reply was lost, and the repetition finds another etag;
`s3.py:266-274` configures the client with its default retries), and not
applied. `SweepStep` terminates any subset of the listed children, because a
termination may fail or time out; only two consecutive empty observations count
(`harbor.py:239-291` in its callers' loops).

`ContainerDies` and `ControllerRaises` can strike a controller at every step,
`OperatorFails` a command at every step. `Replay` runs a lost call again while
nobody stopped it. `CallFinishes` is Modal's classification; it may come at any
time, because a timeout, an operator or the end of the function causes it.

### StopModel: when Modal says "finished"

IMPLEMENTATION_PLAN.md:533 (D-052) records that forced termination can outlive
the terminal classification of a call, and that the 30-second settling wait of
recovery "is not itself a safety proof". The constant `StopModel` makes this
assumption explicit:

- `settled`: a finished call may execute on, but no longer than the settling wait
  of recovery (the guard `SettledDown` of `Settle`);
- `lingering`: it may execute on without bound.

There is no model in which it stops at once, since D-052 reports that it may not.

Which property holds under which assumption is one of the results:

| Property | settled | lingering |
| --- | --- | --- |
| `AcknowledgedIsVisible`, `CancelledMeansStopped`, `CancellationIntentKept`, `OwnershipNeverStolen`, `AdmissionEdges` | yes (proved) | yes (proved) |
| `OnlyOwnerEngaged`, `ProofIsFinal`, `NoStaleSandbox`, `ImplementsOwnership` | yes (proved) | no: these rest on the settling wait |
| `CancelledLeavesNothing` | no: cancellation does not wait (`v_cancelled`) | no |

What `cancelled` does guarantee is that its owner is finished for Modal
(`CancelledMeansStopped`, under both) and that a sandbox it leaves behind is one
of that owner (`NoStaleSandbox`, under `settled`).

### Custody: state

- `newest`: the provider's current turn of each login. It exists nowhere in the
  code, and every property that matters is about it.
- `authority`: the session record. Its native login is the pair (which login
  command made it, which turn of the chain). The version a conditional write
  compares is the whole record: an S3 etag is a digest of the content, and the
  local store's uuid is stronger, since it never repeats.
- `box`: a trial's sandbox or the private directory of a CLI session. `copy` is
  its auth file, `held` what a running client has in memory, `exit` how the last
  client ended.
- `scope`, `hook`: the locals of `RuntimeAuthScope` and `RuntimeAuthHook`. `seen`
  is the record the `SessionClaim` believes is stored; `closed`, `poisoned`,
  `stopped`, `staged`, `reserved`, `settled` are the code's own flags.
- `cli`, `operation`: the locals of one session, and its `CliLifetime` record,
  which survives it.

### Custody: steps

A hook takes one step per await of the provider, and the hooks of a scope
interleave there; a CLI session and a login command take one step per call to
the store or to a native child. `CompareAndSwap` has three replies:
acknowledged, refused, and ambiguous with either outcome. It is never repeated.
The provider's side is `Rotate`, `Persist`, `ClientEnds` and `BoxDies`, each
enabled whenever a client runs or a box is up, including after its run or session
died. `RunDies` and the second disjunct of `CliEnds` strike at every step.

### The local run: state and steps

`files` are the records of the output directory: the control record of the
owner, the binding, the witness "stopped", the cancellation request and the
owner's note that it observed it. `lock` is the holder of `execution.lock`,
`turn` the lock that cancels take in turn, `held` the lock of the run id. A step
of a command is one read or write of a file, one probe of the lock or one Docker
command, so that everything a report says is put together from answers of
different moments. A probe takes the lock for an instant, and a cleanup holds
it: a status command in its cleanup can look like a live owner to a cancel, as
`owner_active` and `cleanup_containers` take the same lock.

`client` is the Compose client of Harbor. "pending" means that the client is
gone and the daemon may still create a container for it. This happens only after
the owner was killed (`docker_lifecycle.py:65`): Harbor waits for the commands it
started. The owner's flags die with it. `OwnerDies`, `CommandFails` and the
leaving of a submission (`NamerLeaves`) strike at every step; a damaged file
stays damaged.

### The calibration attempt: state and steps

A request goes through `stage`: admitted, sent or refused, settled, retained or
released, recorded; "stuck" is a request whose evidence could not be written
before it was sent, which keeps its reservation. `owes` holds the threads that
are about to write `ledger.json`. A snapshot takes two steps, since `cost` and
`reserved` are read one after the other under the ledger's own lock
(`write_evidence`, line 803), while other threads settle; replacing the file is
atomic, and so part of the second step. Reading the file is one step of the
runner. `charge` is what the provider takes for a request, fixed when it is sent
and known to the broker only if the price arrives. `expired` stands for the
attempt's deadline and for the heartbeat lease, which the code compares in one
place. `basis` is history: what had been sent when the runner read the ledger
document it accounts from.

The agent sends requests only while its container exists, since the body of a
request comes over its connection. A process that is killed loses its memory and
leaves the file (`Killed`). Each phase of the runner may fail at any moment, by
timeout or error, without a bound; at most `FaultCap` times per attempt Docker
fails to remove something, a write fails or the broker crashes.

## 3. What the runs check

### The detached run

Bounds: at most two calls (owner and successor), one submitter, two operators
at a time, `SweepLimit` 2 or 3 (5 in the code), `RecoverTries` 2 (5),
`CancelTries` 1 or 2 (3), `CasTries` 1 or 2 (3). Two calls suffice for a deposed
owner and its successor to meet; a third would only repeat the second handoff.
The smallest sweep limit that can succeed is 2; with 3 a loop also sees a
non-empty listing after an empty one. A retry bound of 2 has a first, a repeated
and an exhausted round. Commands may be repeated without bound, except submit: a
command submits once, because the next one chooses a fresh run id. Revisions
need no bound: each handoff uses up a spawned call, and the calls are finitely
many. Deadlock is checked; operators can always start again.

| Run | Actors | What it shows |
| --- | --- | --- |
| `recovery` | owner, successor, two recoverers; settled | no double execution, one proof, no stale sandbox, ownership never stolen, and each step implements a step of `RunOwnership`, when two recoveries race and one may be arbitrarily delayed |
| `mixed` | canceller, recoverer, two calls; settled | cancellation against recovery; also the inductive invariants of the proofs |
| `cancellers` | two cancellers, one call; lingering | cancelled is honest, intent is kept, and recorded intent reaches cancelled or a proof, although stopped containers execute on |
| `recover_live` | recoverer, two calls; settled | a run whose owner stopped without proof becomes prepared again |
| `v_prepared`, `v_cancelled`, `v_cleanup`, `v_spares` | settled | disagreements of section 5 |

The properties, in words:

- `OnlyOwnerEngaged`: between claim and publication there is only the call that
  the admission names, and never while the run is prepared or recovering.
- `ProofIsFinal`: never two terminal records, and never a proved run in
  `prepared` or `recovering`.
- `NoStaleSandbox`: sandboxes belong to the present owner; recovery sweeps
  before it clears the owner.
- `CancelledMeansStopped`: what `cancelled` says of the owner.
- `AcknowledgedIsVisible`: a terminal admission names a record that exists.
- `CancellationIntentKept`, `OwnershipNeverStolen`, `AdmissionEdges`: what no
  write may do to the admission, judged by the state at the moment of the write
  and not by what its writer read.
- `KnowledgeHolds`: what each process may rely on after others went on.
- `OwnershipHolds`: what a recoverer may rely on between its waits and sweeps and
  the write they justify.
- `ImplementsOwnership`: refinement of `RunOwnership`, which has no recovery,
  no retries and no records: a run is held, released, proved once by its
  holder, stopped and closed.
- `CancellationCompletes`, `StoppedRunRecovers`: repeating a command ends it.

### Custody

Bounds: every run has two login commands, so that a login is followed by one
reseed, and a reseed can overtake or be overtaken by a claim. `MaxTurn` 1 tells a
spent turn from a current one, 2 lets two trials each renew. `Uses` 1: a hook executes natively once, and its flags are reset after
each use. A run or session claims once, as the
code's do. One of each suffices for two consumers, because all consumers meet
only at the record, whose rules do not tell them apart.

The run `custody` has one run with two trials, one CLI session of any kind and
two login commands. The constraint `OneRivalOfTheTrial` (`MCCredentialCustody`)
keeps it small: either the session does not start, and both trials may take part
with up to two renewals per login, or one trial meets the session, with one
renewal per login. Without it the same questions would be asked of two trials
*and* a session at once, which adds no new pair of consumers. Trials and logins
are symmetric. Deadlock is not
checked: every actor stops when its work is done, and a claim that was left in
doubt stays claimed on purpose until somebody logs in again. For the same reason
there is no liveness property: nothing has to end a claim.

| Run | Actors | What it shows |
| --- | --- | --- |
| `custody` | two trials of one run, without a session | the trials hand the login from one to the other, in order, and only a clean end releases it |
| | one trial of the run, one session, reseeds | a run against logout, metadata collection or renewal: two consumers never use a login together, and a session's evidence decides what a reseed may replace |

- `ReleasedIsNewest`: a ready record holds the provider's current turn. No
  failure, lost reply or crash puts a spent token back into use.
- `ReleasedIsIdle`: no client of a ready login still runs, which would spend it
  later.
- `OneClient`: two clients never run on the same login, across hooks, runs, CLI
  sessions and generations.
- `LineageNeverGoesBack`: generations grow, and within one the stored turn does
  not decrease.
- `NoTakeover`: a claim ends by its owner, or by a new generation when none of
  the owner's clients runs any more.
- `TypeOK`: includes what `SessionState.decode` accepts.

### The local run

Run `local`: the owner of an attached launch, one cancel and one status command,
each repeated at will, one submission and one recovery on the same run id, one
container; the owner may be killed or interrupted at any step. Bounds:
`AttemptCap` 2 attempts in the receipt, so that an attempt is appended to one
that awaits its return. One cancel suffices because cancels exclude each other by
`turn`, and because cancel and status already are two commands that clean up; one
container suffices because containers are listed and removed without regard to
each other, and a second appears as the first created again. A second request of
the engine Modal would meet the first exactly as the Docker request does.
Deadlock is not checked: commands end.

- `OneFamily`: a readable reference and a readable receipt of a run id name the
  same request, whoever wrote them.
- `SpawnLeavesEvidence`, `EvidenceGrows`: every spawn of a submission has an
  attempt in the receipt, wherever the command died; attempts and calls are never
  lost or reassigned.
- `NoRemovalWhileWorking`: no command removes a container while Harbor works or
  tears down.
- `CompleteIsFinal`: a cleanup reported complete is: nothing of the run exists
  and nothing can appear.
- `CancelledIsFinal`: a run reported cancelled has no native result, now or
  later, and no container.
- `RequestStopsOwner`: a published request stops the owner.
- `ContainersReclaimed`: repeating cancel removes what a dead owner left. Its
  hypothesis `Calm` (from some time on no status command and no failing command)
  is needed: a status that is repeated for ever may hold the lock whenever the
  cancel asks for it, and the code has no queue there.

### The calibration attempt

Run `calibration`: one attempt with two requests that may be in flight together
(`MaxRequests` 2; `MaxConcurrency` 2, as in the code, whose 64 requests would meet
the same rules, which look at other requests only through the sums), a worst case
of 2, an allocation of 3 that covers one request and a settled other one, prices 1
and 3 below and above the reservation, and `FaultCap` 1. With two requests one
settles while the snapshot of the other is read, and a reservation is refused
that would have fitted without the other. Deadlock is not checked: an attempt
ends.

- `LedgerCovers`: cost and reservations stay within the allocation and cover what
  the provider took.
- `FileCovers`: so does every `ledger.json` with a record for each request it
  counts, torn snapshots included.
- `AccountCovers`: the exposure a finished attempt states is no less than what
  was taken for everything sent before its document was read, and for
  everything when the broker was drained or gone by then.
- `DrainIsFinal`: after the runner has seen the drain nothing is forwarded.
- `BrokerEnds`: a broker without a parent ends.
- `v_spend` is the disagreement of section 5.

Payment properties assume that no price is above its reservation (`Bounded`): such
a price makes the ledger fatal and enters no sum (line 687), so nothing covers it;
the code relies on the worst case computed from the request's body. The command's
successful end does not drain the broker, so that its document speaks only for
what was sent before it.

### Fairness

The `Spec` of the detached run and of custody have none; the safety runs use
them. The local run assumes that a running owner goes on, except that nothing
makes Harbor finish its work; that a teardown ends, and so do the clients of a
dead owner; that a cancel is repeated and proceeds, and that a command that
reports proceeds. The calibration assumes one thing: as long as a thread of the
broker can go on by itself, one does (`Fairness`, weak). Neither the provider's
answers nor the lease, the deadline or the runner need to help.

The liveness runs of the detached run assume, each for
the reason given:

- `ModalStops`: a call that was asked to stop is eventually classified as
  finished, and the container of a finished call ends. This is what
  `FunctionCall.cancel(terminate_containers=True)` is for.
- `PersistentCanceller` / `PersistentRecoverer`: operators rerun the command
  until it is done, which is what its messages tell them to do, and the command
  proceeds (`WF` on its steps). The controller gets no fairness: it may die and
  never come back.
- `SF` on three answers: a canceller that polls again and again sometimes sees a
  stopped owner, a recoverer that inspects again and again sometimes gets an
  answer, and repeated sweeps sometimes terminate everything listed. Each
  single poll, inspection and sweep may fail.
- `Uninterrupted`: from some time on commands are no longer interrupted.
  Interruptions before that are unrestricted, so the properties say that nothing
  an interrupted command leaves behind prevents completion. A command that gives
  up by itself is not interrupted (`Interrupted` tells the two apart) and may do
  so for ever.

## 4. What is proved

Every theorem is about `Spec` and holds for every value of the constants that the
named assumptions allow. TLC evaluates these assumptions in every run.

| Theorem | Statement |
| --- | --- |
| *Detached run, both stop models* | |
| `TypesAlwaysHold` | `Spec => []TypeOK` |
| `KnowledgeAlwaysHolds` | `Spec => []KnowledgeHolds` |
| `AdmissionFollowsEdges` | `Spec => AdmissionEdges` |
| `AcknowledgedProofIsVisible` | `Spec => []AcknowledgedIsVisible` |
| `CancelledIsStopped` | `Spec => []CancelledMeansStopped` |
| `IntentIsKept` | `Spec => CancellationIntentKept` |
| `OwnershipIsNeverStolen` | `Spec => OwnershipNeverStolen` |
| *Detached run, `settled`* | |
| `OwnershipAlwaysHolds` | `Spec => []OwnershipHolds` |
| `OnlyTheOwnerIsEngaged` | `Spec => []OnlyOwnerEngaged` |
| `ProofIsAlwaysFinal` | `Spec => []ProofIsFinal` |
| `SandboxesAreTheOwners` | `Spec => []NoStaleSandbox` |
| `RunsAreOwned` | `Spec => ImplementsOwnership` |
| *Custody* | |
| `CustodyTypes` | `Spec => []TypeOK` |
| `CustodyAlwaysHolds` | `Spec => []CustodyHolds` |
| `ReleasedIsAlwaysNewest` | `Spec => []ReleasedIsNewest` |
| `ReleasedIsAlwaysIdle` | `Spec => []ReleasedIsIdle` |
| `OneClientAtATime` | `Spec => []OneClient` |
| `LineageIsMonotone` | `Spec => LineageNeverGoesBack` |
| `ClaimsAreNotTakenOver` | `Spec => NoTakeover` |
| *Local run and run id* | |
| `LocalTypes` | `Spec => []TypeOK` |
| `CleanedStaysClean` | `Spec => []CompleteIsFinal` |
| `CancelledStaysCancelled` | `Spec => []CancelledIsFinal` |
| `RemovalWaitsForHarbor` | `Spec => NoRemovalWhileWorking` |
| `IdHasOneFamily` | `Spec => []OneFamily` |
| `SpawnsAreAttested` | `Spec => []SpawnLeavesEvidence` |
| `ReceiptsGrow` | `Spec => EvidenceGrows` |
| *Calibration* | |
| `CalibrationAlwaysHolds` | `Spec => []CalibrationSound` |
| `CalibrationTypes` | `Spec => []TypeOK` |
| `AllocationIsNeverExceeded` | `Spec => []WithinAllocation` |
| `LedgerAlwaysCovers` | `Spec => []LedgerCovers` |
| `FileAlwaysCovers` | `Spec => []FileCovers` |
| `AccountAlwaysCovers` | `Spec => []AccountCovers` |
| `DrainEndsSpending` | `Spec => DrainIsFinal` |

**What a process knows (`AdmissionProofs`).** The theorems hold for every set of
calls, submitters, recoverers and cancellers (finite or not), every loop bound
and both stop models, from `NoCallAssumption`, `LimitAssumption` and
`ProcAssumption` (the kinds of processes are disjoint, the bounds positive). None
of the safety properties is inductive: a process writes on the strength of a read
made earlier, so a proof has to say what is still true of that read.
`KnowledgeHolds` does:

1. *Snapshots.* The record a process holds is a valid one, not newer than the
   stored one, and equal to it if the revision is the same (`Coherent`).
2. *Answers that stay true.* An owner that recovery or cancellation has seen
   finished is still finished, since Modal never reclassifies; a proof carried
   to the acknowledgement is still visible.
3. *Intent.* While a canceller is finishing, the admission is exactly the
   `cancelling` record it holds, or has moved on to `cancelled` or `terminal`:
   nobody else can leave `cancelling`. This is what lets `cancelled` be written
   after a fresh read.
4. *The run.* A recovering or cancelled admission with an owner has a finished
   owner; a run that nobody ever claimed has no proof, no sandbox and no call
   past its claim.

From (1) and (2) each conditional write that succeeds takes one of nine edges
(`Created` ... `Proved`) whose conditions hold *now*: `AdmissionEdges`. The
preservation proof then splits once. `Calm` steps leave the shared state alone
or change it along an edge, and leave alive what other processes know
(`CalmStay`, `CalmRun`, `CalmCall`); so each action needs only its own process's
knowledge afterwards (`OwnStep`). The remaining steps (a call is spawned,
stopped or finishes, a terminal is put, sandboxes change) are treated one by
one. `DetachedRunProofs` has one type lemma per process kind, `AdmissionLemmas`
the facts about edges and calm steps, `AdmissionProofs` one lemma per group of
actions and the theorems.

**One owner (`OwnershipProofs`).** What a finished owner's container still does is
an assumption about Modal, so these theorems name it: `StopModel # "lingering"`,
that is, `settled`. Under `lingering` TLC violates them. The argument
is the code's own: whoever takes a run over waited (`SettledDown`) until the owner
was *dead*, finished and gone, and looked for a proof afterwards. `OwnershipHolds`
carries this from the look to the write. `TakeoverSound`: at the write to
`recovering` the owner is dead, and if the etag still matches there is no proof,
because only the dead owner could have added one. `SweepSound`: from the last of
the empty sweeps to the write of `prepared` there are no sandboxes as long as the
same revision is stored, because sandboxes are only started by an engaged call,
and the only one is dead. Together with `OnlyOwnerEngaged`, `ProofIsOwners` and
`NoStaleSandbox` this is inductive relative to `KnowledgeHolds`. There is no such
argument for cancellation, which does not wait: its empty sweeps need not be true
any more when it writes (`v_cancelled`).

The sixty actions are not treated against each of these parts. `Deed` says what
a step of any process may do: who adds a proof or a sandbox and from where
(`Adds`), which writes rest on which place of their writer (`Writes`), from where
a process comes to hold a right (`CallTurns`, `RecovererTurns`), what Modal never
takes back (`Finishes`). One lemma per actor
shows that its steps are deeds, and the invariants are derived from deeds alone.
The refinement follows: a deed that changes owner or state of the admission took
an edge, each edge maps to `Acquire`, `Release`, `RequestStop`, `Close` or nothing
of `RunOwnership`, and a published terminal to `Prove`, whose guard the
invariants give.

**Custody (`CustodyProofs`).** The theorems hold for every set of runs, trials,
sessions and login commands, every `MaxTurn` and every number of native uses
(`UsesAssumption`; `CustodyAssumption`: runs and sessions are different, and none
is called "nobody", which stands for a record without an owner). `CustodyHolds`
says that *whoever owns the record knows where the newest turn is*: an open scope
that is not poisoned holds it, except while a hook is inside an execution, when
the running client or, after a good exit, the copy in the box does (`ScopeSound`,
`HookSound`); a session that is not in doubt has it in its private directory once
its child has ended (`CliSound`). Renewals
happen only in the box of the owner (`BoxSound`), hence a release, which is
written only from these good states, is of the newest turn. `poisoned`, `closed`
and `ambiguous` appear in the invariant just as in the code: they are the
cases in which the knowledge is lost and the claim is therefore kept. `HooksApart`
is what lets two hooks of a scope use one login: one of the two has a box that is
proved stopped. `SeederSound` carries a proof of a stopped consumer to the write
that replaces it (`StopsStay`: a stopped consumer never starts again).
`OneClient` needs one more invariant, `OneActive`: a client starts only when all
boxes are idle (`StartsAlone`). `RecordSteps` sorts every step by what it does to
the record, from which the two action properties follow.

**The local run (`LocalProofs`).** The theorems hold for every set of cancel and
status commands and of containers, and for whatever competes for the run id
(`LocalAssumption`, `NamespaceAssumption`: the kinds of processes are disjoint).
`LocalSound` is inductive and has three parts beside the types. `LockSound`: until
it unwinds the owner has the lock, and a command in its cleanup has it, so
no command removes while Harbor is active. `WitnessSound`: the witness is written
after Harbor, and only a killed owner leaves a request pending at the daemon.
`CommandSound` says, for the locals of each command, what its steps have
established: a cleanup that read the witness under the lock and saw no client has
none now, after its first empty inventory nothing can appear (`Empty`), and a
cancel that found no result after such a cleanup is not overtaken by one, because
the owner has ended. A step of one command is judged by its own locals
(`OwnLocalsSuffice`), a step of the owner, Harbor or Docker by the few facts of
`OwnerMoves` that keep `Empty`; each action is then brought under one of the two.

**The run id (`NamespaceProofs`).** `NamespaceSound` adds to `OneFamily` what a
command remembers: the receipt it has read names calls that were made, and a
submission that is about to spawn, or has spawned, finds its attempt in the
receipt unless the file is damaged (`Attested`). The second part survives the
writes of others because every write is checked to be append-only
(`AppendGrows`): the same fact (`ReceiptMoves`) is the action property. Receipts
of any length are covered; `AttemptCap` bounds only what TLC explores.

**The calibration (`CalibrationProofs`).** The theorems hold for every number of
requests, every set of worst cases and prices and every number of faults
(`LedgerAssumption`, `BrokerAssumption`). `LedgerSound` adds to `WithinAllocation`
that reservations and prices are natural numbers: a reservation then leaves the
sum whole, or is replaced by a price only after the new sum was compared with the
allocation. `DrainSound` follows what the runner saw back to the broker: its
`drained` and the file's `draining` imply that the broker drains or is gone, a
draining broker is inactive and was activated before, and so cannot be activated
again; and there is no second broker, because the first one starts from
`pc = "start"`, to which no step returns.

That the account covers what the provider took is proved in four links.

1. *Books* (`BooksSound`). `cost` is exactly the sum of the prices paid and
   `reserved` exactly the sum of the reservations; a request that was forwarded
   still has its reservation or its price is in the first sum.
2. *Snapshots* (`SnapshotSound`). `cost` is read before `reserved`, and meanwhile
   others settle, which moves money out of the second sum and into the first.
   What was read of `cost` covers the requests that have a record and no
   reservation *now*, since a record is written after its money was settled, and
   is only written while no snapshot is taken.
3. *File* (`FileSound`). So `ledger.json` covers the requests it has records of.
   Requests are counted in it before they are sent, so that a complete file has
   a record of everything that was forwarded.
4. *Basis* (`BasisSound`, `AccountSound`). The document of the runner keeps what
   the file said; nothing is added to what was sent when the broker was drained
   or gone (`NoMore`). An attempt without a document states its whole
   allocation, which the books bound from above even when the broker is dead
   (`SpendSound`), and one that never marked its activation sent nothing
   (`UnstartedSound`).

Sums over requests are the one place where data is recursive: `Total` sums over
ordinals 1 to `MaxRequests`. Its laws (`TotalReplaced`, `TotalGrows`,
`TotalsCover`, ...) are proved without an induction theorem that takes a
predicate: the ordinals that violate a law form a *set*, a nonempty one has a
smallest member by well-foundedness (`UpToTheLast`), and the member before it
gives the contradiction. The payment theorems keep the hypothesis `Bounded`, which
is part of the properties (section 3).

Each inductive invariant was checked by TLC before it was proved: `KnowledgeHolds`
and `OwnershipHolds` are invariants of the run `mixed`; the others hold on the
instances of `recovery`, `custody`, `local` and `calibration`, and are not repeated in those runs because the theorems subsume
them.

**Only model-checked.** The liveness properties, `CancellationCompletes`,
`StoppedRunRecovers`, `RequestStopsOwner`, `ContainersReclaimed` and `BrokerEnds`:
fairness and `ENABLED` are beyond the prover. The five runs that show a
disagreement (section 5) are counterexamples and need no proof.

## 5. Where the code and its documentation disagree

- `v_prepared`: a run that recovery returned to `prepared` cannot be cancelled.
  `records.py:170` excuses an unowned `cancelled` revision only as revision 1, so
  the write raises. docs/cli-reference.md:1146 says "For Modal, prepared work
  advances directly to cancelled."
- `v_cancelled`: cancellation takes the terminal classification of the owner's call
  for the end of its container (`lifecycle.py:817-825`) and sweeps without the
  settling window that recovery waits at line 460. IMPLEMENTATION_PLAN.md:533
  (D-052) says "Forced owner termination can outlive the FunctionCall's terminal
  classification", so the container can start a sandbox after the two empty sweeps,
  and `cancelled` is written while it runs. IMPLEMENTATION_PLAN.md:522 (D-042)
  says that a cancellation "advances to cancelled only after the call is terminal
  and cleanup is complete", and line 530 (D-049) gives as evidence "terminal call
  evidence and two empty child sweeps". The trace is one of the `settled` model:
  the container is slow, but within the window. A repeated `cancel`
  finds the run cancelled and returns without a sweep (line 745).
- `v_cleanup`: with a visible terminal, `cancel` reports its cleanup complete
  without looking at a sandbox (`lifecycle.py:701-709`); docs/cli-reference.md:1159
  says "Cancellation and recovery exit `3` when cleanup is incomplete."
- `v_spares`: a delayed recovery goes on sweeping a run that a faster one has
  already handed to a successor, and terminates the successor's sandboxes, since
  the admission is compared only after the sweeps (`lifecycle.py:490-528`).
  docs/cli-reference.md:1154 says recovery "sweeps stale children".
- `v_spend`: after a command that ended well the runner reads the ledger without a
  drain, so it may count a request that is still in flight; the check that
  rejects such a document (`_ledger_spend_evidence`, line 5735) then raises after
  the handler that would fall back to the allocation, and `main` marks the attempt
  failed with the zero exposure it was created with. NOTES.md:1134 says "failure
  evidence retains the full allocation as conservative unknown exposure."

## 6. What is abstracted and what is not modelled

In the modelled parts: the contents of requests, events, artifacts and records
(fixed for a run, immutable and content addressed); event publication and
failure evidence, which coordination never reads; receipts and the local lock
around submit and recover (leaving out the lock admits more interleavings);
`GetBucketLocation` and other preflights (a raised one is an interrupted
command); clocks (`records.py:233` refuses a timestamp that moves backwards,
which is a raised write here); the 1 MiB bound on the admission object; the
listing of sandboxes, modelled as exact at the time of each sweep. Reads of S3
are modelled as strongly consistent, which D-053 requires of the bucket.
`SubmissionService.recover` has no caller in the source and is left out.

In custody:

- *Refusals.* Owner, mode and symlink checks of files, bucket policy checks,
  malformed records and mismatched references raise before anything is written;
  a step that may raise has that outcome without its reasons.
- *Native clients.* The status query does not renew a login, which
  docs/cli-reference.md:494 promises. A client that exits with 0 has its renewal
  on disk, and nothing of it survives. These are the assumptions the code makes
  about programs it does not contain.
- *Store.* A conditional write takes effect at its call or never, not later.
- *Stop proofs.* `prove_previous_consumer_stopped` reads processes, operations,
  calls and sandboxes one after the other; here it is one step.
- *Trials.* A trial does not stop its environment while its own hook executes.
- *Keys.* Only sessions of native logins are modelled; an API key has no turns.
- `NativeRuntime.handoff` has no caller in the source, and the retention
  scan (`auth_retention.py`) decides about files that no consumer uses: both are
  left out, as are the inner steps of `native_refresh*.py` that watch one child.

In the local run:

- *Harbor* is external: it works, finishes, fails or is cancelled, starts and ends
  Compose clients, and writes its result at its end. The pinned environment of
  `docker_environment.py` is part of it.
- Three outcomes that no property depends on are left out: Harbor that swallows a
  cancellation and finishes, an interrupt between the recording of the outcome and
  the return of the command, and an owner that finds the lock busy because a
  status or a cancel probes it at that instant.
- Paths, inode identities and owner checks are refusals of the same calls.
- An attached run that is cancelled before its binding is published never has its
  cleanup proved: `cancel` keeps reporting that it is cancelling.
- Receipts of older releases, which have no reference, are initial states. A
  damaged reference to an attached run only hides the run, and is left out.

In the calibration:

- *Requests*: authorization is by the token of the attempt; the lock on the first
  endpoint, size limits and the worker limit are further refusals of `Admit`.
- *Prices*: the parsing of streamed answers and the polling of the provider's
  record are the choice between `Price` and `Retain`. The second release of the
  semaphore after an overrun is left out, because the ledger is fatal by then.
- A broker starts without prior exposure (`_broker_child_main`); the exposure of
  earlier calibrations is taken from the budget before it is split.
- A write that fails in the broker's main thread only loses that write. A failed
  cleanup can leave the broker running until the final sweep.
- The attempts of a calibration run one after the other, and each has its own
  broker and share: one attempt is modelled.

Not modelled, in the order of the plan, or not at all:

1. `RunPublication`: content, request, events and terminals as separate objects,
   with the bounded listing and its conflict reasons; status and result as
   operators over the same state, checked against a reference definition.
2. Rewards and costs as operators.
3. Proofs, for what is added above; and abstract specifications of custody (who
   holds a login, at which turn) and of the calibration (an account that covers
   what was taken), which the models would be shown to implement as `DetachedRun`
   implements `RunOwnership`.

Planning, catalog, authoring, discovery, harness translation, artifact copying
and the command line are sequential construction, validation or file-system
work without a protocol, and are not planned. They are most of the program's
lines: what is modelled here is the part in which the order of steps decides.

## 7. Running it

    tlc -workers 2 -config recovery.cfg MCDetachedRun
    tlc -workers 2 -config custody.cfg MCCredentialCustody
    tlc -workers 2 -config local.cfg LocalRun
    tlc -workers 2 -config calibration.cfg CalibrationRun
    tlapm DetachedRunProofs.tla
    tlapm AdmissionLemmas.tla
    tlapm AdmissionProofs.tla
    tlapm OwnershipProofs.tla
    tlapm CustodyProofs.tla
    tlapm LocalProofs.tla
    tlapm NamespaceProofs.tla
    tlapm CalibrationProofs.tla

`PROJECT.json` lists the runs, for each property a mutated definition (the
"Faulty variant" operators next to the definitions they replace) that makes the
run fail, the source lines of each definition, hazards, findings and theorems.
