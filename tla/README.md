# TLA+ verification of yoi

yoi runs LLM Workers with durable histories and explicit authority.  This
directory holds TLA+ models of the parts of it whose correctness depends on the
order in which things happen, the TLC configurations that check them on small
instances, and TLAPS proofs for every instance.

    tlc -workers 2 -config MCJobService.cfg MCJobService
    tlapm JobServiceProofs.tla

`PROJECT.json` lists the components, the runs, the source lines behind each
definition, the hazards the properties are aimed at, and the theorems.

## 1. Inventory

| Component | State it keeps | Operations | What is hard | What makes it correct |
|---|---|---|---|---|
| Flow definition compiler (`flow/definition.rs`) | none; a source document becomes a definition or diagnostics | `compile_flow_source` | cyclic graphs, reserved names, the synthetic `$cancel` transition | reports exactly the states that cannot be reached or cannot complete; accepts only what the coordinator can run |
| Flow coordinator (`flow/coordinator.rs`, `worker/feature/builtin/flow_transition.rs`, parts of `worker/worker.rs`) | the Worker's Flow instance, in memory and in the Session log; the in-flight flag | Submit, begin, verify, resolve, rollback, compaction, rewind, automatic fork, restore | state used across the verifier's await, overlapping tool calls, failed appends and truncations, operations that cut the log under the live state, dropped futures, crashes | the live state is the durable one, or a later point of it; a verdict meets the attempt it was given for; one instance moves along its pinned definition |
| Standalone Jobs (`standalone/job_store.rs`, `standalone/jobs.rs`) | intents, attempts, results and reconciliations in SQLite; the running executions | request, start, submit result, retry, cancel, acknowledge, reclaim input, reconcile, wait, close, shutdown, reopen | results racing timeouts and cancellation, crash between two writes, tasks that outlive their record, failing writes | no attempt runs twice, evidence is never taken back, keys and ceilings hold for live tasks, shutdown is clean and ends |
| Plugin receipts (`plugin_receipt.rs`, `server_plugin_host.rs`, `plugin_https.rs`) | invocations and effect receipts in SQLite; Sends in progress | begin, admit, complete, cancel, prune; the Send with its four checks of authority | a request that left and whose outcome was lost, aborts while bytes leave, dropped futures, pruning under a Send | an effect key reaches the peer at most once; a receipt says no more than what happened |
| Plugin service (`plugin_service.rs`, `server_plugin_service.rs`, `worker/plugin/service.rs`) | the consumer's cursor, lease, attempt and pause; the outbox; a driver per Worker process | acquire, poll, complete, release, resume, skip, accept gap, retention; start, cancel, crash of a driver | lost answers, leases that run out under a Send, restored Workers, retention that overtakes the cursor | attempts do not overlap at the peer, an acknowledged event is over, no retained event is passed over, none stays undecided |
| Workdir removal (`workdir_removal.rs`, parts of `server.rs`, `store.rs`, `hosts.rs`) | operation rows with attempt and owner, the registry row, attachments, the create operation | request, claim, guard, observe, delete, answer, reconcile, commit; retry and take-up of the creation | the Backend dies around an external deletion, two Backends overlap, attachments and several requests for the creation race it, a late Runtime | one deletion per request, never under an attachment; answers are final and true |
| Worker turn loop and Session writer (`worker/worker.rs`, `worker/controller.rs`, `worker_allocation/*`, `session-store`) | history and checkpoint of the active Segment, queue in memory, metadata pointer, allocation row | accept, activate, commit, invoke, roll back, rewind, replace the Segment, restore | dying between staging, swap and commit of a Segment; acceptances during a turn; repeated Feature invocations; stale restore candidates | a restart owes what was accepted; no input and no invocation twice; one writer, where the metadata points |
| Runtime Worker lifecycle (`worker-runtime/runtime.rs`, `restore_continuation.rs`, `worker_backend.rs`) | the Worker record in memory and on disk, the operation lock, the unpublished candidate, the execution, the continuation | Restore, Stop, Delete, startup, one attempt step by step, backend tasks | a task that outlives its caller, writes of unknown outcome, power loss, a stop during a restore | answers are true and stand, stopped means down, a stop fences the restore it supersedes |
| Worker controller, spawned Workers | command queue, Running/Paused, children | run, pause, cancel, shutdown | commands racing the end of a turn | the controller's guards are part of `WorkerSession` |
| Workspace deletion, assignment and notification delivery | deletion journal; deliveries and leases | reserve, delete; enqueue, deliver, acknowledge | retries, duplicates, death between two steps | not modelled yet |
| Session store | Segments, Worker metadata | append, truncate, create, compare-and-swap | a write that fails after its rename | as `WorkerSession` uses it |
| Runtime request authentication, Runtime retention | trust records; reservations | verify, rotate; reserve | | not modelled, section 6 |
| Agent engine, MCP client, merge requests, tickets, feature storage | their own records | | | see `PROJECT.json` |
| Clients, CLI, manifests, protocol types, memory, secrets, workdir access | no protocol state of their own | | | not modelled |

How they interact.  A Workspace Backend owns the records and asks a Runtime to
run Workers; the Runtime keeps a record per Worker and hands its execution to a
backend; a Worker is an engine, a Session writer and its features.  A Flow is a
feature whose state lives in the Worker's Session log and whose verifier is an
Internal Worker with a single result slot; a Plugin Service is a task of a Worker
that polls the Backend for events and sends effects through its receipts.  A
Standalone Host is one process without a Backend: it owns a job store and starts
an Internal Worker for each Job it dispatches.  Components share state through
SQLite transactions, files replaced by rename, the Session log and mutexes; they
wait for each other through HTTP requests and async calls that may be dropped.

## 2. Modules

| Module | Models |
|---|---|
| `FlowTypes` | the compiled definition and what its users assume of it |
| `FlowDefinition` | the compiler: field checks, then the two graph searches one visit at a time |
| `FlowContract` | abstract: what a Worker promises about its Flow |
| `FlowCoordinator` | the Flow of one Worker, refining `FlowContract` |
| `JobService` | the job store and the Host's executions |
| `PluginReceipt` | invocations, effect receipts and Sends; also the abstract specification of a Service's effects |
| `PluginService` | one Plugin Service: consumer, outbox, drivers; composed with `PluginReceipt` (an instance whose invocations are events) and refining it |
| `WorkdirRemoval` | the removal of one Workdir with everything that competes for it |
| `WorkerSession` | the durable Session of one Worker over successive processes |
| `WorkerLifecycle` | Restore, Stop and Delete of one Worker in its Runtime |
| `*Proofs` | theorems about the module they extend |
| `MC*` | constants, symmetry and views for TLC |

### FlowDefinition

`src` is the decoded document, `diagnostics` the result.  `CheckFields` is
`compile_typed_source` up to `validate_graph`; identifiers are well formed,
malformed or reserved (they begin with `$`), texts are good, blank or too large.
`VisitForward`, `EndForward`, `VisitBackward` and `EndBackward` are the loops of
`validate_graph`.  The code's worklists are queues; here they are sets, so the
result is shown for every visiting order.

### FlowCoordinator

`live` is `Worker.flow_runtime_state`, `log` the Flow states in the active
Segment.  An append to the Session log is atomic: `FsStore::append_line` cuts a
torn record off when it fails.  `turn` is the run in progress with the snapshot
its rollback would use; `calls` are executions of the RequestFlowTransition
tool, which a model may issue in parallel; `inFlight` is the flag that keeps
them apart.  `BeginTransition` is the tool's `execute` up to the verifier's
await, `FinishVerification` the verifier's structured answer, `ResolveTransition`
the rest of `execute`, and `DropCall` the future being dropped.  Identifiers
that the code draws as UUIDs are consecutive numbers.  `AiActivity` stands for
any model output; it is what ends the chance of a rollback.

Three operations change `live` or `log` alone.  `Rewind` is `rewind_to`: the
Segment becomes its prefix before a user input (`inputs` says how much of `log`
precedes each), and `flow_runtime_state` is not touched.  `Fork` is the automatic
fork of `ensure_segment_head`, whose new Segment has no Flow extension.
`RollbackTurn` restores `live` first and then truncates, which may fail.  The
auxiliary variable `apart` is set by them when they make a difference, and cleared
by the next commit, compaction or restart; no action reads it.

### JobService

The store is one row per Job and attempt; every store operation is one
transaction and is one step.  `phase` is the task behind an execution:
`running`, `stopping` (told to stop, outcome fenced), `unfenced` (told to stop,
but the fencing write failed), `returning` and `failing` (its outcome is
decided, the task has not returned), `ok` and `error` (returned, not yet
observed).  `workers` is auxiliary and counts Internal Workers per attempt.
`Start` is one step because `start_with_optional_model_client` holds the
executions lock from its checks to the insertion of the task; a refused start
has still pruned finished executions.  Errors that change nothing are left out.

### PluginReceipt

`inv` and `rec` are the tables `plugin_invocations` and
`plugin_effect_receipts`; `calls` are Send requests, whose `pc` is the place of
the request in `execute_with_transport` and the transport.  `EffectAdmit` and
`EffectComplete` are the two transactions; `Send`, `Recheck`, `Guard` and
`Abort` ask for authority, which may be lost between any two of them, so the
answer is a parameter.  `Transmit` is the first moment a byte may leave.
`DropCall` is a dropped future or a Backend that died.  `sent` counts what the
peer sees.

### PluginService

`con` is the consumer's row, `out` the outbox (appended, aged, removed), `drv`
the `ServiceDriver` of each process.  Every request to the Backend has three
outcomes: executed and answered, executed and the answer lost, not executed; the
last two, crashes, denials and leases that run out under a driver share a budget
of faults.  A time stamp is the fact that it has been reached.  `HostStep` runs a
step of `PluginReceipt` for the guest of the driver that waits for it, so the
composition is by shared variables and `ReceiptSpec` is the refinement.

### WorkdirRemoval

`ops` are the operation rows, `proc` the Backend processes with the row they
read (`seen`), `flight` the deletions a Runtime has yet to execute.  `Request`,
`Claim`, `Guards`, `Observe`, `Delete`, `Answer` and `Commit` are the stages of
`execute_reserved_workdir_removal_with_provider`, one transaction or one HTTP
request each; `Start` is the recovery at startup and `Reconcile` all that a
recovered attempt may do.  `NoAnswer` is the HTTP timeout.  The attachments, the
creation and the registry synchronisation are the other writers of the same rows.

`maker[p]` is a request for the creation that process `p` serves.  `CreateRetry`
opens a failed create operation again, behind a fence, or takes up a pending one
as it is, so several requests may run one creation; `CreateAsk` looks for the
directory and asks the Runtime, `CreateExecutes` is the Runtime, perhaps after
the request gave up, `CreateSucceeds` and `CreateFails` write the rows whatever
became of the operation since.  The auxiliary `stray` says that the directory, or
the loss of the registry row, is the work of a request whose create operation
another one had already settled.

### WorkerSession

A Segment is what recovery reads of it: the inputs of its history and its last
checkpoint.  `proc[p]` holds the memory of process `p`; a step is what happens
between two releases of the append lock or two awaits.  `StageSegment`,
`BeginActivation`, `SwapMetadata` and `CommitActivation` are the four writes of a
Segment replacement, `SwitchFails` and `FailClosed` their errors.  The write of
`SwapMetadata` may also fail after its rename: the Worker goes on in the old
Segment while the metadata names the new one (`torn`), until the process ends;
`astray` are the invocations it performs meanwhile.
`ReadCandidate`, `Install`, `CheckAfter` and `Activate` are a restore, which reads
without a lock and validates later.  `owed` is the debt to the clients, `stale`
says that the log's last checkpoint is older than the memory (after a rollback,
or an input whose extension was computed before the last acceptance).

### WorkerLifecycle

`mem` and `disk` are the Worker record, `old` the earlier records that a power
loss may bring back because the directory was not synced after a rename,
`flagged` is membership in `unreconciled_worker_writes`.  `job` is the holder of
the Worker's operation lock and where it stands in
`restore_worker_with_recovery_under_lock`, a stop or a deletion; `cand` is
`PendingRuntimeRestore` with its task, which the holder may stop waiting for
(`TimeOut`) but never cancels; `conn` is the registered execution; `driver` are
the continuations.  A write succeeds (`Saved`), fails before its rename (`Lost`)
or after it (`Torn`).  `Authorize` is the repair authorizer, which the task calls
without the lock.  The factory behind the backend is taken from its use: it
succeeds, refuses, or fails and proves its cleanup or does not.  `touched`
collects the operations that changed canonical state.

## 3. What is checked

| Run | Bounds | Shows |
|---|---|---|
| `flow_definition` | all graphs over 2 and 3 declared states with every set of terminal states; one-field departures from a valid document; limits of 3 states and 2 transitions so that both are exceeded | `GraphVerdictExact`, `AcceptedIsRunnable`, `Terminates` |
| `flow_coordinator` | 2 instances, 2 attempts, 2 overlapping calls, 2 places to rewind to; a definition with a self loop (the same state under two attempts) and one that is complete at once | `LiveIsDurable`, `VerdictsFitAttempt`, `TrailJustifiesState`, `TrailOnlyGrows`, refinement of `FlowContract`, `InFlightReleased` |
| `job_service` | 2 Jobs of one key, one granted with 2 attempts | `RecordsAgree`, `OneWorkerPerAttempt`, `KeyExcludes`, `EvidenceKept`, `AttemptSettles`, `ShutdownEnds` |
| `job_capacity` | 3 Jobs, capacity 2, ceilings 1, 3 and 3, failing writes | `DispatchedIsOwned`, `CapacityRespected`, `CleanShutdown` |
| `plugin_receipt` | 2 invocations, 1 key, 2 concurrent Sends | `EffectOnce`, `ReceiptsAreTrue`, `OutcomeIsFinal` |
| `plugin_service` | 2 drivers (interchangeable), 1 event, 2 attempts, 1 management decision, 2 faults | `AttemptsDoNotOverlap`, `AckIsFinal`, refinement of `PluginReceipt`, types with the attempt limit |
| `plugin_queue` | 2 drivers, 3 events of which 1 and 3 are subscribed to, a queue of 2, 2 events past retention, 1 management decision, 1 fault, no Sends | `RetainedIsNotSkipped`, `EventSettles` |
| `workdir_removal` | 2 requests and 2 Backend processes (each interchangeable), 3 attempts, 1 retry of a failed creation, 1 request for the creation per process at a time | `DeletesOnce`, `NobodyAttachesMeanwhile`, `OneExecutor`, `RemovedIsGone`, `AnswerIsFinal`, types |
| `workdir_timeout_fault` | as `workdir_removal` | expected violation of `UncertainIsKept`, below |
| `worker_session` | 1 plain submission, 2 that carry the same invocation (interchangeable), 1 notification, 2 processes, a queue of 2, 2 Segments | `RestartOwesTheSame`, `InputOnce`, `InvokedOnce`, `WriterIsPublished` |
| `session_rollback_fault` | as `worker_session` | expected violation of `RollbackKeepsAccepted`, below |
| `worker_lifecycle` | 2 Restore requests (interchangeable), 1 Stop intent, Stops without one | `StoppedMeansDown`, `AnswersStand`, `StopFencesWork` |

Why the bounds are enough.  Three states are enough for a cycle next to a
terminal state and for a state that is reachable but cannot complete; two
attempts for a verdict to be late; two Jobs and two attempts for every order of
cancellation, retry, result and crash; three Jobs for the boundary of a capacity
of two.  Two Sends are enough to compete for a key and two invocations to show
that keys do not mix.  Two drivers and two faults allow a lease to run out under
a Send and the answer of the successor to be lost; three events with a gap
between the subscribed ones let retention stop between them, and a queue of two
is full.  Two places to rewind to let a rewind reach before and after the start
of an instance.  Two requests and two overlapping processes with three attempts
let a recovery be recovered; two requests for one creation are enough for the
second to outlive the first, and two in one process behave like two in two
processes, because a process keeps nothing of a creation in memory.  Two
processes, two Segments and two submissions with one
invocation let a restore follow a replacement and a repetition follow a crash;
the second Segment is also the boundary at which no further replacement is
possible.  Two Restore requests let the second recover or follow the first, and
restarts, rereads and timeouts are unbounded there.  The proofs remove the bounds
where section 4 says so.

`worker_session` uses a view.  A Segment that neither the metadata nor a process
names is never read again, nor a checkpoint in a Segment whose writer the
metadata left behind.  What a restore candidate read is compared with the Segment
once more, so it does not matter any more when its Segment was replaced, or when
it lacks a receipt that every checkpoint its writer may still put there has.
Symmetry is used only in runs without liveness.

Deadlock is not checked where the system may stop: a compilation ends, all Sends
are answered, no driver is left, every request of a Workdir is answered and every
Backend dead, every process has died.  The other runs check it.

Fairness.  `compile_flow_source` is a synchronous call, so it runs on once
started.  A verification is an Internal Worker with a bound on its turns whose
result is applied in the same poll: `ResolveTransition` is weakly fair.  A Job's
timeout fires and its grace period ends whatever the model does, and a task that
decided its outcome returns: `Interrupt`, `StopEnds` and `TaskReturns` are weakly
fair.  `shutdown` calls `try_shutdown` until it succeeds or reports an error:
`FinishShutdown` is weakly fair.  A driver is a task that is rescheduled after its
interval, its requests are answered or time out and its guest has a deadline:
`DriverStep` is weakly fair; a lease and a delay pass with the clock: `Lapse` and
`WaitOver` are weakly fair.  Nothing else is: no user, model or restart is assumed
to act.

### Where the code and its comments disagree

Shown by a run that expects the violation:

* `hosts.rs` turns a timed out or broken DELETE into a rejection without a cleanup
  category, so the removal is recorded as failed, and attachments and new removals
  are admitted, while the Runtime may still delete.  `workdir_removal.rs` says an
  uncertain outcome is kept for observation, and a test expects a timed out
  deletion to stay pending.
* `Worker::rollback_empty_turn` truncates the Segment to its length before the
  turn, without the append lock and without a new checkpoint.  A submission or
  notification accepted, and acknowledged, during the turn loses its checkpoint;
  a restart before the next one forgets it.  The comments on the other operation
  that cuts the log, `rewind_to`, describe exactly this danger.

Met while modelling, without a run of their own:

* A Worker that dies holding a Service's lease and is restored before it runs out
  gets Conflict from `acquire`; its task fails and nothing starts it again, so
  events are neither delivered nor is the consumer paused
  (`worker/src/plugin/service.rs:263`).  `resources/plugin/API.md:293` and `:297`
  promise redelivery and restore with the same cursor.
* `recover`'s Skip does not test the cursor against the retention floor as Resume
  does (`plugin_service.rs:442`), so events removed in between are passed without
  the explicit gap that the comment at `:490` promises.  `RetainedIsNotSkipped`
  speaks of events still in the outbox for this reason.
* `poll` pauses with a retention gap as soon as the cursor is below the floor
  (`plugin_service.rs`), also when the event being delivered is above it.
  `AcceptGap` then sets the cursor to the floor and clears `invocation_id`
  (`:467`-`:473`, `:484`), so the same event is found again and delivered while an
  effect of its last attempt may still be on its way: `unknown_effect` answers no
  without an invocation (`:210`).  The comment at `:476` says that a gap abandons
  the event, the one at `:395` that unknown external effects cannot be resumed
  blindly, and `resources/plugin/API.md:294` that an indeterminate effect stops the
  consumer.  The receipts still keep the effect from being sent twice
  (`RedeliveryRepeatsNothing`).  An attempt to prove `AttemptsDoNotOverlap` failed
  here, and TLC then found the behaviour (one driver, 2 events of which the second
  is subscribed to, 19 states); the property excepts events given up with a gap.
* `flow/src/coordinator.rs:6-7` says that entry requires exactly one Met result
  *and no Indeterminate results*; `resolve_completed_results` (`:554`) looks for
  Indeterminate only when nothing was met, so a state is entered with one Met and
  any number of Indeterminate results.  `TrailJustifiesState` states what the code
  does, one Met result in a complete set, and says so; the stronger reading of the
  comment is false.
* The same file says that live state is replaced *only after a successful Session
  write*.  Three operations of `worker.rs` depart from it.  `rewind_to`
  (`:5551-5650`) cuts Flow states out of the Segment and leaves
  `flow_runtime_state` as it was: the Worker goes on with a Flow that the rewound
  history does not have, and a restart at that moment restores the earlier one, so
  durable transitions are taken back.  The fork of a drifted log
  (`ensure_segment_head`, `:7635-7663`) writes initial entries without the Flow
  extension that compaction writes, so a restart finds no Flow at all.
  `rollback_empty_turn` restores the live Flow before it truncates; if the
  truncation fails, the log keeps the Submit that was taken back in memory.  All
  three are actions of the run and of the theorems.  `LiveIsDurable` holds except
  between one of them and the next commit, compaction or restart (`~apart`);
  `TrailOnlyGrows` and the contract are about the Flow the Worker goes on with, and
  allow a process that stops in such a state to fall back, to an earlier point of
  the same trail and to a Flow it had before, never to anything else.
* The metadata write of a Segment replacement may fail after its rename
  (`session-store/src/worker_metadata.rs:648-649`); the caller then keeps writing
  to the old Segment although the metadata names the new one, against the comment
  at `worker.rs:9286-9291`.  As long as that process lives (`torn`), the metadata
  does not point where it writes, a restart would not owe what it accepts and
  would owe again what it ran or withdrew, and the start of an invocation is
  recorded where no restart looks, so the invocation may be performed again
  (`astray`).  The part of `WriterIsPublished` about the metadata,
  `RestartOwesTheSame` and `InvokedOnce` except exactly this; that nobody else
  writes meanwhile, and that it ends with the process, is checked and proved.
* The extension that an input carries is computed before the run is prepared
  (`controller.rs:2447`); a notification accepted in between is hidden by it until
  the next checkpoint.  `RestartOwesTheSame` excepts this with `stale`, so no
  property catches it.
* `create_workspace_working_directory` takes up a create operation that it finds
  pending without asking whether another request runs it (`server.rs:30421-30439`),
  and writes its rows at the end whatever became of the operation.  When the first
  request settles the operation, a removal passes its guards and is told that the
  directory is gone, the second request, or its call executed late by the Runtime,
  can create the directory again before the removal commits: the operation is
  recorded as removed while the directory exists.  `RemovedIsGone` excepts the
  work of such a request (`stray`) and holds for all others.
* A Restore that was admitted and not started, then a Runtime restart whose
  reclamation times out: the next retry answers `Rejected` although the backend
  keeps a cleanup-only owner, after which every Restore is refused until Delete or
  another restart.  `server-api/src/lib.rs:11093` reserves `Rejected` for
  read-only preflight failures.  This is why `StoppedMeansDown` allows `cand.only`.
* `commit_stopped_worker` discards the publication owner before it writes.  After
  an unknown outcome and a reread that finds the old record, that record keeps the
  discarded context and a later Restore cannot publish until a Stop or a restart;
  a failed `settle_restore_rollback` leaves the same state, against the comment at
  `runtime.rs:3124`.
* `record_restore_failure` writes with `persist_worker_record`, so an unknown
  outcome is not remembered as one.
* `ensure_restore_rollback_allowed` can be weakened without breaking a property:
  the backend's own effect flag refuses the same cases.

## 4. What is proved

The theorems hold for all values of the constants that satisfy the named
assumptions of the modules (`*Assumption`).

* `FlowDefinitionProofs`.  `GraphVerdictExact` compares with reachability stated
  as membership in every closed set.  The invariant says that everything visited
  lies in every closed set, and that the visited states together with the
  worklist are closed; when the worklist is empty the two meet.
  `AcceptedRunnable` adds what the absence of diagnostics says of each field;
  `SearchStaysInside` is the type invariant.
* `FlowCoordinatorProofs`.  The inductive invariant has four parts beside the
  types: the log is a sequence of Flow states, every one of them has an open
  attempt only in the state it was begun in, the one call that verifies holds the
  attempt of the live state, and the rollback snapshot is what the log says at its
  length unless the turn was opened apart.  The last part is what makes
  `LiveIsDurable` inductive over a rollback.  `FlowTyped` adds the ranges of
  instances and attempts.  `FlowKeepsContract` maps every step to a step of
  `FlowContract` or a stutter; a restart after a rewind, a fork or a failed
  truncation is its `Recall`.  `TrailAlwaysJustifies` needs more than
  `TrailJustifiesState` (`Trail`): a trail begins with an entry, has a last one, and
  an open attempt is its last event, so that an entry added after it finds the
  state it left; whether an entry is justified depends on the events before it
  only, so no induction over the trail is needed.  That one condition was met
  follows from the count of the Met verdicts because a state has finitely many
  transitions (`FiniteAssumption`).  `TrailsOnlyGrow` adds `UndoInv`, undoing a turn
  takes back nothing, or the start of an instance, and `OrderInv`, the log is
  ordered and never ahead of the live Flow, so what a restart falls back to is a
  prefix.
* `JobServiceProofs`.  The invariant joins `TypeOK` (`JobsTyped`), `RecordsAgree`,
  `OneWorkerPerAttempt` and `KeyExcludes` with the fact that a task and its
  attempt belong together (`Started`); `KeyExcludes` alone is not inductive
  because a live task's Job may already be settled in the store.  The action
  property `EvidenceKept` follows from it; capacity, ownership and clean shutdown
  are inductive relative to it.
* `PluginReceiptProofs`.  `EffectOnce` alone is not inductive: a state with two
  Sends on their way for one key satisfies it.  The invariant adds that one Send at
  a time holds an admitted effect (`Exclusive`) and that every stage knows whether
  the request has left (`Knows`).
* `PluginServiceProofs`.  The invariant joins the invariant of the receipts with
  five facts: a lease has one driver (`LeasesDiffer`); a Send belongs to a guest
  that runs, or its lease is not used by a driver that works as long as it lives
  (`CallerOK`); an open Send is for an event behind the cursor, being delivered or
  given up with a gap (`OpenOK`); a delivered event has no open Send but those of
  its guest (`DeliveryOK`); an acknowledged event is behind the cursor and its
  effects are known (`AckedOK`).  `AttemptsDoNotOverlap` alone is not inductive: it
  says nothing of Sends whose guest is gone.  `ServiceRefinesReceipts` is the
  refinement of `PluginReceipt` for any number of drivers, events, faults and
  decisions; `RedeliveryRepeatsNothing` carries the receipts' guarantee through it.
  `NothingRetainedIsSkipped` and `AckStays` follow.
* `WorkdirRemovalProofs`.  The invariant says of a process that the row it works on
  is pending, is the one it claimed and has asked for no deletion before its own;
  of its guards that they hold until the deletion leaves; and of a row that it
  asked at most once, and that nothing holds the Workdir while it is pending after
  that (`Fits`, `OpOK`).  From a confirmed deletion to the commit the directory
  stays away or is stray.  All five properties of the run follow for any number of
  requests, processes, attempts and retries.
* `WorkerSessionProofs`.  `RestartOwesTheSame` alone knows neither that the
  writer's memory agrees with the debt nor that nobody but the owner of the
  allocation row writes.  The proof has one lemma for every kind of step: the
  steps of the writer keep memory, log and debt in step, the steps of the owner
  outside a turn keep the row, and the steps of everyone else touch neither.
  `InvokedOnce` and `InputOnce` need an invariant about the past (`HistoryInv`):
  active Segment, memory, the extension of a started input, the prefix that a
  rollback would restore and a staged Segment all have the receipts of the inputs
  that were run and the start of every invocation performed (`Remembers`), because
  each of them may become the active record.  A torn metadata write is a step like
  the others: while `torn` holds, the invariant keeps the row and the single writer
  and gives up what ties memory and debt to the active Segment, and the history
  counts every invocation but the astray ones.
* `WorkerLifecycleProofs`.  A reread or a restart replaces memory by `disk` or a
  member of `old`, so the invariants speak of all of them.  The first says that each
  keeps the answers that memory gave and that its active request is still
  unanswered (`RecordInv`), ties the holder of the lock to the candidate it works
  on, and keeps a cleanup-only candidate out of preparation and activation
  (`LockInv`, `BackendInv`, `ReclaimInv`).  From it follow the types and the first
  half of `AnswersStand` (`ReceiptsStand`).  `StopAlwaysFences` adds `FenceInv`: the
  stages from which a task is started are not entered under a stop, and a flagged
  record on disk knows no stop that memory does not, so the reread that the repair
  authorizer makes in the middle of an attempt brings none back.  `Agreement` is the
  second invariant: every such record fits the candidate, the execution and the
  operations that changed canonical state or may do so at any moment (`Fits`,
  `Marked`), a record that denies an operation memory has not answered yet denies
  an untouched one (`HistoryFits`), and each stage of the lock's holder knows its
  part of this (`JobFits`).  It is what a single record cannot say: a rollback is
  decided on memory while another record may come back.  `AnswersAlwaysStand` and
  `StoppedIsDown` follow.

Every safety property that a passing run checks is proved: all 25 invariants and
all action properties and refinements.  The type invariants of six modules are
proved and not run; those of `PluginService` and `WorkdirRemoval` are both.

Only model-checked: liveness (`Terminates`, `InFlightReleased`, `AttemptSettles`,
`ShutdownEnds`, `EventSettles`), which is outside the prover's reach, and the two
runs that expect a violation.

## 5. Plan

Done: the models of section 2, all of them with proofs.  What is left, in this
order:

1. An abstract `JobContract` that `JobService` refines.
2. Workspace deletion, whose steps use the removal of Workdirs and the deletion of
   Workers.
3. Assignment and notification delivery: retries and duplicates between Backend
   and Worker, composed with the queue of `WorkerSession`.
4. Creation of a Worker in `WorkerLifecycle`, and its retention reservations.

## 6. Not modelled

Most of the repository's 603,000 lines are API and protocol types, HTTP handlers
without state of their own, user interfaces, stores of single rows, configuration
parsing, prompts, text search, encryption, file access and tests.  They have no
protocol state, so the share of lines that models can stand for stays small
whatever is added.  Runtime request authentication is a security boundary whose
argument is cryptographic.

Left out of the modelled components:

* Jobs and Flows: schema migrations, size limits and digests of Job requests, the
  read-only domain fence, the DCDL parser (external), Flow selectors and prompts,
  feature registration.
* `PluginReceipt`: content checks and request preparation, which only refuse;
  `Cancel` and `Prune` are modelled although a Service's invocations are not
  cancelled and pruning has no production caller.
* `PluginService`: subject authorisation is an answer that may be no at any time;
  `occurred_at` is assumed to grow with the sequence number.
* `WorkdirRemoval`: one Workdir; a process runs one execution at a time, as its
  mutex says, and one request for the creation at a time, which is a bound; the
  two writes of `fail_workdir_create_stage`, and of a recorded creation, are one
  step.  The registry synchronisation reads and writes in two transactions
  and may bring back the row of a removed Workdir; nothing promises otherwise.  A
  recovered attempt that died before its guards reads none, so `RemovedIsGone`
  speaks of operations that asked for the deletion.  An operation interrupted
  between its claim and its DELETE stays pending by design (`server.rs:31296`), and
  an error of the store during an execution leaves a live owner until the process
  restarts.
* `WorkerSession`: candidate equality is equality of what recovery reads; the
  invocation and the input entry are one step; staged and pending notifications
  are one queue; a compaction's summary counts as keeping its inputs; byte and
  artifact limits, receipt eviction and the protected-input checkpoint are left
  out; a store append is atomic; the fork of a drifted log is a replacement; a
  power loss of the machine, which may bring back what was not synced, is not
  modelled here.  A
  submission activated at once is acknowledged before its input is durable and is
  owed only from its input on; a later abort drops it.
* `WorkerLifecycle`: observation tokens (a stale one is refused without effect),
  panics of tasks, errors that abort the startup, authority of a Workdir
  preparation, commits of unknown provenance (`LegacyUnknown`), the deletion
  journal, back-off of the continuation, other Workers.  Some branches are kept
  although no behaviour reaches them, because the code has them: another
  operation's connected execution in `CallRestore`, a connected one in `Reclaim`, a
  foreign candidate in `Discard`, a discarded context in `Preflight`.
