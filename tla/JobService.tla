------------------------------ MODULE JobService ------------------------------
(***************************************************************************)
(* Host-owned execution of Jobs.                                            *)
(*                                                                          *)
(*   crates/standalone/src/job_store.rs   intents, attempts and results in  *)
(*                                        SQLite, recovered on open         *)
(*   crates/standalone/src/jobs.rs        StandaloneJobs: the executions in *)
(*                                        progress and the Host's shutdown  *)
(*                                                                          *)
(* Every store operation is one transaction, and the service takes the      *)
(* executions lock around the check and the operation, so each is a step;   *)
(* the Internal Worker of an execution takes its own steps in between.      *)
(* Operations that return an error change nothing and are left out, with    *)
(* the one exception of a refused start, which prunes finished executions.  *)
(***************************************************************************)
EXTENDS Naturals, FiniteSets

CONSTANTS
    Jobs,           \* the Jobs that may be requested
    Key,            \* JobRequest.serialization_key of each, or NoKey
    NoKey,
    Granted,        \* the Jobs requested with a domain grant
    Limit,          \* limits.max_concurrent_jobs of each
    AttemptLimit,   \* limits.max_attempts of each
    Capacity,       \* StandaloneJobs.capacity
    Results,        \* the structured results a model may submit
    NoResult,
    StoreFaults     \* whether the write that ends an execution may fail

ASSUME JobsAssumption == IsFiniteSet(Jobs) /\ Granted \subseteq Jobs
ASSUME LimitsAssumption ==
    /\ \A j \in Jobs : Limit[j] \in Nat \ {0} /\ AttemptLimit[j] \in Nat \ {0}
    /\ Capacity \in Nat \ {0} /\ StoreFaults \in BOOLEAN
ASSUME ResultsAssumption == NoResult \notin Results

VARIABLES
    open,       \* StandaloneJobs.store holds a connection
    closed,     \* Executions.closed
    intent,     \* job_intents.state, or "none"
    current,    \* job_intents.current_attempt
    acked,      \* the Jobs with job_intents.acknowledged
    input,      \* job_intents.input_disposition
    attempt,    \* job_attempts.state by Job and number, or "none"
    result,     \* job_attempts.result_json by Job and number
    reconciled, \* job_domain_reconciliations
    phase,      \* Executions.jobs: how far the task of an execution is
    running,    \* Execution.attempt_id
    cancel,     \* Execution.cancel
    workers     \* auxiliary: Internal Workers spawned so far for an attempt

stored == <<intent, current, acked, input, attempt, result, reconciled>>
executions == <<phase, running, cancel, workers>>
vars == <<open, closed, stored, executions>>

Numbers(j) == 1 .. AttemptLimit[j]

------------------------------------------------------------------------------
\* job_store.rs

CurrentState(j) == attempt[j][current[j]]

SetCurrent(j, s) == attempt' = [attempt EXCEPT ![j][current[j]] = s]
SetIntent(j, s) == intent' = [intent EXCEPT ![j] = s]

\* Some attempt may have had effects that nobody has accounted for.
Uncertain(j) ==
    \E n \in Numbers(j) : attempt[j][n] = "unknown" /\ <<j, n>> \notin reconciled

\* What check_serialization looks for in the other Jobs of the same key.
HoldsKey(j) == intent[j] = "pending" \/ Uncertain(j)

SameKey(j, k) == j # k /\ Key[j] # NoKey /\ Key[j] = Key[k]

KeyFree(j) == \A k \in Jobs : SameKey(j, k) => ~HoldsKey(k)

\* insert_attempt.
InsertAttempt(j, n) ==
    /\ attempt' = [attempt EXCEPT ![j][n] = "reserved"]
    /\ current' = [current EXCEPT ![j] = n]
    /\ SetIntent(j, "pending")

\* set_terminal.
SetTerminal(j, s) == SetCurrent(j, s) /\ SetIntent(j, s)

\* Mutant: an interrupted attempt is offered again.
RecoveredForReplay(j, n) ==
    IF attempt[j][n] = "dispatched" /\ result[j][n] = NoResult
    THEN "reserved" ELSE attempt[j][n]

\* The UPDATEs of JobStore::open: a reserved attempt was never started and stays
\* reserved; a dispatched one is complete if its result was accepted.
Recovered(j, n) ==
    IF attempt[j][n] # "dispatched" THEN attempt[j][n]
    ELSE IF result[j][n] # NoResult THEN "completed" ELSE "unknown"

Recover ==
    /\ attempt' = [j \in Jobs |-> [n \in Numbers(j) |-> Recovered(j, n)]]
    /\ intent' = [j \in Jobs |->
                    IF /\ intent[j] = "pending"
                       /\ Recovered(j, current[j]) \in {"completed", "unknown"}
                    THEN Recovered(j, current[j]) ELSE intent[j]]

Init ==
    /\ open = TRUE /\ closed = FALSE
    /\ intent = [j \in Jobs |-> "none"]
    /\ current = [j \in Jobs |-> 1]
    /\ acked = {}
    /\ input = [j \in Jobs |-> "available"]
    /\ attempt = [j \in Jobs |-> [n \in Numbers(j) |-> "none"]]
    /\ result = [j \in Jobs |-> [n \in Numbers(j) |-> NoResult]]
    /\ reconciled = {}
    /\ phase = [j \in Jobs |-> "none"]
    /\ running = [j \in Jobs |-> 0]
    /\ cancel = [j \in Jobs |-> FALSE]
    /\ workers = [j \in Jobs |-> [n \in Numbers(j) |-> 0]]

\* StandaloneJobs::request and request_granted; a resend returns the snapshot.
Request(j) ==
    /\ open /\ ~closed
    /\ intent[j] = "none"
    /\ KeyFree(j)
    /\ InsertAttempt(j, 1)
    /\ UNCHANGED <<open, closed, acked, input, result, reconciled, executions>>

\* The task behind an execution has not returned.
Live(j) == phase[j] \in {"running", "stopping", "unfenced", "returning", "failing"}

\* StandaloneJobs::retry: only a known failure gets another attempt.
Retry(j) ==
    /\ open /\ ~closed
    /\ ~Live(j)
    /\ input[j] = "available"
    /\ intent[j] = "failed" /\ CurrentState(j) = "failed"
    /\ current[j] < AttemptLimit[j]
    /\ KeyFree(j)
    /\ InsertAttempt(j, current[j] + 1)
    /\ UNCHANGED <<open, closed, acked, input, result, reconciled, executions>>

\* Mutant: cancelling an unknown intent settles its attempt too.
CancelAttemptToo(j) ==
    /\ open /\ ~closed
    /\ intent[j] # "none"
    /\ IF intent[j] \in {"completed", "cancelled"}
       THEN UNCHANGED <<intent, attempt>>
       ELSE SetTerminal(j, "cancelled")
    /\ cancel' = [cancel EXCEPT ![j] = phase[j] # "none"]
    /\ UNCHANGED <<open, closed, current, acked, input, result, reconciled,
                   phase, running, workers>>

\* StandaloneJobs::cancel: the record first, then the signal to the task.
Cancel(j) ==
    /\ open /\ ~closed
    /\ intent[j] # "none"
    /\ \/ intent[j] = "unknown" /\ SetIntent(j, "cancelled") /\ UNCHANGED attempt
       \/ intent[j] \in {"completed", "cancelled"} /\ UNCHANGED <<intent, attempt>>
       \/ intent[j] \in {"pending", "failed"} /\ SetTerminal(j, "cancelled")
    /\ cancel' = [cancel EXCEPT ![j] = phase[j] # "none"]
    /\ UNCHANGED <<open, closed, current, acked, input, result, reconciled,
                   phase, running, workers>>

\* StandaloneJobs::acknowledge.
Acknowledge(j) ==
    /\ open /\ ~closed
    /\ intent[j] = "completed"
    /\ acked' = acked \cup {j}
    /\ UNCHANGED <<open, closed, intent, current, input, attempt, result, reconciled,
                   executions>>

Retirements == {"reclaimed", "erased", "invalidated"}

\* StandaloneJobs::reclaim_input; not refused while the Host closes.
ReclaimInput(j, disposition) ==
    /\ open
    /\ intent[j] # "none"
    /\ disposition = "reclaimed" =>
        ~Live(j) /\ intent[j] = "completed" /\ CurrentState(j) = "completed"
    /\ input[j] # "available" => disposition = "erased"
    /\ input' = [input EXCEPT ![j] = disposition]
    /\ UNCHANGED <<open, closed, intent, current, acked, attempt, result, reconciled,
                   executions>>

\* StandaloneJobs::reconcile_granted_attempt: the domain has accounted for the
\* effects of an attempt whose execution has been observed to be over.
Reconcile(j) ==
    /\ open /\ ~closed
    /\ phase[j] = "none"
    /\ j \in Granted
    /\ CurrentState(j) = "unknown" /\ intent[j] \in {"unknown", "cancelled"}
    /\ reconciled' = reconciled \cup {<<j, current[j]>>}
    /\ UNCHANGED <<open, closed, intent, current, acked, input, attempt, result, executions>>

------------------------------------------------------------------------------
\* jobs.rs: starting an execution

\* Room for one more execution next to the ones in "others".
Room(j, others) ==
    /\ Cardinality(others) < Capacity
    /\ \A k \in others \cup {j} : Cardinality(others) < Limit[k]

\* JobStore::dispatch.
Dispatchable(j) ==
    /\ intent[j] = "pending" /\ CurrentState(j) = "reserved"
    /\ KeyFree(j)
    /\ Room(j, {k \in Jobs : CurrentState(k) = "dispatched"})

\* Mutant: only the result states are counted, not the live tasks.
StartableByRecord(j) == ~Live(j)

\* The checks of start_with_optional_model_client on the executions it owns.
Startable(j) ==
    /\ ~Live(j)
    /\ Room(j, {k \in Jobs : Live(k)})
    /\ \A k \in Jobs : SameKey(j, k) => ~Live(k)

\* Mutant: every finished execution is forgotten.
PrunedWithErrors == [j \in Jobs |-> IF phase[j] \in {"ok", "error"} THEN "none" ELSE phase[j]]

\* Executions that finished cleanly are forgotten; errors stay on record.
Pruned == [j \in Jobs |-> IF phase[j] = "ok" THEN "none" ELSE phase[j]]

\* start_with_optional_model_client claims the attempt and spawns its task.
Spawn(j) ==
    /\ Startable(j) /\ Dispatchable(j)
    /\ SetCurrent(j, "dispatched")
    /\ phase' = [Pruned EXCEPT ![j] = "running"]
    /\ running' = [running EXCEPT ![j] = current[j]]
    /\ cancel' = [cancel EXCEPT ![j] = FALSE]
    /\ workers' = [workers EXCEPT ![j][current[j]] = @ + 1]

\* It is refused, but has already pruned.
RefuseStart(j) ==
    /\ ~(Startable(j) /\ Dispatchable(j))
    /\ phase' = Pruned
    /\ UNCHANGED <<attempt, running, cancel, workers>>

Start(j) ==
    /\ open /\ ~closed
    /\ intent[j] # "none" /\ input[j] = "available"
    /\ Spawn(j) \/ RefuseStart(j)
    /\ UNCHANGED <<open, closed, intent, current, acked, input, result, reconciled>>

------------------------------------------------------------------------------
\* jobs.rs: the task of an execution and the result sink of its Internal Worker

\* BoundResultSink::submit and JobStore::accept: the first result of the current,
\* still dispatched attempt is kept; a late or second one is refused or replayed.
Submit(j, r) ==
    /\ open /\ Live(j)
    /\ running[j] = current[j]
    /\ input[j] = "available"
    /\ intent[j] = "pending" /\ CurrentState(j) = "dispatched"
    /\ result' = [result EXCEPT ![j][current[j]] = r]
    /\ SetTerminal(j, "completed")
    /\ UNCHANGED <<open, closed, current, acked, input, reconciled, executions>>

\* Mutant: the end of the run is recorded whatever was recorded before.
FinishAlways(j, s) == running[j] = current[j] /\ SetTerminal(j, s)

\* finish_if_pending and JobStore::finish, when they succeed.
FinishIfPending(j, s) ==
    /\ intent[j] = "pending" => running[j] = current[j]
    /\ IF intent[j] = "pending" THEN SetTerminal(j, s) ELSE UNCHANGED <<intent, attempt>>

\* They fail, and change nothing: the attempt is not the current one, or SQLite
\* refuses the write.
FinishFails(j) ==
    /\ intent[j] = "pending" => StoreFaults \/ running[j] # current[j]
    /\ intent[j] # "pending" => StoreFaults
    /\ UNCHANGED <<intent, attempt>>

SetPhase(j, p) ==
    /\ phase' = [phase EXCEPT ![j] = p]
    /\ UNCHANGED <<running, cancel, workers>>

\* The Internal Worker returned: without an accepted result that is a failure, or
\* unknown if its submission was left unconfirmed.
RunEnds(j) ==
    /\ open /\ phase[j] = "running"
    /\ \/ \E s \in {"failed", "unknown"} : FinishIfPending(j, s) /\ SetPhase(j, "returning")
       \/ FinishFails(j) /\ SetPhase(j, "failing")
    /\ UNCHANGED <<open, closed, current, acked, input, result, reconciled>>

\* Mutant: the Internal Worker is stopped without fencing its outcome.
InterruptUnfenced(j) ==
    /\ open /\ phase[j] = "running"
    /\ SetPhase(j, "stopping")
    /\ UNCHANGED <<open, closed, stored>>

\* The timeout fires or the cancel signal is seen: the outcome is fenced before
\* the Internal Worker is told to stop.
Interrupt(j) ==
    /\ open /\ phase[j] = "running"
    /\ \/ FinishIfPending(j, "unknown") /\ SetPhase(j, "stopping")
       \/ FinishFails(j) /\ SetPhase(j, "unfenced")
    /\ UNCHANGED <<open, closed, current, acked, input, result, reconciled>>

\* The Internal Worker stops within the grace period, or the task gives up on it.
StopEnds(j) ==
    /\ open /\ phase[j] \in {"stopping", "unfenced"}
    /\ \/ phase[j] = "stopping" /\ SetPhase(j, "returning")
       \/ SetPhase(j, "failing")
    /\ UNCHANGED <<open, closed, stored>>

\* "Completion is published immediately before the task returns": until then the
\* execution still counts as live.
TaskReturns(j) ==
    /\ open /\ phase[j] \in {"returning", "failing"}
    /\ SetPhase(j, IF phase[j] = "returning" THEN "ok" ELSE "error")
    /\ UNCHANGED <<open, closed, stored>>

\* StandaloneJobs::wait observed a clean end; a failed one stays on record.
Wait(j) ==
    /\ open /\ phase[j] = "ok"
    /\ SetPhase(j, "none")
    /\ UNCHANGED <<open, closed, stored>>

------------------------------------------------------------------------------
\* jobs.rs: shutdown, and what follows it

\* StandaloneJobs::close; QuiescentJobClosure::commit is the case without tasks.
Close ==
    /\ open /\ ~closed
    /\ closed' = TRUE
    /\ cancel' = [j \in Jobs |-> phase[j] # "none"]
    /\ UNCHANGED <<open, stored, phase, running, workers>>

\* Mutant: a task that returned an error does not stop the shutdown.
ShutdownOverErrors ==
    /\ open /\ closed
    /\ \A j \in Jobs : phase[j] \in {"none", "ok", "error"}
    /\ open' = FALSE
    /\ phase' = [j \in Jobs |-> "none"]
    /\ cancel' = [j \in Jobs |-> FALSE]
    /\ UNCHANGED <<closed, stored, running, workers>>

\* Mutant: a shutdown needs every execution to have been waited for.
ShutdownWhenObserved ==
    /\ open /\ closed
    /\ \A j \in Jobs : phase[j] = "none"
    /\ open' = FALSE
    /\ UNCHANGED <<closed, stored, executions>>

\* StandaloneJobs::try_shutdown succeeds: every task returned and confirmed cleanup.
FinishShutdown ==
    /\ open /\ closed
    /\ \A j \in Jobs : phase[j] \in {"none", "ok"}
    /\ open' = FALSE
    /\ phase' = [j \in Jobs |-> "none"]
    /\ cancel' = [j \in Jobs |-> FALSE]
    /\ UNCHANGED <<closed, stored, running, workers>>

\* The Host process dies, its tasks with it.
Crash ==
    /\ open
    /\ open' = FALSE /\ closed' = FALSE
    /\ phase' = [j \in Jobs |-> "none"]
    /\ cancel' = [j \in Jobs |-> FALSE]
    /\ UNCHANGED <<stored, running, workers>>

\* StandaloneJobs::open under a new Host lease.
Reopen ==
    /\ ~open
    /\ open' = TRUE /\ closed' = FALSE
    /\ Recover
    /\ UNCHANGED <<current, acked, input, result, reconciled, executions>>

Next ==
    \/ \E j \in Jobs :
        \/ Request(j) \/ Retry(j) \/ Cancel(j) \/ Acknowledge(j) \/ Reconcile(j)
        \/ \E disposition \in Retirements : ReclaimInput(j, disposition)
        \/ Start(j)
        \/ \E r \in Results : Submit(j, r)
        \/ RunEnds(j) \/ Interrupt(j) \/ StopEnds(j) \/ TaskReturns(j) \/ Wait(j)
    \/ Close \/ FinishShutdown \/ Crash \/ Reopen

\* The timeout of an execution fires and its grace period ends whatever the model
\* does, and shutdown() retries try_shutdown until it succeeds or fails for good.
Fairness ==
    /\ \A j \in Jobs :
        WF_vars(Interrupt(j)) /\ WF_vars(StopEnds(j)) /\ WF_vars(TaskReturns(j))
    /\ WF_vars(FinishShutdown)

Spec == Init /\ [][Next]_vars /\ Fairness

------------------------------------------------------------------------------
\* Properties

AttemptStates == {"none", "reserved", "dispatched", "completed", "failed", "unknown", "cancelled"}

\* Every column of the store and every execution record stays in its range.
TypeOK ==
    /\ open \in BOOLEAN /\ closed \in BOOLEAN
    /\ intent \in [Jobs -> {"none", "pending", "completed", "failed", "unknown", "cancelled"}]
    /\ acked \subseteq Jobs
    /\ input \in [Jobs -> {"available"} \cup Retirements]
    /\ phase \in [Jobs -> {"none", "running", "stopping", "unfenced",
                      "returning", "failing", "ok", "error"}]
    /\ cancel \in [Jobs -> BOOLEAN]
    /\ DOMAIN current = Jobs /\ DOMAIN running = Jobs
    /\ DOMAIN attempt = Jobs /\ DOMAIN result = Jobs /\ DOMAIN workers = Jobs
    /\ \A j \in Jobs :
        /\ current[j] \in Numbers(j) /\ running[j] \in Numbers(j) \cup {0}
        /\ attempt[j] \in [Numbers(j) -> AttemptStates]
        /\ result[j] \in [Numbers(j) -> Results \cup {NoResult}]
        /\ workers[j] \in [Numbers(j) -> Nat]
    /\ \A p \in reconciled : \E j \in Jobs : \E n \in Numbers(j) : p = <<j, n>>

\* What the state of an intent says about its current attempt.
Agrees(i, a) ==
    /\ i \in {"none", "completed", "failed", "unknown"} => a = i
    /\ i = "pending" => a \in {"reserved", "dispatched"}
    /\ i = "cancelled" => a \in {"cancelled", "unknown"}

\* The two tables never contradict each other, and what can be read of a Job is
\* evidence: a result exists exactly on a completed attempt, an attempt that is
\* not the current one is a known failure ("Only known failures can create new
\* attempts"), later ones do not exist, and only completed Jobs are acknowledged.
RecordsAgree ==
    /\ \A j \in Jobs :
        /\ Agrees(intent[j], CurrentState(j))
        /\ \A n \in Numbers(j) :
            /\ n < current[j] => attempt[j][n] = "failed"
            /\ n > current[j] => attempt[j][n] = "none"
            /\ attempt[j][n] = "completed" <=> result[j][n] # NoResult
    /\ \A j \in acked : intent[j] = "completed"

\* "A dispatch is a claim": across cancellations, retries, crashes and reopened
\* Hosts an attempt gets at most one Internal Worker, a reserved attempt has none
\* ("Reserved attempts were never started"), and an outcome other than
\* cancellation is never recorded for an attempt that did not run.
OneWorkerPerAttempt ==
    \A j \in Jobs : \A n \in Numbers(j) :
        /\ workers[j][n] <= 1
        /\ attempt[j][n] \in {"none", "reserved"} => workers[j][n] = 0
        /\ attempt[j][n] \in {"dispatched", "completed", "failed", "unknown"} => workers[j][n] = 1

\* Jobs of one serialization key exclude each other: none is pending while
\* another is pending or may have unaccounted effects, and no two tasks run,
\* although acceptance and cancellation end a Job before its task has returned.
KeyExcludes ==
    \A j, k \in Jobs : SameKey(j, k) =>
        /\ intent[j] = "pending" => intent[k] # "pending" /\ ~Uncertain(k)
        /\ ~(Live(j) /\ Live(k))

\* A task that has not returned is one of the current attempt, so it can still
\* settle it, and while a Host is open an attempt is dispatched only as long as
\* its own task runs, unless the write that should have settled it failed.
DispatchedIsOwned ==
    \A j \in Jobs :
        /\ Live(j) => running[j] = current[j]
        /\ open /\ CurrentState(j) = "dispatched" =>
            /\ running[j] = current[j]
            /\ phase[j] = "running"
               \/ (StoreFaults /\ phase[j] \in {"unfenced", "failing", "error"})

\* "Count live resources, not only result states": the tasks that run never
\* exceed the Host's capacity or the ceiling of any Job among them.
CapacityRespected ==
    LET live == {j \in Jobs : Live(j)}
    IN  Cardinality(live) <= Capacity /\ \A j \in live : Cardinality(live) <= Limit[j]

\* A Host that shut down successfully left nothing behind that its successor
\* would have to call unknown: no task, and no attempt still dispatched.
CleanShutdown ==
    ~open /\ closed => \A j \in Jobs : phase[j] = "none" /\ CurrentState(j) # "dispatched"

\* What a step may not do to the evidence of one Job, and of all.
KeepsEvidence(j) ==
    /\ input[j] # "available" => input'[j] # "available"
    /\ \A n \in Numbers(j) :
        /\ result[j][n] # NoResult =>
            result'[j][n] = result[j][n] /\ attempt'[j][n] = "completed"
            /\ intent'[j] = "completed"
        /\ attempt[j][n] = "unknown" => attempt'[j][n] = "unknown"
StepKeepsEvidence == \A j \in Jobs : KeepsEvidence(j)

\* An accepted result and the success it proves outlive every later step; an
\* unknown attempt stays unknown; and a retired input never comes back.
EvidenceKept == [][StepKeepsEvidence]_vars

\* Nobody waits for an execution forever: a dispatched attempt is settled unless
\* the Host goes away.
AttemptSettles ==
    \A j \in Jobs :
        (open /\ CurrentState(j) = "dispatched") ~> (~open \/ CurrentState(j) # "dispatched")

\* A shutdown ends, or reports a task whose cleanup could not be confirmed.
ShutdownEnds == (open /\ closed) ~> (~open \/ \E j \in Jobs : phase[j] = "error")
==============================================================================
