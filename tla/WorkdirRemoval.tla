--------------------------- MODULE WorkdirRemoval ---------------------------
(***************************************************************************)
(* The durable removal of one Workdir: a Backend process reserves the      *)
(* operation of a request, claims an attempt, reads the guards, observes   *)
(* the Runtime, asks it once to delete, and records what it learnt; a      *)
(* restarted Backend, or the same request sent again, may only observe.    *)
(* Beside it run the attachment of Workers, requests that retry the        *)
(* Workdir's creation, the copy of Runtime observations into the registry  *)
(* and the Runtime that executes deletions and creations, perhaps long     *)
(* after the Backend stopped waiting.                                      *)
(*                                                                         *)
(* Every Backend process serves the Workdir one execution at a time (the   *)
(* per-Workdir mutex); two processes may overlap, as when an old one is    *)
(* still alive while its successor starts.                                 *)
(***************************************************************************)
EXTENDS Naturals, FiniteSets

CONSTANTS
    Ops,          \* removal requests: one operation id each
    Procs,        \* Backend process incarnations (pid and start marker)
    Nobody,       \* an attempt without an owner
    MaxAttempts,  \* bound: attempts ever claimed
    MaxRetries    \* bound: retries of the failed creation

ASSUME NobodyAssumption == Nobody \notin Procs /\ Nobody \notin Ops
ASSUME MaxAttemptsAssumption == MaxAttempts \in Nat
ASSUME MaxRetriesAssumption == MaxRetries \in Nat

VARIABLES
    ops,       \* the operation rows: state, attempt, owner, fingerprint
    proc,      \* what each Backend process is doing
    reg,       \* the registry row: "none", or its materialization fingerprint
    att,       \* the attachment of a Worker in the Backend's tables
    create,    \* the Workdir's create operation
    retries,   \* retries of the failed creation so far
    maker,     \* how far each process is with a request for the creation
    syncing,   \* a Runtime observation read and not yet written back
    present,   \* the Runtime holds the materialization
    assigned,  \* a Worker of the Runtime holds the Workdir
    asks,      \* creations asked of the Runtime and not yet executed
    stray,     \* auxiliary: the directory, or the loss of the registry row, is
               \* the work of a request whose create operation was over
    flight,    \* deletions asked of the Runtime and not yet executed
    sent,      \* history: deletions asked, by operation
    tick       \* attempts claimed so far: the next attempt id

vars == <<ops, proc, reg, att, create, retries, maker, syncing, present, assigned, asks, stray,
          flight, sent, tick>>

dbVars == <<ops, reg, att, create, tick>>
makeVars == <<retries, maker, asks, stray>>
runtimeVars == <<present, assigned, flight, sent>>

Prints == {"partial", "full"}
Terminal == {"failed", "retained", "removed"}
Phases == {"new", "dead", "idle", "claim", "guards", "observe", "delete",
           "wait", "refused", "unconfirmed", "interrupted", "reconcile", "commit"}

OpRecord == [state: {"none", "pending"} \cup Terminal, attempt: 0..MaxAttempts,
             owner: Procs \cup {Nobody}, print: Prints]

NoOp == [state |-> "none", attempt |-> 0, owner |-> Nobody, print |-> "full"]

ProcRecord == [phase: Phases, op: Ops \cup {Nobody}, seen: OpRecord, recovery: BOOLEAN]

Stages == {"none", "look", "asked", "record"}

Resting(phase) == [phase |-> phase, op |-> Nobody, seen |-> NoOp, recovery |-> FALSE]

TypeOK ==
    /\ ops \in [Ops -> OpRecord]
    /\ proc \in [Procs -> ProcRecord]
    /\ reg \in {"none"} \cup Prints
    /\ att \in {"none", "reserved", "linked"}
    /\ create \in {"settled", "failed", "pending"}
    /\ retries \in 0..MaxRetries
    /\ maker \in [Procs -> Stages]
    /\ asks \subseteq Procs /\ stray \in BOOLEAN
    /\ syncing \in BOOLEAN /\ present \in BOOLEAN /\ assigned \in BOOLEAN
    /\ flight \subseteq Ops
    /\ sent \in [Ops -> Nat]
    /\ tick \in 0..MaxAttempts

\* A registered Workdir; "partial" is the row a Worker launch writes before
\* the Runtime reported the created reference and tree.
Init ==
    /\ ops = [o \in Ops |-> NoOp]
    /\ proc = [p \in Procs |-> Resting("new")]
    /\ reg \in Prints
    /\ att = "none"
    /\ create \in {"settled", "failed"} /\ retries = 0
    /\ maker = [p \in Procs |-> "none"] /\ asks = {} /\ stray = FALSE
    /\ syncing = FALSE /\ present = TRUE /\ assigned = FALSE
    /\ flight = {}
    /\ sent = [o \in Ops |-> 0]
    /\ tick = 0

-----------------------------------------------------------------------------
(* What the transactions test.                                             *)

Pending(o) == ops[o].state = "pending"

\* require_no_removal_blockers, and the guards the store reads: an active
\* link, a reservation, a create operation still under way.  The Ticket and
\* retention guards are joins on the active link.
Blocked == att # "none" \/ create = "pending"

\* Mutant: the prior owner is not looked up in the process table.
OrphanedUnchecked(row) == TRUE

\* workdir_removal_attempt_is_orphaned: no owner, or an owner that is gone.
Orphaned(row) ==
    row.owner \in {Nobody} \cup {q \in Procs : proc[q].phase = "dead"}

\* completed_workdir_removal for this fingerprint.
AlreadyRemoved(o) == \E q \in Ops : ops[q].state = "removed" /\ ops[q].print = ops[o].print

\* require_matching_attempt, after the non-pending early return: the attempt
\* the process claimed is still the one in the row.
Matches(p) ==
    LET row == ops[proc[p].op] IN
    row.attempt = proc[p].seen.attempt /\ row.owner = proc[p].seen.owner

Up(p) == proc[p].phase \notin {"new", "dead"}
Idle(p) == proc[p].phase = "idle"
At(p, phase) == proc[p].phase = phase

Goto(p, phase) == proc' = [proc EXCEPT ![p].phase = phase]
Rest(p, phase) == proc' = [proc EXCEPT ![p] = Resting(phase)]

\* The row after a write that ends the attempt in `state`; the owner columns
\* are cleared, the attempt id stays.
Ended(row, state) == [row EXCEPT !.state = state, !.owner = Nobody]

\* fail_, complete_retained and record_unknown: nothing if the operation is
\* no longer pending, an error that leaves the row if the attempt changed.
Settle(p, state) ==
    LET o == proc[p].op IN
    /\ ops' = IF Pending(o) /\ Matches(p)
              THEN [ops EXCEPT ![o] = Ended(@, state)] ELSE ops
    /\ Rest(p, "idle")
    /\ UNCHANGED <<reg, att, create, tick, syncing, runtimeVars, makeVars>>

-----------------------------------------------------------------------------
(* A Backend process.                                                      *)

\* Startup: recover_workdir_removals runs before requests are served.  At
\* most one operation of a Workdir is pending, so the list has one entry.
Start(p) ==
    /\ At(p, "new")
    /\ IF \E o \in Ops : Pending(o)
       THEN \E o \in Ops :
              /\ Pending(o)
              /\ proc' = [proc EXCEPT ![p] = [phase |-> "claim", op |-> o,
                             seen |-> ops[o], recovery |-> TRUE]]
       ELSE Rest(p, "idle")
    /\ UNCHANGED <<dbVars, syncing, runtimeVars, makeVars>>

Crash(p) ==
    /\ Up(p)
    /\ Rest(p, "dead")
    /\ maker' = [maker EXCEPT ![p] = "none"]
    /\ UNCHANGED <<dbVars, syncing, runtimeVars, asks, stray, retries>>

\* Mutant: a request whose operation failed is opened again by a resend.
RequestReopening(p, o) ==
    LET row == IF ops[o].state \in {"pending", "retained", "removed"} THEN ops[o]
               ELSE [NoOp EXCEPT !.state = "pending", !.print = reg] IN
    /\ Idle(p)
    /\ reg # "none" /\ \A q \in Ops : ~Pending(q)
    /\ ops' = [ops EXCEPT ![o] = row]
    /\ proc' = [proc EXCEPT ![p] =
                  IF row.state = "pending"
                  THEN [phase |-> "claim", op |-> o, seen |-> row, recovery |-> FALSE]
                  ELSE @]
    /\ UNCHANGED <<reg, att, create, tick, syncing, runtimeVars, makeVars>>

\* Mutant: the reservation does not require a registry row.
RequestUnregistered(p, o) ==
    LET row == IF ops[o].state # "none" THEN ops[o]
               ELSE [NoOp EXCEPT !.state = "pending", !.print = reg] IN
    /\ Idle(p)
    /\ ops[o].state # "none" \/ \A q \in Ops : ~Pending(q)
    /\ ops' = [ops EXCEPT ![o] = row]
    /\ proc' = [proc EXCEPT ![p] =
                  IF row.state = "pending"
                  THEN [phase |-> "claim", op |-> o, seen |-> row, recovery |-> FALSE]
                  ELSE @]
    /\ UNCHANGED <<reg, att, create, tick, syncing, runtimeVars, makeVars>>

\* execute_workdir_removal up to the reservation: the existing row of the
\* request, whatever its state, or a new one unless another removal of the
\* Workdir is pending.  A missing registry row answers the request at once.
Request(p, o) ==
    LET row == IF ops[o].state # "none" THEN ops[o]
               ELSE [NoOp EXCEPT !.state = "pending", !.print = reg] IN
    /\ Idle(p)
    /\ \/ ops[o].state # "none"
       \/ reg # "none" /\ \A q \in Ops : ~Pending(q)
    /\ ops' = [ops EXCEPT ![o] = row]
    /\ proc' = [proc EXCEPT ![p] =
                  IF row.state = "pending"
                  THEN [phase |-> "claim", op |-> o, seen |-> row, recovery |-> FALSE]
                  ELSE @]
    /\ UNCHANGED <<reg, att, create, tick, syncing, runtimeVars, makeVars>>

\* Whether the claim succeeds.  A row never attempted is begun, unless an
\* attempt appeared meanwhile; one already attempted, and every row met in
\* recovery, is reclaimed once its owner is shown dead, if neither owner nor
\* attempt changed since it was read.
Begins(p) == ~proc[p].recovery /\ proc[p].seen.attempt = 0
Claimable(p) ==
    LET row == ops[proc[p].op] IN
    IF Begins(p) THEN row.attempt = 0
    ELSE Orphaned(proc[p].seen) /\ Matches(p)

\* Mutant: a reclaimed attempt is run again from its guards.
CourseResuming(p) == "guards"

\* Where the claimed attempt continues: a recovered row that was never begun
\* is failed, an older attempt is reconciled, a fresh one runs in full.
Course(p) ==
    IF Begins(p) THEN "guards"
    ELSE IF proc[p].seen.attempt = 0 THEN "interrupted" ELSE "reconcile"

Claim(p) ==
    LET o == proc[p].op
        row == [ops[o] EXCEPT !.attempt = tick + 1, !.owner = p] IN
    /\ At(p, "claim") /\ Pending(o) /\ Claimable(p) /\ tick < MaxAttempts
    /\ tick' = tick + 1
    /\ ops' = [ops EXCEPT ![o] = row]
    /\ proc' = [proc EXCEPT ![p].phase = Course(p), ![p].seen = row]
    /\ UNCHANGED <<reg, att, create, syncing, runtimeVars, makeVars>>

\* The operation settled meanwhile, its owner lives, or the row changed.
ClaimRefused(p) ==
    /\ At(p, "claim")
    /\ ~Pending(proc[p].op) \/ ~Claimable(p)
    /\ Rest(p, "idle")
    /\ UNCHANGED <<dbVars, syncing, runtimeVars, makeVars>>

\* A request that was reserved and never begun is not begun by recovery.
Interrupted(p) == At(p, "interrupted") /\ Settle(p, "failed")

\* workdir_removal_guards: a registry row that is gone or describes another
\* materialization fails the attempt, a live authority retains the Workdir.
Guards(p) ==
    LET o == proc[p].op IN
    /\ At(p, "guards")
    /\ IF reg # ops[o].print THEN Settle(p, "failed")
       ELSE IF Blocked THEN Settle(p, "retained")
       ELSE Goto(p, "observe") /\ UNCHANGED <<dbVars, syncing, runtimeVars, makeVars>>

\* The observation that precedes the deletion.  An unreachable or unclear
\* Runtime and a different identity fail the attempt, an occupant or changes
\* retain the Workdir; a corrupted summary carries no identity and is left
\* to the Runtime's own checks.
Observe(p) ==
    /\ At(p, "observe")
    /\ \/ Settle(p, "failed")
       \/ present /\ Settle(p, "retained")
       \/ /\ \/ ~present /\ Goto(p, "commit")
             \/ present /\ ~assigned /\ Goto(p, "delete")
          /\ UNCHANGED <<dbVars, syncing, runtimeVars, makeVars>>

\* The DELETE leaves for the Runtime, unless the Runtime is no longer
\* registered: an error of the registry counts as an unknown outcome.
Delete(p) ==
    LET o == proc[p].op IN
    /\ At(p, "delete")
    /\ \/ /\ flight' = flight \cup {o}
          /\ sent' = [sent EXCEPT ![o] = @ + 1]
          /\ Goto(p, "wait")
          /\ UNCHANGED <<dbVars, syncing, present, assigned, makeVars>>
       \/ Settle(p, "pending")

\* The answer arrived: refused with a category, or accepted without saying
\* that the directory is gone (a confirmed deletion leads to the commit).
Answer(p) ==
    \/ At(p, "refused") /\ Settle(p, "failed")
    \/ At(p, "unconfirmed") /\ Settle(p, "pending")

\* No answer within the HTTP timeout, a broken connection or an unreadable
\* answer: the Runtime client reports a rejection with a transport
\* diagnostic, which has no cleanup category, and the attempt is failed.
NoAnswer(p) == At(p, "wait") /\ Settle(p, "failed")

\* reconcile_workdir_removal: nothing but observation.
Reconcile(p) ==
    LET o == proc[p].op IN
    /\ At(p, "reconcile")
    /\ \/ reg = "none" /\ ~AlreadyRemoved(o) /\ Settle(p, "failed")
       \/ reg # "none" /\ reg # ops[o].print /\ Settle(p, "failed")
       \/ /\ \/ reg = "none" /\ AlreadyRemoved(o)
             \/ reg = ops[o].print /\ ~present
          /\ Goto(p, "commit")
          /\ UNCHANGED <<dbVars, syncing, runtimeVars, makeVars>>
       \/ reg = ops[o].print /\ Settle(p, "pending")

\* finish_workdir_removal_operation with delete_registry: the row of the same
\* materialization goes, with the completed operation, in one transaction.
Committable(o) ==
    \/ reg = ops[o].print /\ ~Blocked
    \/ reg = "none" /\ AlreadyRemoved(o)

Commit(p) ==
    LET o == proc[p].op IN
    /\ At(p, "commit")
    /\ IF Pending(o) /\ Matches(p) /\ Committable(o)
       THEN ops' = [ops EXCEPT ![o] = Ended(@, "removed")] /\ reg' = "none"
       ELSE UNCHANGED <<ops, reg>>
    /\ Rest(p, "idle")
    /\ UNCHANGED <<att, create, tick, syncing, runtimeVars, makeVars>>

-----------------------------------------------------------------------------
(* Attachments: refused while a removal of the Workdir is pending.          *)

\* Mutant: attachments do not look for a pending removal.
AttachFenceOpen == reg # "none"

AttachFence == reg # "none" /\ \A o \in Ops : ~Pending(o)

ReserveAttachment ==
    /\ AttachFence /\ att = "none"
    /\ att' = "reserved"
    /\ UNCHANGED <<ops, reg, create, tick, proc, syncing, runtimeVars, makeVars>>

\* A reservation belongs to a launch; it becomes a link once the Runtime
\* accepted the Worker, without looking at removals again.
FinalizeAttachment ==
    /\ att = "reserved" /\ assigned
    /\ att' = "linked"
    /\ UNCHANGED <<ops, reg, create, tick, proc, syncing, runtimeVars, makeVars>>

ReleaseReservation ==
    /\ att = "reserved" /\ ~assigned
    /\ att' = "none"
    /\ UNCHANGED <<ops, reg, create, tick, proc, syncing, runtimeVars, makeVars>>

\* attach_worker_workdir: recovery and reconnection of a Worker.
Attach ==
    /\ AttachFence /\ att = "none"
    /\ att' = "linked"
    /\ UNCHANGED <<ops, reg, create, tick, proc, syncing, runtimeVars, makeVars>>

Unlink ==
    /\ att = "linked"
    /\ att' = "none"
    /\ UNCHANGED <<ops, reg, create, tick, proc, syncing, runtimeVars, makeVars>>

-----------------------------------------------------------------------------
(* Creation and observation.                                                *)

\* A process that serves requests: startup recovery is behind it.
Serves(p) == Up(p) /\ ~proc[p].recovery

\* Mutant: a retry of a failed creation does not look for a pending removal.
CreateRetryUnfenced(p) ==
    /\ Serves(p) /\ maker[p] = "none" /\ p \notin asks
    /\ \/ create = "failed" /\ retries < MaxRetries /\ retries' = retries + 1
       \/ create = "pending" /\ retries' = retries
    /\ create' = "pending"
    /\ maker' = [maker EXCEPT ![p] = "look"]
    /\ UNCHANGED <<ops, reg, att, tick, proc, syncing, runtimeVars, asks, stray>>

\* create_workspace_working_directory up to the Runtime: the retry of a failed
\* operation has a fence (begin_failed_workdir_create_retry); one found pending
\* is taken up as it is, whether or not another request runs it.
CreateRetry(p) ==
    /\ Serves(p) /\ maker[p] = "none" /\ p \notin asks
    /\ \/ /\ create = "failed" /\ \A o \in Ops : ~Pending(o)
          /\ retries < MaxRetries /\ retries' = retries + 1
       \/ create = "pending" /\ retries' = retries
    /\ create' = "pending"
    /\ maker' = [maker EXCEPT ![p] = "look"]
    /\ UNCHANGED <<ops, reg, att, tick, proc, syncing, runtimeVars, asks, stray>>

\* finish_workdir_create_operation: only a pending operation is settled.
Finished(state) == IF create = "pending" THEN state ELSE create

\* The Runtime is unavailable or cannot be asked: the registry row stays.
CreateUnavailable(p) ==
    /\ maker[p] = "look"
    /\ create' = Finished("failed")
    /\ maker' = [maker EXCEPT ![p] = "none"]
    /\ UNCHANGED <<ops, reg, att, tick, proc, syncing, runtimeVars, asks, stray, retries>>

\* An existing directory is recorded; if none was reported, perhaps wrongly,
\* the Runtime is asked for one.
CreateAsk(p) ==
    /\ maker[p] = "look"
    /\ \/ /\ present
          /\ maker' = [maker EXCEPT ![p] = "record"] /\ asks' = asks
       \/ maker' = [maker EXCEPT ![p] = "asked"] /\ asks' = asks \cup {p}
    /\ UNCHANGED <<dbVars, proc, syncing, runtimeVars, stray, retries>>

\* create_working_directory of the Runtime: it refuses, or the directory is
\* there and the request, if it still waits, learns so.
CreateExecutes(p) ==
    /\ p \in asks
    /\ asks' = asks \ {p}
    /\ \/ UNCHANGED <<present, maker, stray>>
       \/ /\ present' = TRUE
          /\ stray' = IF create # "pending" THEN TRUE ELSE stray
          /\ maker' = [maker EXCEPT ![p] = IF @ = "asked" THEN "record" ELSE @]
    /\ UNCHANGED <<dbVars, proc, syncing, assigned, flight, sent, retries>>

\* The row is written whatever became of the operation since.
CreateSucceeds(p) ==
    /\ maker[p] = "record"
    /\ reg' = "full" /\ create' = Finished("settled")
    /\ maker' = [maker EXCEPT ![p] = "none"]
    /\ UNCHANGED <<ops, att, tick, proc, syncing, runtimeVars, asks, stray, retries>>

\* The Runtime refused, or did not answer in time: the registry row goes,
\* unless a Worker is attached (delete_workdir_registry).
CreateFails(p) ==
    /\ maker[p] = "asked"
    /\ reg' = IF att = "none" THEN "none" ELSE reg
    /\ create' = Finished("failed")
    /\ stray' = IF create # "pending" /\ att = "none" THEN TRUE ELSE stray
    /\ maker' = [maker EXCEPT ![p] = "none"]
    /\ UNCHANGED <<ops, att, tick, proc, syncing, runtimeVars, asks, retries>>

\* reconcile_runtime_workdir_observations: the registry row is read, and
\* written back from the Runtime's summary in another transaction.
SyncRead ==
    /\ ~syncing /\ reg # "none" /\ present
    /\ syncing' = TRUE
    /\ UNCHANGED <<dbVars, proc, runtimeVars, makeVars>>

SyncWrite ==
    /\ syncing
    /\ syncing' = FALSE /\ reg' = "full"
    /\ UNCHANGED <<ops, att, create, tick, proc, runtimeVars, makeVars>>

-----------------------------------------------------------------------------
(* The Runtime.                                                             *)

\* A Worker is created, restored or removed there; a Worker is given the
\* Workdir only for an attachment of the Backend and while it exists.
Assign ==
    /\ att # "none" /\ present /\ ~assigned
    /\ assigned' = TRUE
    /\ UNCHANGED <<dbVars, proc, syncing, present, flight, sent, makeVars>>

Unassign ==
    /\ assigned
    /\ assigned' = FALSE
    /\ UNCHANGED <<dbVars, proc, syncing, present, flight, sent, makeVars>>

\* cleanup_working_directory: refused for an assigned Workdir or for a reason
\* of the provider; a missing directory is reported as such.  The process that
\* still waits for the answer gets it, unless it is lost.
Execute(o) ==
    /\ o \in flight
    /\ flight' = flight \ {o}
    /\ \E answer \in {"refused", "unconfirmed", "commit", "wait"} :
        /\ \/ answer \in {"refused", "wait"} /\ present /\ present' = present
           \/ answer # "refused" /\ ~assigned /\ present' = FALSE
        /\ proc' = [p \in Procs |-> IF At(p, "wait") /\ proc[p].op = o
                                    THEN [proc[p] EXCEPT !.phase = answer] ELSE proc[p]]
    /\ stray' = IF present' THEN stray ELSE FALSE
    /\ UNCHANGED <<dbVars, syncing, assigned, sent, retries, maker, asks>>

-----------------------------------------------------------------------------

Backend(p) ==
    \/ Start(p) \/ Crash(p) \/ \E o \in Ops : Request(p, o)
    \/ Claim(p) \/ ClaimRefused(p) \/ Interrupted(p) \/ Guards(p) \/ Observe(p) \/ Delete(p)
    \/ Answer(p) \/ NoAnswer(p) \/ Reconcile(p) \/ Commit(p)

Creation(p) ==
    \/ CreateRetry(p) \/ CreateUnavailable(p) \/ CreateAsk(p)
    \/ CreateExecutes(p) \/ CreateSucceeds(p) \/ CreateFails(p)

Attachments ==
    ReserveAttachment \/ FinalizeAttachment \/ ReleaseReservation \/ Attach \/ Unlink

Next ==
    \/ \E p \in Procs : Backend(p) \/ Creation(p)
    \/ Attachments
    \/ SyncRead \/ SyncWrite
    \/ Assign \/ Unassign \/ \E o \in Ops : Execute(o)

Spec == Init /\ [][Next]_vars

-----------------------------------------------------------------------------
(* Properties.                                                              *)

\* However often a request is sent, and whatever Backend dies, restarts or
\* overlaps with another, its operation asks the Runtime to delete at most
\* once: "Recovery may confirm an external effect, but never issues another
\* deletion" (execute_reserved_workdir_removal_with_provider).
DeletesOnce == \A o \in Ops : sent[o] <= 1

\* While a deletion is on its way for an operation still pending, nothing may
\* come to depend on the Workdir: no Worker is attached or reserved and no
\* creation is under way, though each of these is admitted by a transaction
\* of its own (reserve_worker_workdir_attachment, attach_worker_workdir,
\* begin_failed_workdir_create_retry against workdir_removal_guards).
NobodyAttachesMeanwhile ==
    \A o \in flight : Pending(o) => ~Blocked

\* An attempt has one executor: two Backend processes that run on the same
\* operation's current attempt would both settle it
\* (begin_workdir_removal_attempt_inner).
OneExecutor ==
    \A p, q \in Procs :
       /\ p # q
       /\ {proc[p].phase, proc[q].phase} \cap {"new", "dead", "idle", "claim"} = {}
       => proc[p].op # proc[q].op

\* An operation that asked for the deletion is recorded as removed only when
\* the Runtime holds no materialization at that moment, whether it learnt so
\* from the answer or, much later, from an observation: the absence it saw
\* has to survive until commit_workdir_removal_removed.  (Recovery of an
\* attempt that died before its guards reads no guards, so a creation under
\* way may end between its observation and its commit.)  The exception is the
\* work of a stray request for the creation, one that goes on, or whose call
\* the Runtime executes, after another request settled the create operation:
\* no guard of the removal sees it.
RemovedIsGone ==
    [][\A o \in Ops :
          /\ sent[o] = 1
          /\ ops[o].state # "removed" /\ ops'[o].state = "removed"
          => ~present' \/ stray']_vars

\* What a request was answered stays its answer: no late process, resend or
\* recovery changes an operation once it failed, was retained or removed.
AnswerIsFinal ==
    [][\A o \in Ops : ops[o].state \in Terminal => ops'[o] = ops[o]]_vars

\* An operation is recorded as failed only once no deletion it asked for can
\* still be executed: an uncertain outcome is kept pending.
UncertainIsKept == \A o \in Ops : ops[o].state = "failed" => o \notin flight
=============================================================================
