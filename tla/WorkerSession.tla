--------------------------- MODULE WorkerSession ---------------------------
(***************************************************************************)
(* The durable Session of one Worker: the Segment log, the metadata that   *)
(* names the active Segment, the machine-wide allocation table, and the    *)
(* processes that write the log one after the other.  A process accepts    *)
(* submissions and notifications, runs them, executes the Feature          *)
(* invocations they carry, rolls an empty turn back, rewinds, and moves to *)
(* a replacement Segment; it may die between any two steps, and the next   *)
(* process restores from what the log says.                                *)
(*                                                                         *)
(* A Segment is given by what recovery reads of its entries: the inputs of *)
(* the history, in order, and the last pending-activation checkpoint.  A   *)
(* step of a process is what it does between two releases of its append    *)
(* lock or two awaits.                                                     *)
(***************************************************************************)
EXTENDS Integers, Sequences, SequencesExt

CONSTANTS
    Subs,         \* submission requests
    Notes,        \* notifications
    Invs,         \* Feature invocation ids
    InvOf,        \* the invocation a submission carries, or None
    None,
    Procs,        \* Worker processes, each used once
    First,        \* the process that is live at the start
    MaxPending,   \* MAX_PENDING_SUBMISSIONS
    MaxSegments   \* bound: Segments ever created

ASSUME NoneAssumption == None \notin Subs \cup Notes \cup Invs \cup Procs
ASSUME KindsAssumption == Subs \cap Notes = {}
ASSUME InvOfAssumption == InvOf \in [Subs -> Invs \cup {None}]
ASSUME FirstAssumption == First \in Procs
ASSUME BoundsAssumption ==
    /\ MaxPending \in Nat
    /\ MaxSegments \in Nat \ {0}

VARIABLES
    log,      \* the Segments of the Session, by number
    pointer,  \* the active Segment in the Worker's metadata
    alloc,    \* the Worker's row of the allocation table
    lock,     \* the process that holds the allocation table's lock
    proc,     \* what each process is doing, and what it holds in memory
    effects,  \* history: how often each invocation was performed
    owed,     \* history: accepted durably, neither run nor withdrawn since
    stale,    \* history: the log's last checkpoint is older than the memory
    torn,     \* history: the metadata names a Segment its live writer gave up
    astray    \* history: the invocations performed while it did

vars == <<log, pointer, alloc, lock, proc, effects, owed, stale, torn, astray>>
tableVars == <<alloc, lock>>
tornVars == <<torn, astray>>

Segments == 1..MaxSegments

(***************************************************************************)
(* The pending-activation state and what a restart makes of it             *)
(***************************************************************************)
Pending == [activating: Subs \cup {None},
            pending: Seq(Subs),
            direct: SUBSET Subs,
            notifications: Seq(Notes),
            receipts: SUBSET (Subs \cup Notes),
            invocations: [Invs -> {"none", "started", "succeeded", "failed"}]]

NoPending == [activating |-> None, pending |-> <<>>, direct |-> {},
              notifications |-> <<>>, receipts |-> {},
              invocations |-> [i \in Invs |-> "none"]]

Segment == [history: Seq(Subs \cup Notes), checkpoint: Pending]

EmptySegment == [history |-> <<>>, checkpoint |-> NoPending]

\* restore_pending_activations: the activating submission goes back to the head.
RestoredPending(m) ==
    IF m.activating = None THEN m
    ELSE [m EXCEPT !.pending = <<m.activating>> \o @, !.activating = None]

Restored(segment) == RestoredPending(segment.checkpoint)

\* What the clients were told is queued: a submission that was activated at
\* once is only durable with its input.
Queued(m) ==
    ((ToSet(m.pending) \cup {m.activating}) \ (m.direct \cup {None}))
        \cup ToSet(m.notifications)

(***************************************************************************)
(* Processes                                                               *)
(***************************************************************************)
\* "started" has computed its activation extension; "compacting" is a manual
\* compaction; "staged", "begun" and "swapped" hold the append lock.
Turn == {"running", "invoking", "effect", "recording"}
Open == {"idle", "prepared", "started", "paused", "compacting"} \cup Turn
Switching == {"staged", "begun", "swapped"}
Writing == Open \cup Switching
Restoring == {"candidate", "installed", "validated"}
Phases == {"off", "closed", "dead"} \cup Writing \cup Restoring

ProcRecord == [phase: Phases,
               loc: Segments,            \* SegmentState's location
               mem: Pending,             \* the live PendingActivationState
               extension: Pending,       \* the extension of the next input
               source: Segment,          \* what a candidate was read from
               prefix: Segment \cup {None}, \* what a rollback of the turn leaves
               next: Segments,           \* the replacement Segment of a switch
               resume: Phases]           \* the phase a switch was called from

Fresh == [phase |-> "off", loc |-> 1, mem |-> NoPending, extension |-> NoPending,
          source |-> EmptySegment, prefix |-> None, next |-> 1, resume |-> "off"]

NoAllocation == [owner |-> None, segment |-> 1]

Init ==
    /\ log = <<EmptySegment>>
    /\ pointer = 1
    /\ alloc = [owner |-> First, segment |-> 1]
    /\ lock = None
    /\ proc = [p \in Procs |-> IF p = First THEN [Fresh EXCEPT !.phase = "idle"] ELSE Fresh]
    /\ effects = [i \in Invs |-> 0]
    /\ owed = {}
    /\ stale = FALSE /\ torn = FALSE
    /\ astray = [i \in Invs |-> FALSE]

Written(p) == log[proc[p].loc]
Memory(p) == proc[p].mem

\* The invocation of the last submission in the history h.
LastInvocation(h) ==
    LET k == SelectLastInSeq(h, LAMBDA x : x \in Subs)
    IN  IF k = 0 THEN None ELSE InvOf[h[k]]

\* It is that of the turn in progress.
Invocation(p) == LastInvocation(Written(p).history)

\* append_entry_locked: one entry with these inputs and the checkpoint m.
Appends(p, inputs, m) ==
    log' = [log EXCEPT ![proc[p].loc] = [history |-> @.history \o inputs, checkpoint |-> m]]

\* persist_locked: a checkpoint of the memory m, which p then keeps.
Persists(p, m) ==
    /\ Appends(p, <<>>, m)
    /\ stale' = FALSE

(***************************************************************************)
(* Admission                                                               *)
(***************************************************************************)
\* An idle Worker activates a submission at once, in memory only.
AcceptNow(p, s) ==
    LET m == [Memory(p) EXCEPT !.activating = s, !.direct = @ \cup {s},
                               !.receipts = @ \cup {s}]
    IN  /\ proc[p].phase = "idle"
        /\ s \notin Memory(p).receipts
        /\ proc' = [proc EXCEPT ![p].phase = "prepared", ![p].mem = m]
        /\ UNCHANGED <<log, pointer, tableVars, effects, owed, stale, tornVars>>

\* A busy Worker queues it.  No method is taken between the start of a run and
\* the commit of its input.
AcceptQueued(p, s) ==
    LET m == [Memory(p) EXCEPT !.pending = Append(@, s), !.receipts = @ \cup {s}]
    IN  /\ proc[p].phase \in Turn \cup {"paused", "compacting"}
        /\ s \notin Memory(p).receipts
        /\ Len(m.pending) + Len(m.notifications) <= MaxPending
        /\ Persists(p, m)
        /\ proc' = [proc EXCEPT ![p].mem = m]
        /\ owed' = owed \cup {s}
        /\ UNCHANGED <<pointer, tableVars, effects, tornVars>>

\* A notification is accepted in any state: a SubWorker's completion calls the
\* handle from its own task.
AcceptNotification(p, n) ==
    LET m == [Memory(p) EXCEPT !.notifications = Append(@, n),
                               !.receipts = @ \cup {n}]
    IN  /\ proc[p].phase \in Open
        /\ n \notin Memory(p).receipts
        /\ Len(m.pending) + Len(m.notifications) <= MaxPending
        /\ Persists(p, m)
        /\ proc' = [proc EXCEPT ![p].mem = m]
        /\ owed' = owed \cup {n}
        /\ UNCHANGED <<pointer, tableVars, effects, tornVars>>

\* cancel of one queued submission, clear of all of them.
Withdraws(p, m) ==
    /\ proc[p].phase \in Open \ {"prepared", "started"}
    /\ Persists(p, m)
    /\ proc' = [proc EXCEPT ![p].mem = m]
    /\ owed' = owed \ (ToSet(Memory(p).pending) \ ToSet(m.pending))
    /\ UNCHANGED <<pointer, tableVars, effects, tornVars>>

Cancel(p) ==
    \E k \in DOMAIN Memory(p).pending :
        Withdraws(p, [Memory(p) EXCEPT !.pending = RemoveAt(@, k),
                                       !.direct = @ \ {Memory(p).pending[k]}])

Clear(p) ==
    Withdraws(p, [Memory(p) EXCEPT !.pending = <<>>,
                                   !.direct = @ \ ToSet(Memory(p).pending)])

(***************************************************************************)
(* A turn                                                                  *)
(***************************************************************************)
\* prepare_next_activation pops the head in memory only.
PreparedNext(m) == [m EXCEPT !.activating = Head(m.pending), !.pending = Tail(@)]

ContinuePending(p) ==
    /\ proc[p].phase = "idle"
    /\ Memory(p).pending # <<>>
    /\ proc' = [proc EXCEPT ![p].phase = "prepared", ![p].mem = PreparedNext(@)]
    /\ UNCHANGED <<log, pointer, tableVars, effects, owed, stale, tornVars>>

ClearedActivation(m) ==
    [m EXCEPT !.activating = None, !.direct = @ \ {m.activating}]

\* Mutant: the extension still holds the activation it should clear.
StartRunUncleared(p) ==
    /\ proc[p].phase = "prepared"
    /\ proc' = [proc EXCEPT ![p].phase = "started", ![p].extension = Memory(p)]
    /\ UNCHANGED <<log, pointer, tableVars, effects, owed, stale, tornVars>>

\* The controller computes the extension that clears the activation, then
\* starts the run.
StartRun(p) ==
    /\ proc[p].phase = "prepared"
    /\ proc' = [proc EXCEPT ![p].phase = "started",
                            ![p].extension = ClearedActivation(Memory(p))]
    /\ UNCHANGED <<log, pointer, tableVars, effects, owed, stale, tornVars>>

\* The run failed before its input: abort_activation puts a queued submission
\* back and forgets one that was activated at once.  A failed save is logged.
AbortActivation(p) ==
    LET s == Memory(p).activating
        m == IF s \in Memory(p).direct
             THEN [ClearedActivation(Memory(p)) EXCEPT !.receipts = @ \ {s}]
             ELSE [ClearedActivation(Memory(p)) EXCEPT !.pending = <<s>> \o @]
    IN  /\ proc[p].phase = "started"
        /\ proc' = [proc EXCEPT ![p].phase = "idle", ![p].mem = m,
                                ![p].extension = NoPending]
        /\ \/ Persists(p, m)
           \/ UNCHANGED <<log, stale>>
        /\ UNCHANGED <<pointer, tableVars, effects, owed, tornVars>>

\* The input and the clearing extension are one entry; the commit hook then
\* clears the activation in memory.
CommitInput(p) ==
    LET s == Memory(p).activating
        m == ClearedActivation(Memory(p))
    IN  /\ proc[p].phase = "started"
        /\ Appends(p, <<s>>, proc[p].extension)
        /\ stale' = (proc[p].extension # m)
        /\ proc' = [proc EXCEPT
               ![p].phase = IF InvOf[s] = None THEN "running" ELSE "invoking",
               ![p].mem = m,
               ![p].extension = NoPending,
               ![p].prefix = IF InvOf[s] = None THEN Written(p) ELSE None]
        /\ owed' = owed \ {s}
        /\ UNCHANGED <<pointer, tableVars, effects, tornVars>>

\* Mutant: the start is kept in memory until there is a result.
StartInvocationUnsaved(p) ==
    /\ proc[p].phase = "invoking"
    /\ Memory(p).invocations[Invocation(p)] = "none"
    /\ proc' = [proc EXCEPT ![p].phase = "effect",
                            ![p].mem.invocations[Invocation(p)] = "started"]
    /\ UNCHANGED <<log, pointer, tableVars, effects, owed, stale, tornVars>>

\* execute_feature_invocations: the start is durable before the handler runs.
StartInvocation(p) ==
    LET i == Invocation(p)
        m == [Memory(p) EXCEPT !.invocations[i] = "started"]
    IN  /\ proc[p].phase = "invoking"
        /\ Memory(p).invocations[i] = "none"
        /\ Persists(p, m)
        /\ proc' = [proc EXCEPT ![p].phase = "effect", ![p].mem = m]
        /\ UNCHANGED <<pointer, tableVars, effects, owed, tornVars>>

PerformInvocation(p) ==
    LET i == Invocation(p)
    IN  /\ proc[p].phase = "effect"
        /\ effects' = [effects EXCEPT ![i] = @ + 1]
        /\ astray' = IF torn THEN [astray EXCEPT ![i] = TRUE] ELSE astray
        /\ proc' = [proc EXCEPT ![p].phase = "recording"]
        /\ UNCHANGED <<log, pointer, tableVars, owed, stale, torn>>

\* The results the code can record: the handler's own; for a start without a
\* result the unknown outcome; for a recorded result the same one again, or a
\* failure when the capability is gone.
Results(p) ==
    LET r == Memory(p).invocations[Invocation(p)]
    IN  CASE proc[p].phase = "recording" -> {"succeeded", "failed"}
          [] proc[p].phase = "invoking" /\ r = "succeeded" -> {"succeeded", "failed"}
          [] proc[p].phase = "invoking" /\ r # "succeeded" -> {"failed"}
          [] OTHER -> {}

\* Result and receipt are one entry, in which an earlier result stays; a failed
\* result, or a failed append, ends the turn.
RecordInvocation(p) ==
    LET i == Invocation(p)
    IN  \E r \in Results(p) :
            LET m == [Memory(p) EXCEPT !.invocations[i] =
                          IF @ \in {"none", "started"} THEN r ELSE @]
            IN  \/ /\ Persists(p, m)
                   /\ proc' = [proc EXCEPT
                          ![p].phase = IF r = "succeeded" THEN "running" ELSE "idle",
                          ![p].mem = m]
                   /\ UNCHANGED <<pointer, tableVars, effects, owed, tornVars>>
                \/ /\ proc' = [proc EXCEPT ![p].phase = "idle"]
                   /\ UNCHANGED <<log, pointer, tableVars, effects, owed, stale, tornVars>>

\* The interceptor commits the staged notifications before a model request,
\* each in one entry with the state that no longer holds it.
CommitNotification(p) ==
    LET n == Head(Memory(p).notifications)
        m == [Memory(p) EXCEPT !.notifications = Tail(@)]
    IN  /\ proc[p].phase = "running"
        /\ Memory(p).notifications # <<>>
        /\ Appends(p, <<n>>, m)
        /\ stale' = FALSE
        /\ proc' = [proc EXCEPT ![p].mem = m]
        /\ owed' = owed \ {n}
        /\ UNCHANGED <<pointer, tableVars, effects, tornVars>>

\* The model or a tool produced something: the turn is no longer empty.
Activity(p) ==
    /\ proc[p].phase = "running"
    /\ proc[p].prefix # None
    /\ proc' = [proc EXCEPT ![p].prefix = None]
    /\ UNCHANGED <<log, pointer, tableVars, effects, owed, stale, tornVars>>

\* rollback_empty_turn: a cancelled or paused turn without activity is cut out
\* of the log.  The memory of the queue is left as it is.
RollBack(p) ==
    /\ proc[p].phase = "running"
    /\ proc[p].prefix # None
    /\ log' = [log EXCEPT ![proc[p].loc] = proc[p].prefix]
    /\ stale' = (proc[p].prefix.checkpoint # Memory(p))
    /\ proc' = [proc EXCEPT ![p].phase = "idle", ![p].prefix = None]
    /\ UNCHANGED <<pointer, tableVars, effects, owed, tornVars>>

\* The invocation of the last input must have succeeded.
PreparationComplete(p) ==
    Invocation(p) # None => Memory(p).invocations[Invocation(p)] = "succeeded"

\* Finished or LimitReached starts the next submission; every other end waits.
EndTurn(p) ==
    /\ proc[p].phase = "running"
    /\ \/ /\ Memory(p).pending # <<>>
          /\ proc' = [proc EXCEPT ![p].phase = "prepared", ![p].prefix = None,
                                  ![p].mem = PreparedNext(@)]
       \/ proc' = [proc EXCEPT ![p].phase = "idle", ![p].prefix = None]
       \/ proc' = [proc EXCEPT ![p].phase = "paused", ![p].prefix = None]
    /\ UNCHANGED <<log, pointer, tableVars, effects, owed, stale, tornVars>>

\* Resume of a paused run, or a run for the pending notifications.
Resume(p) ==
    /\ \/ proc[p].phase = "paused"
       \/ proc[p].phase = "idle" /\ Memory(p).notifications # <<>>
    /\ PreparationComplete(p)
    /\ proc' = [proc EXCEPT ![p].phase = "running"]
    /\ UNCHANGED <<log, pointer, tableVars, effects, owed, stale, tornVars>>

\* Cancel of a paused run; begin and end of a manual compaction.
ChangeStatus(p) ==
    /\ \E change \in {<<"paused", "idle">>, <<"idle", "compacting">>,
                      <<"compacting", "idle">>} :
           /\ proc[p].phase = change[1]
           /\ proc' = [proc EXCEPT ![p].phase = change[2]]
    /\ UNCHANGED <<log, pointer, tableVars, effects, owed, stale, tornVars>>

\* rewind_to: the prefix before an input and the checkpoint of the memory
\* replace the Segment in one write.
Rewind(p) ==
    /\ proc[p].phase = "idle"
    /\ \E k \in DOMAIN Written(p).history :
           /\ Written(p).history[k] \in Subs
           /\ log' = [log EXCEPT ![proc[p].loc] =
                  [history |-> SubSeq(@.history, 1, k - 1), checkpoint |-> Memory(p)]]
    /\ stale' = FALSE
    /\ UNCHANGED <<pointer, tableVars, proc, effects, owed, tornVars>>

(***************************************************************************)
(* Segment switch: compaction, or the fork of a log that drifted           *)
(***************************************************************************)
\* Mutant: the replacement Segment starts without the queue's checkpoint.
StageSegmentBare(p) ==
    /\ proc[p].phase \in {"started", "running", "compacting"}
    /\ Len(log) < MaxSegments
    /\ log' = Append(log, [Written(p) EXCEPT !.checkpoint = NoPending])
    /\ proc' = [proc EXCEPT ![p].phase = "staged", ![p].resume = proc[p].phase,
                            ![p].next = Len(log) + 1, ![p].prefix = None]
    /\ UNCHANGED <<pointer, tableVars, effects, owed, stale, tornVars>>

StageSegment(p) ==
    /\ proc[p].phase \in {"started", "running", "compacting"}
    /\ Len(log) < MaxSegments
    /\ log' = Append(log, [Written(p) EXCEPT !.checkpoint = Memory(p)])
    /\ proc' = [proc EXCEPT ![p].phase = "staged", ![p].resume = proc[p].phase,
                            ![p].next = Len(log) + 1, ![p].prefix = None]
    /\ UNCHANGED <<pointer, tableVars, effects, owed, stale, tornVars>>

\* begin_segment_activation: lock the table, which must still name the old one.
BeginActivation(p) ==
    /\ proc[p].phase = "staged"
    /\ lock = None
    /\ alloc.owner # None /\ alloc.segment = proc[p].loc
    /\ lock' = p
    /\ proc' = [proc EXCEPT ![p].phase = "begun"]
    /\ UNCHANGED <<log, pointer, alloc, effects, owed, stale, tornVars>>

\* The compare-and-swap of the metadata is the commit point.  If its directory
\* cannot be synced after the rename, the caller takes the write for failed and
\* stays with the old Segment.
SwapMetadata(p) ==
    /\ proc[p].phase = "begun"
    /\ pointer = proc[p].loc
    /\ pointer' = proc[p].next
    /\ stale' = FALSE
    /\ \/ /\ proc' = [proc EXCEPT ![p].phase = "swapped"]
          /\ UNCHANGED <<lock, torn>>
       \/ /\ proc' = [proc EXCEPT ![p].phase = proc[p].resume,
                            ![p].next = 1, ![p].resume = "off"]
          /\ lock' = None /\ torn' = TRUE
    /\ UNCHANGED <<log, alloc, effects, owed, astray>>

CommitActivation(p) ==
    /\ proc[p].phase = "swapped"
    /\ alloc' = [alloc EXCEPT !.segment = proc[p].next]
    /\ lock' = None
    /\ proc' = [proc EXCEPT ![p].phase = proc[p].resume, ![p].loc = proc[p].next,
                            ![p].next = 1, ![p].resume = "off"]
    /\ UNCHANGED <<log, pointer, effects, owed, stale, tornVars>>

\* Mutant: the Worker goes on after the table could not be saved.
FailOpen(p) ==
    /\ proc[p].phase = "swapped"
    /\ alloc' \in {alloc, [alloc EXCEPT !.segment = proc[p].next]}
    /\ lock' = None
    /\ proc' = [proc EXCEPT ![p].phase = proc[p].resume,
                            ![p].next = 1, ![p].resume = "off"]
    /\ UNCHANGED <<log, pointer, effects, owed, stale, tornVars>>

\* The table could not be saved: the Worker keeps the lock and writes no more.
FailClosed(p) ==
    /\ proc[p].phase = "swapped"
    /\ alloc' \in {alloc, [alloc EXCEPT !.segment = proc[p].next]}
    /\ proc' = [proc EXCEPT ![p].phase = "closed"]
    /\ UNCHANGED <<log, pointer, lock, effects, owed, stale, tornVars>>

\* Anything before the commit point may fail: the old Segment stays active.
SwitchFails(p) ==
    /\ proc[p].phase \in {"staged", "begun"}
    /\ lock' = IF lock = p THEN None ELSE lock
    /\ proc' = [proc EXCEPT ![p].phase = proc[p].resume,
                            ![p].next = 1, ![p].resume = "off"]
    /\ UNCHANGED <<log, pointer, alloc, effects, owed, stale, tornVars>>

(***************************************************************************)
(* The end of a process, and the restore in the next one                   *)
(***************************************************************************)
\* With the memory goes what only the memory knew.
Forget(p) ==
    /\ proc' = [proc EXCEPT ![p] = [Fresh EXCEPT !.phase = "dead"]]
    /\ IF proc[p].phase \in Writing /\ (stale \/ torn)
       THEN owed' = Queued(Restored(log[pointer])) /\ stale' = FALSE /\ torn' = FALSE
       ELSE UNCHANGED <<owed, stale, torn>>

\* A shutdown releases the row; a fail-closed Worker drops its lock first.
Stop(p) ==
    /\ proc[p].phase \in {"idle", "paused", "closed"}
    /\ lock \in {None, p}
    /\ lock' = None
    /\ alloc' = NoAllocation
    /\ Forget(p)
    /\ UNCHANGED <<log, pointer, effects, astray>>

\* A crash frees the lock and leaves the row behind.
Crash(p) ==
    /\ proc[p].phase \notin {"off", "dead"}
    /\ lock' = IF lock = p THEN None ELSE lock
    /\ Forget(p)
    /\ UNCHANGED <<log, pointer, alloc, effects, astray>>

\* The last check before the allocation is where the candidate was read: an
\* earlier read that passes it has read the same.
ReadCandidate(p) ==
    /\ proc[p].phase = "off"
    /\ proc' = [proc EXCEPT ![p].phase = "candidate",
                            ![p].loc = pointer,
                            ![p].source = log[pointer]]
    /\ UNCHANGED <<log, pointer, tableVars, effects, owed, stale, tornVars>>

\* revalidate: metadata and entries are those the candidate was read from.
Unchanged(p) == pointer = proc[p].loc /\ Written(p) = proc[p].source

\* reclaim_stale drops the row of a dead process; a live one is a duplicate.
Claimable == alloc.owner \in {None} \cup {q \in Procs : proc[q].phase = "dead"}

Install(p) ==
    /\ proc[p].phase = "candidate"
    /\ lock = None
    /\ Claimable
    /\ alloc' = [owner |-> p, segment |-> proc[p].loc]
    /\ proc' = [proc EXCEPT ![p].phase = "installed"]
    /\ UNCHANGED <<log, pointer, lock, effects, owed, stale, tornVars>>

CheckAfter(p) ==
    /\ proc[p].phase = "installed"
    /\ Unchanged(p)
    /\ proc' = [proc EXCEPT ![p].phase = "validated"]
    /\ UNCHANGED <<log, pointer, tableVars, effects, owed, stale, tornVars>>

\* Any failure before the Worker exists gives its row back.
Discard(p) ==
    /\ proc[p].phase \in Restoring
    /\ proc[p].phase \in {"installed", "validated"} => lock = None
    /\ alloc' = IF proc[p].phase \in {"installed", "validated"} THEN NoAllocation ELSE alloc
    /\ proc' = [proc EXCEPT ![p] = Fresh]
    /\ UNCHANGED <<log, pointer, lock, effects, owed, stale, tornVars>>

\* finish_restored_construction writes the metadata; the controller then
\* starts the head of the restored queue.
Activate(p) ==
    /\ proc[p].phase = "validated"
    /\ pointer' = proc[p].loc
    /\ LET m == Restored(proc[p].source)
       IN  proc' = [proc EXCEPT
               ![p].phase = IF m.pending = <<>> THEN "idle" ELSE "prepared",
               ![p].mem = IF m.pending = <<>> THEN m ELSE PreparedNext(m),
               ![p].source = EmptySegment]
    /\ UNCHANGED <<log, tableVars, effects, owed, stale, tornVars>>

(***************************************************************************)
Admission(p) ==
    \/ \E s \in Subs : AcceptNow(p, s) \/ AcceptQueued(p, s)
    \/ \E n \in Notes : AcceptNotification(p, n)
    \/ Cancel(p) \/ Clear(p)

TurnStep(p) ==
    \/ ContinuePending(p) \/ StartRun(p) \/ AbortActivation(p) \/ CommitInput(p)
    \/ StartInvocation(p) \/ PerformInvocation(p) \/ RecordInvocation(p)
    \/ CommitNotification(p) \/ Activity(p) \/ RollBack(p) \/ EndTurn(p)
    \/ Resume(p) \/ ChangeStatus(p) \/ Rewind(p)

SwitchStep(p) ==
    \/ StageSegment(p) \/ BeginActivation(p) \/ SwapMetadata(p)
    \/ CommitActivation(p) \/ FailClosed(p) \/ SwitchFails(p)

Lifecycle(p) ==
    \/ Stop(p) \/ Crash(p) \/ ReadCandidate(p) \/ Install(p) \/ CheckAfter(p)
    \/ Discard(p) \/ Activate(p)

Next == \E p \in Procs : Admission(p) \/ TurnStep(p) \/ SwitchStep(p) \/ Lifecycle(p)

Spec == Init /\ [][Next]_vars

(***************************************************************************)
(* Properties                                                              *)
(***************************************************************************)
TypeOK ==
    /\ log \in Seq(Segment) /\ Len(log) \in Segments
    /\ pointer \in 1..Len(log)
    /\ alloc \in [owner: Procs \cup {None}, segment: Segments]
    /\ lock \in Procs \cup {None}
    /\ proc \in [Procs -> ProcRecord]
    /\ effects \in [Invs -> Nat]
    /\ owed \subseteq Subs \cup Notes
    /\ stale \in BOOLEAN /\ torn \in BOOLEAN
    /\ astray \in [Invs -> BOOLEAN]

\* What a restart would queue is exactly what the clients were promised: each
\* acceptance that was neither run nor withdrawn, and nothing else, whatever
\* Segment the metadata names (persist_locked, commit of the input, create of
\* the replacement Segment, rewind_to).  The exceptions are a log cut by
\* rollback_empty_turn, or an input written with an extension computed before
\* the last acceptance, until the next checkpoint; and a writer that stays with
\* the Segment its own failed metadata write had replaced, until it ends.
RestartOwesTheSame == stale \/ torn \/ Queued(Restored(log[pointer])) = owed

\* No input is twice in the history of the active Segment, and none is there
\* and still recoverable from the queue, also not after rollback_empty_turn cut
\* the log (commit of input and extension in one entry, receipts, Segment switch).
InputOnce ==
    LET h == log[pointer].history
    IN  /\ \A j, k \in DOMAIN h : h[j] = h[k] => j = k
        /\ ToSet(h) \cap Queued(Restored(log[pointer])) = {}

\* No invocation is performed twice, whatever crash, rewind, Segment switch or
\* second submission with the same invocation id comes between
\* (execute_feature_invocations); but for the ones performed by a writer that
\* stayed with the Segment its failed metadata write had replaced: their start
\* is where no restart looks.
InvokedOnce == \A i \in Invs : astray[i] \/ effects[i] <= 1

\* At most one process can write the Session, and it writes where the allocation
\* row points (activation of a Segment, restore).  The metadata points there too,
\* unless a write of it failed after the rename: the caller then goes on in the
\* old Segment, though the "metadata pointer is the durable commit point" and
\* everything before it leaves "the current Segment and live session untouched"
\* (worker.rs:9286-9291).  Nobody else writes then, and it ends with the process.
WriterIsPublished ==
    /\ torn => \E p \in Procs : proc[p].phase \in Writing
    /\ \A p \in Procs :
        /\ proc[p].phase \in Writing =>
               /\ alloc.owner = p /\ alloc.segment = proc[p].loc
               /\ \/ pointer = IF proc[p].phase = "swapped" THEN proc[p].next
                               ELSE proc[p].loc
                  \/ torn
        /\ proc[p].phase = "closed" => \A q \in Procs \ {p} : proc[q].phase \notin Writing

\* A rolled-back turn takes no accepted input with it that is still owed
\* (rollback_empty_turn cuts the log behind the append lock's back).
RollbackKeepsAccepted ==
    [][\A p \in Procs : RollBack(p) =>
           owed \cap Queued(Restored(log[pointer]))
               \subseteq Queued(Restored(log'[pointer']))]_vars

=============================================================================
