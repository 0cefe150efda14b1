--------------------------- MODULE WorkerLifecycle ---------------------------
(***************************************************************************)
(* Restore, Stop and Delete of one Worker in a Runtime: the Worker record   *)
(* in memory and on disk (worker-runtime/src/runtime.rs), the continuation  *)
(* that outlives a caller (runtime/restore_continuation.rs) and the         *)
(* execution backend with the resources of an unpublished candidate         *)
(* (worker_backend.rs).                                                     *)
(*                                                                          *)
(* One lock per Worker serialises requests, continuation and startup; its   *)
(* holder is `job`.  Beside it runs at most one task of the backend, which  *)
(* the holder may stop waiting for but never cancels.                       *)
(*                                                                          *)
(* An observation token is not part of the state: a request with a stale    *)
(* token is refused without effect, and a client can read the current one   *)
(* at any time.  Operation ids are the names of the requests that create    *)
(* them, "auto" for the restore at startup and "anon" for a Stop without    *)
(* an intent.                                                               *)
(***************************************************************************)
CONSTANTS Restores,     \* ids of Restore requests
          Stops,        \* ids of Stop intents
          Nobody

ASSUME NamesAssumption ==
    /\ Restores \cap Stops = {}
    /\ {"auto", "anon", Nobody} \cap (Restores \cup Stops) = {}
    /\ Nobody \notin {"auto", "anon"}

VARIABLES
    mem,      \* the Worker record in memory
    disk,     \* the canonical record
    old,      \* earlier records that a power loss may bring back
    flagged,  \* the Worker is in unreconciled_worker_writes
    ctx,      \* restore_candidate_context: none, held or discarded
    job,      \* the holder of the Worker's operation lock
    cand,     \* PendingRuntimeRestore
    conn,     \* the registered execution
    failed,   \* completed_restore_failures
    driver,   \* continuations by operation
    touched   \* auxiliary: operations that changed canonical state

record == <<mem, disk, old, flagged>>
backend == <<cand, conn, failed>>
vars == <<mem, disk, old, flagged, ctx, job, cand, conn, failed, driver, touched>>

Ops == Restores \cup {"auto"}
StopOps == Stops \cup {"anon"}
Receipts == {"accepted", "rejected", "rolled_back", "superseded"}
NoRestore == [op |-> Nobody, commit |-> FALSE, repair |-> FALSE]
NoOwner == [op |-> Nobody, started |-> FALSE, receipt |-> "none"]
NoStop == [op |-> Nobody, done |-> FALSE]
NoJob == [pc |-> "idle", who |-> "caller", op |-> Nobody, again |-> FALSE,
          reclaim |-> FALSE, direct |-> FALSE, receipt |-> "none"]
NoCand == [op |-> Nobody, only |-> FALSE, task |-> "idle", res |-> "none",
           eff |-> FALSE, started |-> FALSE, disc |-> "no"]
NoConn == [on |-> FALSE, op |-> Nobody, closing |-> FALSE]
NoFailure == [op |-> Nobody, kind |-> "none"]

Pcs == {"idle", "run", "preflight", "finish", "call", "join", "reclaim", "reclaiming",
        "commit", "connect", "connecting", "publish", "discard", "discarding",
        "retract", "reject", "rollback", "stop", "stopjoin", "dropping", "close",
        "stopped", "erase"}
Tasks == {"idle", "preparing", "repairing", "cleaning", "discarding", "dropping",
          "activating"}

WorkerRecords ==
    [status : {"active", "stopped", "deleted"},
     restore : [op : Ops \cup {Nobody}, commit : BOOLEAN, repair : BOOLEAN],
     stop : StopOps \cup {Nobody},
     active : Restores \cup {Nobody},
     owners : [Restores -> [op : Ops \cup {Nobody}, started : BOOLEAN,
                            receipt : Receipts \cup {"none"}]],
     stops : [Stops -> [op : StopOps \cup {Nobody}, done : BOOLEAN]]]

Jobs ==
    [pc : Pcs, who : {"caller", "driver", "startup", "delete"}, op : Ops \cup {Nobody},
     again : BOOLEAN, reclaim : BOOLEAN, direct : BOOLEAN,
     receipt : {"none", "accepted", "rejected"}]

Candidates ==
    [op : Ops \cup {Nobody}, only : BOOLEAN, task : Tasks,
     res : {"none", "ready", "active", "clean", "rolled", "dirty"},
     eff : BOOLEAN, started : BOOLEAN, disc : {"no", "run", "ok", "err", "seen"}]

Executions == [on : BOOLEAN, op : Ops \cup {Nobody}, closing : BOOLEAN]
Failures == [op : Ops \cup {Nobody}, kind : {"none", "clean", "rolled"}]

\* Every record a request, a crash or an unknown write can leave, the job that
\* holds the lock, the candidate and the execution keep their types; a restore
\* that has failed for good was refused or rolled back, never anything else.
TypeOK ==
    /\ mem \in WorkerRecords /\ disk \in WorkerRecords /\ old \subseteq WorkerRecords
    /\ flagged \in BOOLEAN
    /\ ctx \in {"none", "held", "discarded"}
    /\ job \in Jobs /\ cand \in Candidates /\ conn \in Executions
    /\ failed \in Failures
    /\ driver \in [Ops -> {"none", "on", "done"}]
    /\ touched \subseteq Ops \cup {Nobody}

\* A created Worker is connected and its record says so.
Init ==
    /\ mem = [status |-> "active", restore |-> NoRestore, stop |-> Nobody,
              active |-> Nobody, owners |-> [r \in Restores |-> NoOwner],
              stops |-> [s \in Stops |-> NoStop]]
    /\ disk = mem /\ old = {} /\ flagged = FALSE /\ ctx = "none" /\ job = NoJob
    /\ cand = NoCand /\ conn = [NoConn EXCEPT !.on = TRUE] /\ failed = NoFailure
    /\ driver = [o \in Ops |-> "none"] /\ touched = {}

-----------------------------------------------------------------------------
(* The record store.                                                        *)

\* A write of record m by write_worker_record: it succeeds, fails before its
\* rename, or fails after it with an unknown outcome.  A flagged Worker is not
\* written.
Saved(m) ==
    /\ ~flagged
    /\ mem' = m /\ disk' = m /\ old' = {} /\ UNCHANGED flagged

Lost == UNCHANGED record

Renamed(m) ==
    /\ ~flagged
    /\ disk' = m /\ old' = old \cup {disk}

\* persist_restore_worker_record after a failed reconciliation, and
\* persist_stop_worker_record: later writes wait for a durable reread.
Torn(m) == Renamed(m) /\ flagged' = TRUE /\ UNCHANGED mem

Failed(m) == Torn(m) \/ Lost

\* refresh_uncertain_worker_write, at the start of every request and
\* continuation step and in the repair authorizer.
Reread ==
    /\ flagged
    /\ job.pc = "idle" \/ cand.task = "preparing"
    /\ mem' = disk /\ old' = {} /\ flagged' = FALSE
    /\ UNCHANGED <<disk, ctx, job, cand, conn, failed, driver, touched>>

\* RestoreGuard::finish: the active request gets its receipt.
Finish(m, x) ==
    [m EXCEPT !.active = Nobody,
              !.owners = [r \in Restores |->
                  IF r = m.active THEN [m.owners[r] EXCEPT !.receipt = x]
                                  ELSE m.owners[r]]]

Settle(m, x) == [Finish(m, x) EXCEPT !.restore = NoRestore]

PendingRestore(m) == m.restore.op # Nobody
Settled(m) == ~PendingRestore(m) /\ m.stop = Nobody

\* ensure_restore_rollback_allowed.
RollbackAllowed(m) == ~m.restore.commit /\ ~m.restore.repair

-----------------------------------------------------------------------------
(* The lock and the continuation.                                           *)

Goto(pc) == job' = [job EXCEPT !.pc = pc]
Free == job.pc = "idle" /\ ~flagged /\ mem.status # "deleted"
HeldContext == IF PendingRestore(mem) /\ ctx = "none" THEN "held" ELSE ctx

\* start_restore_continuation: once per operation and process.
Drive(o) == driver' = [driver EXCEPT ![o] = IF @ = "none" THEN "on" ELSE @]

\* The end of a job that worked on a restore.  ensure_restore_continuation runs
\* for the operation that is still pending; the continuation itself is done when
\* its operation is no longer pending.
EndRestore ==
    /\ job' = NoJob
    /\ \/ /\ job.who = "driver"
          /\ driver' = IF mem'.restore.op = job.op THEN driver
                       ELSE [driver EXCEPT ![job.op] = "done"]
       \/ /\ job.who # "driver"
          /\ IF PendingRestore(mem') THEN Drive(mem'.restore.op) ELSE UNCHANGED driver

\* retain_restore_reconciliation_pending: the answer is ReconciliationRequired.
EndPending ==
    /\ UNCHANGED record
    /\ EndRestore
    /\ ctx' = HeldContext

\* The stop stays pending.  Only startup makes sure of a continuation.
StopFails ==
    /\ job' = NoJob
    /\ IF job.who = "startup" /\ PendingRestore(mem)
       THEN Drive(mem.restore.op) ELSE UNCHANGED driver
    /\ UNCHANGED record

\* The holder stops waiting for the backend's task.
TimeOut ==
    /\ cand.task # "idle"
    /\ \/ /\ job.pc \in {"call", "join", "reclaim", "reclaiming", "connect", "connecting"}
          /\ EndPending
       \/ /\ job.pc \in {"discard", "discarding"}
          /\ UNCHANGED record
          /\ EndRestore
          /\ ctx' = IF job.direct THEN ctx ELSE HeldContext
       \/ /\ job.pc \in {"stop", "stopjoin", "dropping"}
          /\ StopFails
          /\ UNCHANGED ctx
    /\ UNCHANGED <<backend, touched>>

-----------------------------------------------------------------------------
(* Restore requests (dispatch_restore_worker_with_scope).                   *)

Run(o) == [NoJob EXCEPT !.pc = "run", !.op = o]

\* A request that is known and not answered yet goes on with its operation; a
\* coordinating caller leaves the execution to a later request.
RestoreAgain(r, coordinate) ==
    /\ Free
    /\ mem.active = r /\ mem.owners[r].receipt = "none"
    /\ mem.restore.op = mem.owners[r].op
    /\ ~coordinate \/ mem.owners[r].started
    /\ job' = Run(mem.restore.op)
    /\ UNCHANGED <<record, ctx, backend, driver, touched>>

\* A pending restore that no request owns is recovered, not replaced.
Recovering == PendingRestore(mem) /\ mem.stop = Nobody /\ mem.active = Nobody

Admitted(r) ==
    LET o == IF Recovering THEN mem.restore.op ELSE r
    IN  [mem EXCEPT !.restore.op = o,
                    !.active = r,
                    !.owners[r] = [op |-> o, started |-> Recovering, receipt |-> "none"]]

RestoreAdmit(r, coordinate) ==
    LET m == Admitted(r)
    IN  /\ Free
        /\ mem.owners[r] = NoOwner /\ mem.active = Nobody
        /\ Settled(mem) \/ Recovering
        /\ \/ /\ Saved(m)
              /\ job' = IF coordinate /\ ~Recovering THEN NoJob ELSE Run(m.restore.op)
              /\ UNCHANGED driver
           \/ /\ Torn(m)
              /\ UNCHANGED job
              /\ IF coordinate THEN UNCHANGED driver ELSE Drive(m.restore.op)
        /\ UNCHANGED <<ctx, backend, touched>>

-----------------------------------------------------------------------------
(* One attempt at a restore (restore_worker_with_recovery_under_lock).      *)

\* restore_recovery_disposition.
Disposition(o) ==
    IF cand.op = o
    THEN IF cand.task \notin {"idle", "dropping"} THEN "in_flight"
         ELSE IF cand.only THEN "reclaim"
         ELSE IF cand.disc \in {"run", "err", "seen"} THEN "discard"
         ELSE "continue"
    ELSE IF conn.on /\ conn.op = o THEN "continue" ELSE "absent"

\* The operation has begun: it is reconciled, not begun again.
Begun == PendingRestore(mem) /\ (mem.active = Nobody \/ mem.owners[mem.active].started)

Reclaims ==
    /\ PendingRestore(mem) /\ ~mem.restore.commit
    /\ \/ job.reclaim
       \/ Begun /\ \/ Disposition(job.op) = "reclaim"
                   \/ Disposition(job.op) = "absent" /\ ctx = "none"

Attempt ==
    /\ job.pc = "run"
    /\ \/ /\ mem.stop # Nobody
          /\ UNCHANGED record
          /\ EndRestore
       \/ /\ mem.stop = Nobody
          /\ job' = [job EXCEPT
                 !.pc = IF Reclaims THEN "reclaim" ELSE IF Begun THEN "call" ELSE "preflight",
                 !.again = Begun \/ Reclaims]
          /\ UNCHANGED <<record, driver>>
    /\ UNCHANGED <<ctx, backend, touched>>

\* preflight_restore of the backend.  A connected execution answers for itself.
Preflight ==
    LET busy == cand # NoCand \/ (conn.on /\ conn.closing)
    IN  /\ job.pc = "preflight"
        /\ \/ /\ ~busy /\ conn.on /\ ctx = "discarded"
              /\ UNCHANGED <<record, ctx>>
              /\ EndRestore
           \/ /\ ~busy /\ conn.on /\ ctx # "discarded"
              /\ job' = [job EXCEPT !.pc = "finish", !.receipt = "accepted"]
              /\ UNCHANGED <<record, ctx, driver>>
           \/ /\ busy \/ ~conn.on
              /\ job' = [job EXCEPT !.pc = "finish", !.receipt = "rejected"]
              /\ UNCHANGED <<record, ctx, driver>>
        /\ UNCHANGED <<backend, touched>>

\* begin_restore_operation.
BeginRestore ==
    LET o == job.op
        m == [mem EXCEPT !.restore.op = o,
                         !.owners = [r \in Restores |->
                             IF r = mem.active THEN [mem.owners[r] EXCEPT !.started = TRUE]
                                               ELSE mem.owners[r]]]
    IN  /\ job.pc = "preflight"
        /\ cand = NoCand /\ ~conn.on
        /\ \/ /\ Saved(m)
              /\ ctx' = IF ctx = "none" THEN "held" ELSE ctx
              /\ Goto("call")
              /\ UNCHANGED driver
           \/ /\ Failed(m)
              /\ EndRestore
              /\ UNCHANGED ctx
        /\ touched' = IF PendingRestore(mem) THEN touched ELSE touched \ {o}
        /\ UNCHANGED backend

\* finish_restore_receipt.  A restore that may have had effects is not settled
\* as rejected.
FinishRestore ==
    LET m == Settle(mem, job.receipt)
    IN  /\ job.pc = "finish"
        /\ \/ /\ mem.active = Nobody /\ ~PendingRestore(mem)
              /\ UNCHANGED <<record, ctx>>
           \/ /\ mem.active # Nobody \/ PendingRestore(mem)
              /\ job.receipt = "accepted" \/ RollbackAllowed(mem)
              /\ Saved(m) /\ ctx' = "none"
           \/ /\ mem.active # Nobody \/ PendingRestore(mem)
              /\ Lost \/ ((job.receipt = "accepted" \/ RollbackAllowed(mem)) /\ Torn(m))
              /\ UNCHANGED ctx
        /\ EndRestore
        /\ UNCHANGED <<backend, touched>>

-----------------------------------------------------------------------------
(* The backend's side of an attempt (restore_worker and                     *)
(* reclaim_uncommitted_restore).                                            *)

\* What follows a confirmed failure; a discarded context is detached first.
AfterFailure(kind, answered) ==
    IF kind = "clean" /\ job.again /\ ~answered
    THEN EndPending
    ELSE /\ Goto(IF kind = "clean" THEN "reject" ELSE "rollback")
         /\ ctx' = "none"
         /\ UNCHANGED <<record, driver>>

\* completed_restore_failure.
KnownFailure ==
    /\ job.pc \in {"call", "reclaim"}
    /\ failed.op = job.op
    /\ AfterFailure(failed.kind, TRUE)
    /\ UNCHANGED <<backend, touched>>

\* A new candidate starts to prepare; a retained one is cleaned up or prepared
\* again when its last attempt failed (retry_pending_restore_cleanup).
CallRestore ==
    LET o == job.op
        failure == cand.res \in {"clean", "rolled", "dirty"}
    IN  /\ job.pc = "call" /\ failed.op # o
        /\ \/ /\ conn.on /\ ~conn.closing /\ conn.op = o
              /\ Goto("commit")
              /\ UNCHANGED <<record, ctx, backend, driver>>
           \/ /\ \/ conn.on /\ conn.closing
                 \/ ~conn.on /\ (cand.only \/ cand.op \notin {o, Nobody})
              /\ EndPending
              /\ UNCHANGED backend
           \/ /\ conn.on /\ ~conn.closing /\ conn.op # o
              /\ AfterFailure("clean", FALSE)
              /\ UNCHANGED backend
           \/ /\ ~conn.on /\ cand.op = o /\ ~cand.only /\ cand.task = "idle"
              /\ Goto("join")
              /\ cand' = [cand EXCEPT !.task =
                     CASE cand.res = "dirty" -> "cleaning"
                       [] failure /\ cand.res # "dirty" /\ (cand.eff \/ cand.started) -> "preparing"
                       [] OTHER -> "idle"]
              /\ UNCHANGED <<record, ctx, conn, failed, driver>>
           \/ /\ ~conn.on /\ cand = NoCand
              /\ AfterFailure("clean", FALSE)
              /\ UNCHANGED backend
           \/ /\ ~conn.on /\ cand = NoCand
              /\ cand' = [NoCand EXCEPT !.op = o, !.task = "preparing",
                                        !.eff = mem.restore.repair \/ mem.restore.commit]
              /\ failed' = NoFailure
              /\ Goto("join")
              /\ UNCHANGED <<record, ctx, conn, driver>>
        /\ UNCHANGED touched

JoinRestore ==
    /\ job.pc = "join" /\ cand.task = "idle"
    /\ \/ /\ cand.disc \notin {"err", "seen"}
          /\ cand.res = "ready" \/ cand.res = "active"
          /\ Goto("commit")
          /\ UNCHANGED <<record, ctx, backend, driver>>
       \/ /\ cand.disc \notin {"err", "seen"}
          /\ cand.res \in {"clean", "rolled"} /\ ~cand.eff /\ ~cand.started
          /\ failed' = [op |-> job.op, kind |-> cand.res]
          /\ cand' = NoCand
          /\ AfterFailure(cand.res, FALSE)
          /\ UNCHANGED conn
       \/ /\ \/ cand.disc \in {"err", "seen"}
             \/ cand.res \in {"none", "dirty"}
             \/ cand.res \in {"clean", "rolled"} /\ (cand.eff \/ cand.started)
          /\ EndPending
          /\ UNCHANGED backend
    /\ UNCHANGED touched

\* After a restart an uncommitted operation is only cleaned up.
Reclaim ==
    LET o == job.op
    IN  /\ job.pc = "reclaim" /\ failed.op # o
        /\ \/ /\ conn.on \/ (cand # NoCand /\ (cand.op # o \/ ~cand.only))
              /\ EndPending
              /\ UNCHANGED backend
           \/ /\ ~conn.on /\ cand.op = o /\ cand.only /\ cand.task = "idle"
              /\ cand' = [cand EXCEPT !.task = IF cand.res = "dirty" THEN "cleaning" ELSE "idle"]
              /\ Goto("reclaiming")
              /\ UNCHANGED <<record, ctx, conn, failed, driver>>
           \/ /\ ~conn.on /\ cand = NoCand
              /\ cand' = [NoCand EXCEPT !.op = o, !.only = TRUE, !.res = "dirty",
                                        !.task = "cleaning", !.eff = mem.restore.repair]
              /\ Goto("reclaiming")
              /\ UNCHANGED <<record, ctx, conn, failed, driver>>
        /\ UNCHANGED touched

Reclaimed ==
    /\ job.pc = "reclaiming" /\ cand.task = "idle"
    /\ \/ /\ cand.res = "dirty" \/ cand.eff
          /\ EndPending
          /\ UNCHANGED backend
       \/ /\ cand.res # "dirty" /\ ~cand.eff
          /\ failed' = [op |-> job.op, kind |-> cand.res]
          /\ cand' = NoCand
          /\ AfterFailure("rolled", FALSE)
          /\ UNCHANGED conn
    /\ UNCHANGED touched

-----------------------------------------------------------------------------
(* From the decision to the published execution.                            *)

\* commit_restored_worker_execution.  An outcome that is known to be
\* "not written" makes a first decision void.
Commit ==
    LET m == [mem EXCEPT !.status = "active", !.restore.commit = TRUE]
    IN  /\ job.pc = "commit"
        /\ \/ /\ Saved(m)
              /\ Goto("connect")
              /\ UNCHANGED <<ctx, driver>>
           \/ /\ Torn(m)
              /\ EndRestore
              /\ ctx' = HeldContext
           \/ /\ ~mem.restore.commit
              /\ Lost
              /\ Goto("discard")
              /\ UNCHANGED <<ctx, driver>>
           \/ /\ mem.restore.commit
              /\ EndPending
        /\ UNCHANGED <<backend, touched>>

\* activate_restored_worker with a prepared candidate: its activation starts.
Connect ==
    /\ job.pc = "connect"
    /\ \/ /\ cand.op = job.op /\ ~cand.only /\ cand.task = "idle"
          /\ cand' = IF cand.res = "ready"
                     THEN [cand EXCEPT !.started = TRUE, !.task = "activating"] ELSE cand
          /\ Goto("connecting")
          /\ UNCHANGED <<record, ctx, driver>>
       \/ /\ cand = NoCand
          /\ conn.on /\ conn.op = job.op /\ ~conn.closing /\ ctx # "discarded"
          /\ Goto("publish")
          /\ UNCHANGED <<record, ctx, cand, driver>>
       \/ /\ cand = NoCand \/ cand.op # job.op \/ cand.only
          /\ EndPending
          /\ UNCHANGED cand
    /\ UNCHANGED <<conn, failed, touched>>

\* The activated controller is registered; its protocol bridge may not start.
Connecting ==
    /\ job.pc = "connecting" /\ cand.task = "idle"
    /\ \/ /\ cand.res = "active"
          /\ conn' = [on |-> TRUE, op |-> job.op, closing |-> FALSE]
          /\ cand' = NoCand
          /\ \/ /\ ctx # "discarded"
                /\ Goto("publish")
                /\ UNCHANGED <<record, ctx, driver>>
             \/ EndPending
       \/ /\ cand.res # "active"
          /\ EndPending
          /\ UNCHANGED <<cand, conn>>
    /\ UNCHANGED <<failed, touched>>

\* activate_restore_candidate_context.
Publish ==
    /\ job.pc = "publish"
    /\ \/ /\ ctx # "discarded"
          /\ job' = [job EXCEPT !.pc = "finish", !.receipt = "accepted"]
          /\ UNCHANGED <<record, driver>>
       \/ /\ UNCHANGED record
          /\ EndRestore
    /\ UNCHANGED <<ctx, backend, touched>>

-----------------------------------------------------------------------------
(* Undoing an attempt.                                                      *)

DiscardFails ==
    /\ UNCHANGED record
    /\ EndRestore
    /\ ctx' = IF job.direct THEN ctx ELSE HeldContext

\* discard_uncommitted_restore.
Discard ==
    /\ job.pc = "discard"
    /\ \/ /\ cand.op # job.op \/ cand.only \/ cand.started \/ conn.on
          /\ DiscardFails
          /\ UNCHANGED cand
       \/ /\ cand.op = job.op /\ ~cand.only /\ ~cand.started /\ ~conn.on
          /\ cand.task = "idle"
          /\ cand' = IF cand.disc \in {"no", "seen"}
                     THEN [cand EXCEPT !.disc = "run", !.task = "discarding"] ELSE cand
          /\ Goto("discarding")
          /\ UNCHANGED <<record, ctx, driver>>
    /\ UNCHANGED <<conn, failed, touched>>

\* Its answer: a rollback, unless effects of a repair remain possible.
Discarding ==
    LET undone == cand.disc = "ok" /\ cand.res \in {"clean", "rolled"} /\ ~cand.eff
    IN  /\ job.pc = "discarding" /\ cand.task = "idle"
        /\ \/ /\ undone
              /\ failed' = [op |-> job.op, kind |-> cand.res]
              /\ cand' = NoCand
              /\ Goto(IF job.direct THEN "rollback" ELSE "retract")
              /\ ctx' = IF job.direct THEN ctx ELSE "none"
              /\ UNCHANGED <<record, driver>>
           \/ /\ ~undone
              /\ cand' = IF cand.disc = "err" THEN [cand EXCEPT !.disc = "seen"] ELSE cand
              /\ DiscardFails
              /\ UNCHANGED failed
        /\ UNCHANGED <<conn, touched>>

\* settle_restore_rollback, for a void decision or a rejected attempt.  After a
\* failed write the discarded publication owner of a void decision is kept.
Retract ==
    LET m == Settle(mem, IF job.pc = "reject" THEN "rejected" ELSE "rolled_back")
    IN  /\ job.pc \in {"retract", "reject"}
        /\ \/ /\ RollbackAllowed(mem)
              /\ Saved(m)
              /\ ctx' = "none"
           \/ /\ Lost \/ (RollbackAllowed(mem) /\ Torn(m))
              /\ ctx' = IF job.pc = "reject" THEN ctx ELSE "discarded"
        /\ EndRestore
        /\ UNCHANGED <<backend, touched>>

\* record_restore_failure.  It writes with persist_worker_record: an unknown
\* outcome is not remembered.
Rollback ==
    LET m == [Settle(mem, "rolled_back") EXCEPT !.stop = Nobody, !.status = "stopped"]
    IN  /\ job.pc = "rollback"
        /\ \/ /\ RollbackAllowed(mem)
              /\ Saved(m)
              /\ ctx' = "none"
           \/ /\ RollbackAllowed(mem)
              /\ Renamed(m) /\ UNCHANGED <<mem, flagged, ctx>>
           \/ Lost /\ UNCHANGED ctx
        /\ EndRestore
        /\ UNCHANGED <<backend, touched>>

-----------------------------------------------------------------------------
(* Stop and Delete.                                                         *)

StopJob(who, o) == [NoJob EXCEPT !.pc = "stop", !.who = who, !.op = o]
AfterAdmission(coordinate) == job' = IF coordinate THEN NoJob ELSE StopJob("caller", Nobody)

\* A Stop names its intent, or nothing (Nobody); a coordinating caller leaves
\* the cleanup to a later request.
Known(s) == s # Nobody /\ mem.stops[s] # NoStop
StopWith(m, s, o, done) ==
    IF s = Nobody THEN m ELSE [m EXCEPT !.stops[s] = [op |-> o, done |-> done]]

\* A known intent that is not answered yet goes on with its operation.
StopAgain(s, coordinate) ==
    /\ Free
    /\ \/ Known(s) /\ ~mem.stops[s].done /\ mem.stops[s].op = mem.stop
       \/ s = Nobody /\ ~coordinate /\ mem.stop # Nobody
    /\ AfterAdmission(coordinate)
    /\ UNCHANGED <<record, ctx, backend, driver, touched>>

\* A new intent adopts a pending stop that no intent owns.
StopAdopt(s, coordinate) ==
    LET m == StopWith(mem, s, mem.stop, FALSE)
    IN  /\ Free
        /\ s # Nobody /\ ~Known(s) /\ mem.stop # Nobody
        /\ \A t \in Stops : mem.stops[t].op # mem.stop
        /\ \/ Saved(m) /\ AfterAdmission(coordinate)
           \/ Torn(m) /\ UNCHANGED job
        /\ UNCHANGED <<ctx, backend, driver, touched>>

\* Nothing to stop: the receipt is written at once.
StopNothing(s) ==
    LET m == StopWith(Finish(mem, "superseded"), s, s, TRUE)
    IN  /\ Free
        /\ ~Known(s) /\ mem.status = "stopped" /\ Settled(mem)
        /\ Saved(m) \/ Torn(m)
        /\ UNCHANGED <<ctx, job, backend, driver, touched>>

\* begin_stop_operation_request: memory keeps the stop even if its write has an
\* unknown outcome.
StopBegin(s, coordinate) ==
    LET o == IF s = Nobody THEN "anon" ELSE s
        m == StopWith([mem EXCEPT !.stop = o], s, o, FALSE)
    IN  /\ Free
        /\ s # Nobody \/ ~coordinate
        /\ ~Known(s) /\ mem.stop = Nobody
        /\ mem.status = "active" \/ PendingRestore(mem)
        /\ \/ Saved(m) /\ AfterAdmission(coordinate)
           \/ Renamed(m) /\ mem' = m /\ flagged' = TRUE /\ UNCHANGED job
        /\ UNCHANGED <<ctx, backend, driver, touched>>

\* delete_worker: it asks memory, and does not reread an uncertain record.
Delete ==
    /\ job.pc = "idle"
    /\ mem.status = "stopped" /\ Settled(mem)
    /\ job' = StopJob("delete", Nobody)
    /\ UNCHANGED <<record, ctx, backend, driver, touched>>

\* stop_worker_under_lock, up to the answer about a candidate.
StopCandidate ==
    /\ \/ /\ job.pc = "stop" /\ cand = NoCand
          /\ Goto("close")
          /\ UNCHANGED <<record, cand, conn, driver>>
       \/ /\ job.pc = "stop" /\ cand # NoCand /\ cand.task = "idle"
          /\ cand' = IF cand.res = "dirty" THEN [cand EXCEPT !.task = "cleaning"] ELSE cand
          /\ Goto("stopjoin")
          /\ UNCHANGED <<record, conn, driver>>
       \/ /\ job.pc = "stopjoin" /\ cand.task = "idle"
          /\ \/ cand.res = "dirty"
             \/ cand.started /\ cand.res = "none"
          /\ StopFails
          /\ UNCHANGED <<cand, conn>>
       \/ /\ job.pc = "stopjoin" /\ cand.task = "idle"
          /\ cand.started /\ cand.res \in {"active", "clean", "rolled"}
          /\ conn' = IF cand.res = "active"
                     THEN [on |-> TRUE, op |-> cand.op, closing |-> FALSE] ELSE conn
          /\ cand' = NoCand
          /\ Goto("close")
          /\ UNCHANGED <<record, driver>>
       \/ /\ job.pc = "stopjoin" /\ cand.task = "idle"
          /\ cand.res # "dirty" /\ (~cand.started \/ cand.res = "ready")
          /\ cand' = IF cand.disc \in {"no", "seen"}
                     THEN [cand EXCEPT !.disc = "run", !.task = "dropping"] ELSE cand
          /\ Goto("dropping")
          /\ UNCHANGED <<record, conn, driver>>
       \/ /\ job.pc = "dropping" /\ cand.task = "idle"
          /\ \/ /\ cand.disc = "ok"
                /\ cand' = NoCand
                /\ Goto("close")
                /\ UNCHANGED <<record, driver>>
             \/ /\ cand.disc # "ok"
                /\ cand' = [cand EXCEPT !.disc = "seen"]
                /\ StopFails
          /\ UNCHANGED conn
    /\ UNCHANGED <<ctx, failed, touched>>

\* The controller is shut down, joined and removed; without one the factory's
\* own resources are released.  First a form that goes on when that failed.
CloseRegardless ==
    /\ job.pc = "close"
    /\ conn' \in {NoConn, conn}
    /\ Goto(IF job.who = "delete" THEN "erase" ELSE "stopped")
    /\ UNCHANGED <<record, ctx, cand, failed, driver, touched>>

Close ==
    /\ job.pc = "close"
    /\ \/ /\ conn' = NoConn
          /\ Goto(IF job.who = "delete" THEN "erase" ELSE "stopped")
          /\ UNCHANGED <<record, driver>>
       \/ /\ conn' = IF conn.on THEN [conn EXCEPT !.closing = TRUE] ELSE conn
          /\ StopFails
    /\ UNCHANGED <<ctx, cand, failed, touched>>

\* stopped_candidate.
StoppedRecord(m) ==
    [Settle(m, "superseded") EXCEPT
        !.stop = Nobody, !.status = "stopped",
        !.stops = [s \in Stops |-> IF m.stops[s].op = m.stop
                                   THEN [m.stops[s] EXCEPT !.done = TRUE] ELSE m.stops[s]]]

\* commit_stopped_worker discards the publication owner before it writes.
CommitStopped ==
    LET m == StoppedRecord(mem)
    IN  /\ job.pc = "stopped"
        /\ \/ /\ Saved(m)
              /\ ctx' = "none"
              /\ job' = NoJob
              /\ driver' = IF job.who = "driver" THEN [driver EXCEPT ![job.op] = "done"]
                                                 ELSE driver
           \/ /\ Failed(m)
              /\ ctx' = IF ctx = "held" THEN "discarded" ELSE ctx
              /\ job' = NoJob
              /\ IF job.who = "startup" /\ PendingRestore(mem)
                 THEN Drive(mem.restore.op) ELSE UNCHANGED driver
        /\ UNCHANGED <<backend, touched>>

\* The record is deleted; a failed deletion leaves it.
Erase ==
    /\ job.pc = "erase"
    /\ \/ UNCHANGED record
       \/ /\ mem' = [mem EXCEPT !.status = "deleted"] /\ disk' = mem'
          /\ old' = {} /\ flagged' = FALSE
    /\ job' = NoJob
    /\ UNCHANGED <<ctx, backend, driver, touched>>

-----------------------------------------------------------------------------
(* The backend's tasks.  The factory is taken from its use: it succeeds,     *)
(* refuses, or fails and then proves its cleanup or does not.               *)

TaskEnds(c) == cand' = [c EXCEPT !.task = "idle"]
Effects == cand.eff \/ cand.started

\* prepare_restore_operation without a repair.
Prepare ==
    /\ cand.task = "preparing"
    /\ \E x \in {"ready", "clean", "rolled", "dirty"} :
           TaskEnds([cand EXCEPT !.res = x, !.eff = Effects])
    /\ UNCHANGED <<record, ctx, job, conn, failed, driver, touched>>

\* restore_repair_authorizer, called by the task without the Worker's lock, and a
\* form that does not look at the stop.
GrantedUnfenced == ~flagged /\ mem.restore.op = cand.op
Granted == ~flagged /\ mem.stop = Nobody /\ mem.restore.op = cand.op

\* A refusal is a failure that may have had effects.
Refuse ==
    \E x \in {"clean", "rolled", "dirty"} : TaskEnds([cand EXCEPT !.res = x, !.eff = TRUE])

\* The grant is durable before the repair; first a form that does not record it.
AuthorizeUnrecorded ==
    /\ cand.task = "preparing"
    /\ \/ Granted /\ cand' = [cand EXCEPT !.task = "repairing"]
       \/ ~Granted /\ Refuse
    /\ UNCHANGED <<record, ctx, job, conn, failed, driver, touched>>

Authorize ==
    LET m == [mem EXCEPT !.restore.repair = TRUE]
    IN  /\ cand.task = "preparing"
        /\ \/ /\ Granted
              /\ IF mem.restore.repair THEN UNCHANGED record ELSE Saved(m)
              /\ cand' = [cand EXCEPT !.task = "repairing"]
           \/ Granted /\ ~mem.restore.repair /\ Failed(m) /\ Refuse
           \/ ~Granted /\ UNCHANGED record /\ Refuse
        /\ UNCHANGED <<ctx, job, conn, failed, driver, touched>>

Repair ==
    /\ cand.task = "repairing"
    /\ touched' = touched \cup {cand.op}
    /\ \E x \in {"ready", "clean", "rolled", "dirty"} :
           TaskEnds([cand EXCEPT !.res = x, !.eff = TRUE])
    /\ UNCHANGED <<record, ctx, job, conn, failed, driver>>

\* finish_restore_failure for a retained failure.
Clean ==
    /\ cand.task = "cleaning"
    /\ \E x \in {"rolled", "dirty"} : TaskEnds([cand EXCEPT !.res = x])
    /\ UNCHANGED <<record, ctx, job, conn, failed, driver, touched>>

\* The discard tasks of discard_uncommitted_restore and of a Stop.  A Stop does
\* not keep the result of a candidate it has discarded.
Drop ==
    /\ cand.task \in {"discarding", "dropping"}
    /\ \/ /\ cand.res = "ready"
          /\ TaskEnds([cand EXCEPT !.disc = "ok",
                                   !.res = IF cand.task = "dropping" THEN "none" ELSE "rolled"])
       \/ /\ cand.res \in {"clean", "rolled"}
          /\ TaskEnds([cand EXCEPT !.disc = "ok"])
       \/ /\ cand.res \notin {"clean", "rolled"}
          /\ TaskEnds([cand EXCEPT !.disc = "err"])
    /\ UNCHANGED <<record, ctx, job, conn, failed, driver, touched>>

\* The activation of a committed candidate.  It may stay ready for another
\* publication.
Activate ==
    /\ cand.task = "activating"
    /\ touched' = touched \cup {cand.op}
    /\ \E x \in {"active", "ready", "rolled", "dirty"} :
           TaskEnds([cand EXCEPT !.res = x, !.eff = (x \in {"rolled", "dirty"}) \/ cand.eff])
    /\ UNCHANGED <<record, ctx, job, conn, failed, driver>>

-----------------------------------------------------------------------------
(* The continuation and the startup of a Runtime.                           *)

\* continue_restore_operation.
Continuation(o) ==
    LET mine == mem.restore.op = o
    IN  /\ driver[o] = "on" /\ Free
        /\ \/ /\ mem.stop # Nobody /\ mine
              /\ job' = StopJob("driver", o)
              /\ UNCHANGED driver
           \/ /\ ~mine
              /\ driver' = [driver EXCEPT ![o] = "done"]
              /\ UNCHANGED job
           \/ /\ mem.stop = Nobody /\ mine /\ Disposition(o) # "in_flight"
              /\ job' = IF Disposition(o) = "discard" /\ ~mem.restore.commit
                        THEN [NoJob EXCEPT !.pc = "discard", !.who = "driver", !.op = o,
                                           !.direct = TRUE]
                        ELSE [Run(o) EXCEPT !.who = "driver"]
              /\ UNCHANGED driver
        /\ UNCHANGED <<record, ctx, backend, touched>>

\* The Runtime dies, the power may fail, and restore_persisted_worker_executions
\* takes up what the surviving record says.
Startup(m) ==
    IF m.status = "deleted" THEN NoJob
    ELSE IF m.stop # Nobody THEN StopJob("startup", Nobody)
    ELSE IF PendingRestore(m)
         THEN [Run(m.restore.op) EXCEPT !.who = "startup", !.reclaim = ~m.restore.commit]
    ELSE IF m.status = "active" THEN [Run("auto") EXCEPT !.who = "startup"]
    ELSE NoJob

Restart ==
    \E d \in {disk} \cup old :
        /\ mem' = d /\ disk' = d /\ old' = {} /\ flagged' = FALSE
        /\ ctx' = "none" /\ job' = Startup(d)
        /\ cand' = NoCand /\ conn' = NoConn /\ failed' = NoFailure
        /\ driver' = [o \in Ops |-> "none"]
        /\ UNCHANGED touched

Next ==
    \/ \E r \in Restores, c \in BOOLEAN : RestoreAgain(r, c) \/ RestoreAdmit(r, c)
    \/ \E s \in Stops \cup {Nobody}, c \in BOOLEAN :
           StopAgain(s, c) \/ StopAdopt(s, c) \/ StopBegin(s, c)
    \/ \E s \in Stops \cup {Nobody} : StopNothing(s)
    \/ Attempt \/ Preflight \/ BeginRestore \/ FinishRestore
    \/ KnownFailure \/ CallRestore \/ JoinRestore \/ Reclaim \/ Reclaimed
    \/ Commit \/ Connect \/ Connecting \/ Publish
    \/ Discard \/ Discarding \/ Retract \/ Rollback
    \/ Delete \/ StopCandidate \/ Close \/ CommitStopped \/ Erase
    \/ TimeOut \/ Reread
    \/ Prepare \/ Authorize \/ Repair \/ Clean \/ Drop \/ Activate
    \/ \E o \in Ops : Continuation(o)
    \/ Restart

Spec == Init /\ [][Next]_vars

-----------------------------------------------------------------------------
(* Properties.                                                              *)

\* What a step may not do to the answers in the record.
KeepsAnswers ==
    /\ \A r \in Restores : mem.owners[r].receipt # "none" =>
           mem'.owners[r].receipt = mem.owners[r].receipt
    /\ \A s \in Stops : mem.stops[s].done => mem'.stops[s] = mem.stops[s]

\* A new answer "rejected" or "rolled back" is for an operation that changed no
\* canonical state.
RollsBackTruly ==
    \A r \in Restores :
        /\ mem.owners[r].receipt = "none"
        /\ mem'.owners[r].receipt \in {"rejected", "rolled_back"}
        => mem'.owners[r].op \notin touched

\* Answers are true and stand: the receipt of a Restore request or a Stop intent
\* is the answer to every retry, whatever later requests, failed writes, crashes
\* and power losses do (RestoreGuard::finish, "replay is historical"), and a
\* rollback is only reported for a restore whose repair was never authorized and
\* that was never activated (ensure_restore_rollback_allowed).
AnswersStand == [][KeepsAnswers /\ RollsBackTruly]_vars

\* Stopped means down: while any record that a crash could leave says stopped
\* and settled, no open execution is registered and no candidate is being
\* activated; and when memory says so, at rest, the backend holds nothing of
\* this Worker but the cleanup of an attempt from before a restart
\* (commit_stopped_worker, record_restore_failure, finish_restore_receipt).
StoppedMeansDown ==
    /\ \A d \in {disk} \cup old :
           d.status # "active" /\ Settled(d) =>
               ~(conn.on /\ ~conn.closing) /\ cand.task # "activating"
    /\ job.pc = "idle" /\ ~flagged /\ mem.status # "active" /\ Settled(mem) =>
           (cand = NoCand \/ cand.only) /\ ~conn.on

\* A stop fences the restore it supersedes: while a stop is pending, neither the
\* continuation nor the task that asks for its repair without the Worker's lock
\* begins to prepare, repair or activate (restore_repair_authorizer,
\* continue_restore_operation).
StopFencesWork ==
    [][mem.stop # Nobody /\ cand'.task \in {"preparing", "repairing", "activating"} =>
           cand'.task = cand.task]_vars
=============================================================================
