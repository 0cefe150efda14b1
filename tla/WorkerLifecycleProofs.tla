------------------------- MODULE WorkerLifecycleProofs -------------------------
(***************************************************************************)
(* Proofs about the lifecycle of one Worker, for any number of Restore      *)
(* requests and Stop intents, over failed and uncertain writes, crashes and *)
(* power losses.                                                            *)
(***************************************************************************)
EXTENDS WorkerLifecycle, TLAPS

-----------------------------------------------------------------------------
\* The inductive invariant.

\* Record d gives every answer that record m gives.
Extends(d, m) ==
    /\ \A r \in Restores : m.owners[r].receipt # "none" =>
           d.owners[r].receipt = m.owners[r].receipt
    /\ \A s \in Stops : m.stops[s].done => d.stops[s] = m.stops[s]

\* The request that is being worked on has not been answered.
ActiveOpen(m) == m.active # Nobody => m.owners[m.active].receipt = "none"

\* Whatever a reread or a restart brings back knows the answers given so far.
RecordInv ==
    /\ mem \in WorkerRecords /\ disk \in WorkerRecords /\ old \subseteq WorkerRecords
    /\ flagged \in BOOLEAN
    /\ \A d \in {disk} \cup old : Extends(d, mem)
    /\ ActiveOpen(mem)
    /\ \A d \in {disk} \cup old : ActiveOpen(d)

Contexts == {"none", "held", "discarded"}
Drivers == [Ops -> {"none", "on", "done"}]

\* A job that finishes a request has decided on its answer.
LockInv ==
    /\ ctx \in Contexts /\ job \in Jobs /\ driver \in Drivers
    /\ job.pc = "finish" => job.receipt # "none"

\* A candidate that is only cleaned up is never prepared.
BackendInv ==
    /\ cand \in Candidates /\ conn \in Executions /\ failed \in Failures
    /\ touched \subseteq Ops \cup {Nobody}
    /\ cand.only => /\ cand.res \in {"dirty", "rolled"}
                    /\ cand.task \in {"idle", "cleaning", "dropping"}

\* The answer to a reclaim is about such a candidate.
ReclaimInv == job.pc = "reclaiming" => cand.only

Inv == RecordInv /\ LockInv /\ BackendInv /\ ReclaimInv

-----------------------------------------------------------------------------
\* Records.

\* A record that may replace the one in memory.
GoodRecord(m) == m \in WorkerRecords /\ Extends(m, mem) /\ ActiveOpen(m)

\* What memory says may replace itself.
LEMMA MemGood == ASSUME RecordInv PROVE GoodRecord(mem)
  BY DEF RecordInv, GoodRecord, Extends

\* Changing anything but the answers and the active request is harmless.
LEMMA SameAnswersGood ==
    ASSUME NEW n, GoodRecord(n), NEW m \in WorkerRecords,
           m.active = n.active \/ m.active = Nobody,
           m.owners = n.owners, m.stops = n.stops
    PROVE  GoodRecord(m)
  BY DEF GoodRecord, Extends, ActiveOpen

\* The fields of a finished record.
LEMMA FinishFields ==
    ASSUME NEW m \in WorkerRecords, NEW x \in Receipts
    PROVE  /\ Finish(m, x) \in WorkerRecords
           /\ Finish(m, x).active = Nobody /\ Finish(m, x).stops = m.stops
           /\ Finish(m, x).stop = m.stop /\ Finish(m, x).restore = m.restore
           /\ Finish(m, x).status = m.status
           /\ \A r \in Restores : r # m.active => Finish(m, x).owners[r] = m.owners[r]
<1> DEFINE os == [r \in Restores |-> IF r = m.active THEN [m.owners[r] EXCEPT !.receipt = x]
                                                     ELSE m.owners[r]]
           f == [m EXCEPT !.active = Nobody, !.owners = os]
<1>1. os \in [Restores -> [op : Ops \cup {Nobody}, started : BOOLEAN,
                           receipt : Receipts \cup {"none"}]]
  BY DEF WorkerRecords
<1>2. \A r \in Restores : r # m.active => os[r] = m.owners[r]
  OBVIOUS
<1>3. Finish(m, x) = f
  BY DEF Finish
<1> HIDE DEF os
<1>4. /\ f \in WorkerRecords /\ f.active = Nobody /\ f.owners = os /\ f.stops = m.stops
      /\ f.stop = m.stop /\ f.restore = m.restore /\ f.status = m.status
  BY <1>1 DEF WorkerRecords
<1> HIDE DEF f
<1> QED
  BY <1>2, <1>3, <1>4

\* Answering the active request takes no answer back.
LEMMA FinishGood ==
    ASSUME RecordInv, NEW x \in Receipts
    PROVE  GoodRecord(Finish(mem, x))
<1> DEFINE f == Finish(mem, x)
<1>1. /\ f \in WorkerRecords /\ f.active = Nobody /\ f.stops = mem.stops
      /\ \A r \in Restores : r # mem.active => f.owners[r] = mem.owners[r]
  BY FinishFields DEF RecordInv
<1> HIDE DEF f
<1>2. \A r \in Restores : mem.owners[r].receipt # "none" => r # mem.active
  BY NamesAssumption DEF RecordInv, ActiveOpen
<1>3. GoodRecord(f)
  BY <1>1, <1>2 DEF GoodRecord, Extends, ActiveOpen
<1> QED
  BY <1>3 DEF f

\* Nothing is pending in this field.
LEMMA NothingTyped == NoRestore \in [op : Ops \cup {Nobody}, commit : BOOLEAN, repair : BOOLEAN]
  BY DEF NoRestore

\* Settling a restore takes no answer back.
LEMMA SettleGood ==
    ASSUME RecordInv, NEW x \in Receipts
    PROVE  /\ GoodRecord(Settle(mem, x))
           /\ Settle(mem, x).stop = mem.stop /\ Settle(mem, x).stops = mem.stops
<1> DEFINE f == Finish(mem, x)
           m == [f EXCEPT !.restore = NoRestore]
<1>1. GoodRecord(f) /\ f.stop = mem.stop /\ f.stops = mem.stops
  BY FinishGood, FinishFields DEF RecordInv
<1>2. Settle(mem, x) = m
  BY DEF Settle
<1> HIDE DEF f
<1>3. /\ m \in WorkerRecords /\ m.active = f.active /\ m.owners = f.owners
      /\ m.stops = f.stops /\ m.stop = f.stop
  BY <1>1, NothingTyped DEF GoodRecord, WorkerRecords
<1> HIDE DEF m
<1> QED
  BY <1>1, <1>2, <1>3, SameAnswersGood

\* A new intent may be added: it has no answer yet.
LEMMA StopWithGood ==
    ASSUME RecordInv, NEW n, GoodRecord(n), n.stops = mem.stops,
           NEW s \in Stops \cup {Nobody}, ~Known(s),
           NEW o \in StopOps \cup {Nobody}, NEW done \in BOOLEAN
    PROVE  GoodRecord(StopWith(n, s, o, done))
<1>1. CASE s = Nobody
  BY <1>1 DEF StopWith
<1>2. CASE s # Nobody
  <2> DEFINE w == [op |-> o, done |-> done]
             m == [n EXCEPT !.stops[s] = w]
  <2>1. StopWith(n, s, o, done) = m
    BY <1>2 DEF StopWith
  <2>2. mem.stops[s].done = FALSE
    BY <1>2 DEF Known, NoStop
  <2>3. w \in [op : StopOps \cup {Nobody}, done : BOOLEAN]
    OBVIOUS
  <2> HIDE DEF w
  <2>4. /\ m \in WorkerRecords /\ m.active = n.active /\ m.owners = n.owners
        /\ m.stops = [n.stops EXCEPT ![s] = w]
    BY <1>2, <2>3 DEF GoodRecord, WorkerRecords
  <2>5. \A t \in Stops : t # s => m.stops[t] = mem.stops[t]
    BY <2>4 DEF RecordInv, WorkerRecords
  <2> HIDE DEF m
  <2>6. GoodRecord(m)
    BY <1>2, <2>2, <2>4, <2>5 DEF GoodRecord, Extends, ActiveOpen
  <2> QED
    BY <2>1, <2>6
<1> QED
  BY <1>1, <1>2

-----------------------------------------------------------------------------
\* Writes.

\* Every outcome of a write of a good record leaves the answers where they were,
\* in memory and in whatever a restart may find.
LEMMA WriteKeeps ==
    ASSUME RecordInv, NEW m, GoodRecord(m),
           \/ Saved(m) \/ Torn(m) \/ Lost
           \/ Renamed(m) /\ UNCHANGED <<mem, flagged>>
    PROVE  RecordInv' /\ KeepsAnswers /\ mem' \in WorkerRecords
<1>1. CASE Saved(m)
  BY <1>1 DEF Saved, RecordInv, GoodRecord, Extends, KeepsAnswers
<1>2. CASE Torn(m)
  BY <1>2 DEF Torn, Renamed, RecordInv, GoodRecord, KeepsAnswers
<1>3. CASE Lost
  BY <1>3 DEF Lost, record, RecordInv, KeepsAnswers
<1>4. CASE Renamed(m) /\ UNCHANGED <<mem, flagged>>
  BY <1>4 DEF Renamed, RecordInv, GoodRecord, KeepsAnswers
<1> QED
  BY <1>1, <1>2, <1>3, <1>4

\* So does a step that writes nothing.
LEMMA NoWriteKeeps ==
    ASSUME RecordInv, UNCHANGED record
    PROVE  RecordInv' /\ KeepsAnswers /\ mem' \in WorkerRecords
  BY DEF record, RecordInv, KeepsAnswers

\* Admission answers nothing and names an operation.
LEMMA AdmittedGood ==
    ASSUME RecordInv, NEW r \in Restores, mem.owners[r] = NoOwner
    PROVE  GoodRecord(Admitted(r)) /\ Admitted(r).restore.op \in Ops
<1> DEFINE o == IF Recovering THEN mem.restore.op ELSE r
           w == [op |-> o, started |-> Recovering, receipt |-> "none"]
           m == [mem EXCEPT !.restore.op = o, !.active = r, !.owners[r] = w]
<1>1. Admitted(r) = m
  BY DEF Admitted
<1>2. o \in Ops
  BY DEF Recovering, PendingRestore, RecordInv, WorkerRecords, Ops
<1>3. Recovering \in BOOLEAN
  BY DEF Recovering, PendingRestore
<1>4. /\ w \in [op : Ops \cup {Nobody}, started : BOOLEAN, receipt : Receipts \cup {"none"}]
      /\ w.receipt = "none"
  BY <1>2, <1>3
<1> HIDE DEF o, w
<1>5. /\ m \in WorkerRecords /\ m.active = r /\ m.stops = mem.stops /\ m.restore.op = o
      /\ m.owners = [mem.owners EXCEPT ![r] = w]
  BY <1>2, <1>4 DEF RecordInv, WorkerRecords
<1>6. m.owners[r] = w /\ \A q \in Restores : q # r => m.owners[q] = mem.owners[q]
  BY <1>5 DEF RecordInv, WorkerRecords
<1>7. mem.owners[r].receipt = "none"
  BY DEF NoOwner
<1> HIDE DEF m
<1>8. GoodRecord(m)
  BY <1>4, <1>5, <1>6, <1>7 DEF GoodRecord, Extends, ActiveOpen
<1> QED
  BY <1>1, <1>2, <1>5, <1>8

-----------------------------------------------------------------------------
\* What a step does beside the backend.

\* The record keeps its answers and the lock passes to another stage.
Moved ==
    /\ RecordInv' /\ KeepsAnswers
    /\ LockInv'
    /\ job'.pc # "reclaiming"

\* The two halves of a step.
LEMMA StepKeeps ==
    ASSUME Moved, BackendInv'
    PROVE  Inv' /\ KeepsAnswers
  BY DEF Moved, Inv, ReclaimInv

\* A step that leaves the backend alone.
LEMMA IdleBackend ==
    ASSUME BackendInv, UNCHANGED <<backend, touched>>
    PROVE  BackendInv'
  BY DEF BackendInv, backend

\* A free lock.
LEMMA FreeJob == NoJob \in Jobs /\ NoJob.pc = "idle"
  BY DEF NoJob, Jobs, Pcs

\* The holder goes on to another stage.
LEMMA GotoTyped ==
    ASSUME job \in Jobs, NEW pc \in Pcs, Goto(pc)
    PROVE  job' \in Jobs /\ job'.pc = pc
  BY DEF Goto, Jobs

\* A continuation is started once.
LEMMA DriveTyped ==
    ASSUME driver \in Drivers, NEW o, Drive(o) PROVE driver' \in Drivers
  BY DEF Drivers, Drive

\* A job that ends leaves the lock free.
LEMMA EndRestoreTyped ==
    ASSUME driver \in Drivers, EndRestore
    PROVE  job' \in Jobs /\ job'.pc = "idle" /\ driver' \in Drivers
<1>1. driver' \in Drivers
  <2>1. CASE driver' = [driver EXCEPT ![job.op] = "done"]
    BY <2>1 DEF Drivers
  <2> QED
    BY <2>1, DriveTyped DEF EndRestore
<1> QED
  BY <1>1, FreeJob DEF EndRestore

\* Going on without a write.
LEMMA GotoMoves ==
    ASSUME Inv, NEW pc \in Pcs \ {"reclaiming", "finish"}, Goto(pc), UNCHANGED <<record, driver>>,
           ctx' \in Contexts
    PROVE  Moved
  BY NoWriteKeeps, GotoTyped DEF Inv, LockInv, Moved

\* Going on after a write.
LEMMA SavedMoves ==
    ASSUME Inv, NEW m, GoodRecord(m), Saved(m), job' \in Jobs,
           job'.pc \notin {"reclaiming", "finish"}, driver' \in Drivers, ctx' \in Contexts
    PROVE  Moved
  BY WriteKeeps DEF Inv, LockInv, Moved

\* Ending with or without a write, whatever its outcome.
LEMMA EndMoves ==
    ASSUME Inv, EndRestore, ctx' \in Contexts,
           \/ UNCHANGED record
           \/ \E m : /\ GoodRecord(m)
                    /\ \/ Saved(m) \/ Failed(m)
                       \/ Renamed(m) /\ UNCHANGED <<mem, flagged>>
    PROVE  Moved
<1>1. RecordInv' /\ KeepsAnswers
  BY NoWriteKeeps, WriteKeeps DEF Inv, Failed
<1> QED
  BY <1>1, EndRestoreTyped DEF Inv, LockInv, Moved

\* A held context is a context.
LEMMA HeldTyped == ASSUME ctx \in Contexts PROVE HeldContext \in Contexts
  BY DEF HeldContext, Contexts

\* Ending with the operation still pending.
LEMMA PendingMoves ==
    ASSUME Inv, EndPending PROVE Moved
  BY EndMoves, HeldTyped DEF EndPending, Inv, LockInv

\* Ending a discard that failed.
LEMMA DiscardFailsMoves ==
    ASSUME Inv, DiscardFails PROVE Moved
  BY EndMoves, HeldTyped DEF DiscardFails, Inv, LockInv

\* Ending a stop that failed.
LEMMA StopFailsMoves ==
    ASSUME Inv, StopFails, UNCHANGED ctx PROVE Moved
  BY NoWriteKeeps, DriveTyped, FreeJob DEF StopFails, Inv, LockInv, Moved

\* What follows a confirmed failure.
LEMMA FailureMoves ==
    ASSUME Inv, NEW kind, NEW answered, AfterFailure(kind, answered) PROVE Moved
<1>1. CASE EndPending
  BY <1>1, PendingMoves
<1>2. CASE /\ Goto(IF kind = "clean" THEN "reject" ELSE "rollback")
           /\ ctx' = "none" /\ UNCHANGED <<record, driver>>
  BY <1>2, GotoMoves DEF Pcs, Contexts
<1> QED
  BY <1>1, <1>2 DEF AfterFailure

-----------------------------------------------------------------------------
\* Requests and attempts.

\* Steps that neither touch the record nor the backend.
LEMMA ChoiceStep ==
    ASSUME Inv, \/ TimeOut \/ Attempt \/ Preflight \/ KnownFailure \/ Publish \/ Delete
    PROVE  Inv' /\ KeepsAnswers
<1>0. RecordInv /\ LockInv /\ BackendInv
  BY DEF Inv
<1>1. UNCHANGED <<backend, touched>>
  BY DEF TimeOut, Attempt, Preflight, KnownFailure, Publish, Delete
<1> SUFFICES Moved
  BY <1>0, <1>1, StepKeeps, IdleBackend
<1>2. CASE TimeOut
  <2>1. CASE EndPending
    BY <2>1, PendingMoves
  <2>2. CASE UNCHANGED record /\ EndRestore /\ ctx' = IF job.direct THEN ctx ELSE HeldContext
    BY <2>2, DiscardFailsMoves DEF DiscardFails
  <2>3. CASE StopFails /\ UNCHANGED ctx
    BY <2>3, StopFailsMoves
  <2> QED
    BY <1>2, <2>1, <2>2, <2>3 DEF TimeOut
<1>3. CASE Attempt
  <2>1. CASE UNCHANGED record /\ EndRestore
    BY <1>0, <1>3, <2>1, EndMoves DEF Attempt, LockInv
  <2>2. CASE /\ job' = [job EXCEPT
                    !.pc = IF Reclaims THEN "reclaim" ELSE IF Begun THEN "call" ELSE "preflight",
                    !.again = Begun \/ Reclaims]
             /\ UNCHANGED <<record, driver>>
    <3> DEFINE pc == IF Reclaims THEN "reclaim" ELSE IF Begun THEN "call" ELSE "preflight"
               again == Begun \/ Reclaims
    <3>1. pc \in Pcs /\ pc \notin {"reclaiming", "finish"} /\ again \in BOOLEAN
      BY DEF Pcs
    <3>2. job' = [job EXCEPT !.pc = pc, !.again = again]
      BY <2>2
    <3> HIDE DEF pc, again
    <3>3. job' \in Jobs /\ job'.pc \notin {"reclaiming", "finish"}
      BY <1>0, <3>1, <3>2 DEF LockInv, Jobs
    <3>4. RecordInv' /\ KeepsAnswers
      BY <1>0, <2>2, NoWriteKeeps
    <3> QED
      BY <1>0, <1>3, <2>2, <3>3, <3>4 DEF Attempt, LockInv, Moved
  <2> QED
    BY <1>3, <2>1, <2>2 DEF Attempt
<1>4. CASE Preflight
  <2>1. CASE UNCHANGED <<record, ctx>> /\ EndRestore
    BY <1>0, <2>1, EndMoves DEF LockInv
  <2>2. ASSUME NEW x \in {"accepted", "rejected"},
               job' = [job EXCEPT !.pc = "finish", !.receipt = x],
               UNCHANGED <<record, ctx, driver>>
        PROVE  Moved
    <3>1. job' \in Jobs /\ job'.pc = "finish" /\ job'.receipt = x
      BY <1>0, <2>2 DEF LockInv, Jobs, Pcs
    <3> QED
      BY <1>0, <2>2, <3>1, NoWriteKeeps DEF LockInv, Moved
  <2> QED
    BY <1>4, <2>1, <2>2 DEF Preflight
<1>5. CASE KnownFailure
  BY <1>5, FailureMoves DEF KnownFailure
<1>6. CASE Publish
  <2>1. CASE job' = [job EXCEPT !.pc = "finish", !.receipt = "accepted"] /\ UNCHANGED <<record, driver>>
    <3>1. job' \in Jobs /\ job'.pc = "finish" /\ job'.receipt = "accepted"
      BY <1>0, <2>1 DEF LockInv, Jobs, Pcs
    <3> QED
      BY <1>0, <1>6, <2>1, <3>1, NoWriteKeeps DEF Publish, LockInv, Moved
  <2>2. CASE UNCHANGED record /\ EndRestore
    BY <1>0, <1>6, <2>2, EndMoves DEF Publish, LockInv
  <2> QED
    BY <1>6, <2>1, <2>2 DEF Publish
<1>7. CASE Delete
  <2>1. job' \in Jobs /\ job'.pc = "stop"
    BY <1>7 DEF Delete, StopJob, NoJob, Jobs, Pcs
  <2> QED
    BY <1>0, <1>7, <2>1, NoWriteKeeps DEF Delete, LockInv, Moved
<1> QED
  BY <1>2, <1>3, <1>4, <1>5, <1>6, <1>7

\* The job of an attempt.
LEMMA RunTyped ==
    ASSUME NEW o \in Ops \cup {Nobody} PROVE Run(o) \in Jobs /\ Run(o).pc = "run"
  BY DEF Run, NoJob, Jobs, Pcs

\* A Restore request takes up an operation or becomes the active one.
LEMMA RestoreRequestStep ==
    ASSUME Inv, NEW r \in Restores, NEW c \in BOOLEAN, RestoreAgain(r, c) \/ RestoreAdmit(r, c)
    PROVE  Inv' /\ KeepsAnswers
<1>0. RecordInv /\ LockInv /\ BackendInv
  BY DEF Inv
<1>1. UNCHANGED <<ctx, backend, touched>>
  BY DEF RestoreAgain, RestoreAdmit
<1>2. CASE RestoreAgain(r, c)
  <2>1. mem.restore.op \in Ops \cup {Nobody}
    BY <1>0 DEF RecordInv, WorkerRecords
  <2>2. Moved
    BY <1>0, <1>2, <2>1, RunTyped, NoWriteKeeps DEF RestoreAgain, LockInv, Moved
  <2> QED
    BY <1>0, <1>1, <2>2, StepKeeps, IdleBackend
<1>3. CASE RestoreAdmit(r, c)
  <2>1. GoodRecord(Admitted(r)) /\ Admitted(r).restore.op \in Ops
    BY <1>0, <1>3, AdmittedGood DEF RestoreAdmit
  <2>2. RecordInv' /\ KeepsAnswers
    BY <1>0, <1>3, <2>1, WriteKeeps DEF RestoreAdmit
  <2>3. job' \in {job, NoJob, Run(Admitted(r).restore.op)} /\ job.pc = "idle"
    BY <1>3 DEF RestoreAdmit, Free
  <2>4. job' \in Jobs /\ job'.pc \notin {"reclaiming", "finish"}
    BY <1>0, <2>1, <2>3, FreeJob, RunTyped DEF LockInv
  <2>5. driver' \in Drivers
    BY <1>0, <1>3, DriveTyped DEF RestoreAdmit, LockInv
  <2>6. Moved
    BY <1>0, <1>1, <2>2, <2>4, <2>5 DEF Moved, LockInv
  <2> QED
    BY <1>0, <1>1, <2>6, StepKeeps, IdleBackend
<1> QED
  BY <1>2, <1>3

\* Marking the active request as started answers nothing.
LEMMA BeginRestoreStep ==
    ASSUME Inv, BeginRestore
    PROVE  Inv' /\ KeepsAnswers
<1>0. RecordInv /\ LockInv /\ BackendInv
  BY DEF Inv
<1> DEFINE os == [r \in Restores |-> IF r = mem.active THEN [mem.owners[r] EXCEPT !.started = TRUE]
                                                       ELSE mem.owners[r]]
           m == [mem EXCEPT !.restore.op = job.op, !.owners = os]
<1>1. /\ os \in [Restores -> [op : Ops \cup {Nobody}, started : BOOLEAN,
                              receipt : Receipts \cup {"none"}]]
      /\ \A r \in Restores : os[r].receipt = mem.owners[r].receipt
  <2>1. mem.owners \in [Restores -> [op : Ops \cup {Nobody}, started : BOOLEAN,
                                      receipt : Receipts \cup {"none"}]]
    BY <1>0 DEF RecordInv, WorkerRecords
  <2> QED
    BY <2>1
<1>2. job.op \in Ops \cup {Nobody}
  BY <1>0 DEF LockInv, Jobs
<1>3. /\ \/ Saved(m) /\ ctx' = (IF ctx = "none" THEN "held" ELSE ctx) /\ Goto("call") /\ UNCHANGED driver
         \/ Failed(m) /\ EndRestore /\ UNCHANGED ctx
      /\ touched' \subseteq touched /\ UNCHANGED backend
  BY DEF BeginRestore
<1> HIDE DEF os
<1>4. /\ m \in WorkerRecords /\ m.active = mem.active /\ m.owners = os /\ m.stops = mem.stops
  BY <1>0, <1>1, <1>2 DEF RecordInv, WorkerRecords
<1> HIDE DEF m
<1>5. m.active # Nobody => m.active \in Restores
  BY <1>0, <1>4 DEF RecordInv, WorkerRecords
<1>6. GoodRecord(m)
  BY <1>0, <1>1, <1>4, <1>5 DEF RecordInv, GoodRecord, Extends, ActiveOpen
<1>7. Moved
  <2>1. CASE Saved(m) /\ ctx' = (IF ctx = "none" THEN "held" ELSE ctx) /\ Goto("call") /\ UNCHANGED driver
    <3>1. job' \in Jobs /\ job'.pc = "call"
      BY <1>0, <2>1, GotoTyped DEF LockInv, Pcs
    <3> QED
      BY <1>0, <1>6, <2>1, <3>1, SavedMoves DEF LockInv, Contexts
  <2>2. CASE Failed(m) /\ EndRestore /\ UNCHANGED ctx
    BY <1>0, <1>6, <2>2, EndMoves DEF LockInv
  <2> QED
    BY <1>3, <2>1, <2>2
<1>8. BackendInv'
  BY <1>0, <1>3 DEF BackendInv, backend
<1> QED
  BY <1>7, <1>8, StepKeeps

\* A receipt is written for the active request only.
LEMMA FinishRestoreStep ==
    ASSUME Inv, FinishRestore
    PROVE  Inv' /\ KeepsAnswers
<1>0. RecordInv /\ LockInv /\ BackendInv
  BY DEF Inv
<1>1. job.receipt \in Receipts
  BY <1>0 DEF FinishRestore, LockInv, Jobs, Receipts
<1>2. GoodRecord(Settle(mem, job.receipt))
  BY <1>0, <1>1, SettleGood
<1>3. /\ EndRestore /\ UNCHANGED <<backend, touched>>
      /\ \/ UNCHANGED record
         \/ Saved(Settle(mem, job.receipt)) \/ Failed(Settle(mem, job.receipt))
      /\ ctx' \in Contexts
  BY <1>0 DEF FinishRestore, Failed, Lost, LockInv, Contexts
<1>4. Moved
  BY <1>2, <1>3, EndMoves
<1> QED
  BY <1>0, <1>3, <1>4, StepKeeps, IdleBackend

-----------------------------------------------------------------------------
\* The backend's side of an attempt.

\* The fields of an absent candidate.
LEMMA NoCandTyped == NoCand \in Candidates /\ ~NoCand.only
  BY DEF NoCand, Candidates, Tasks

\* A candidate is started, taken up again or given up.
LEMMA CallRestoreStep ==
    ASSUME Inv, CallRestore
    PROVE  Inv' /\ KeepsAnswers
<1>0. RecordInv /\ LockInv /\ BackendInv
  BY DEF Inv
<1>1. touched' = touched
  BY DEF CallRestore
<1>2. CASE Goto("commit") /\ UNCHANGED <<record, ctx, backend, driver>>
  <2>1. Moved
    BY <1>0, <1>2, GotoMoves DEF LockInv, Pcs
  <2> QED
    BY <1>0, <1>1, <1>2, <2>1, StepKeeps, IdleBackend
<1>3. CASE EndPending /\ UNCHANGED backend
  BY <1>0, <1>1, <1>3, PendingMoves, StepKeeps, IdleBackend
<1>4. CASE AfterFailure("clean", FALSE) /\ UNCHANGED backend
  BY <1>0, <1>1, <1>4, FailureMoves, StepKeeps, IdleBackend
<1>5. CASE /\ cand.op = job.op /\ ~cand.only
           /\ Goto("join") /\ UNCHANGED <<record, ctx, conn, failed, driver>>
           /\ \E t \in {"cleaning", "preparing", "idle"} : cand' = [cand EXCEPT !.task = t]
  <2>1. Moved
    BY <1>0, <1>5, GotoMoves DEF LockInv, Pcs
  <2>2. cand' \in Candidates /\ ~cand'.only
    BY <1>0, <1>5 DEF BackendInv, Candidates, Tasks
  <2>3. BackendInv'
    BY <1>0, <1>1, <1>5, <2>2 DEF BackendInv
  <2> QED
    BY <2>1, <2>3, StepKeeps
<1>6. CASE /\ cand' = [NoCand EXCEPT !.op = job.op, !.task = "preparing",
                                     !.eff = mem.restore.repair \/ mem.restore.commit]
           /\ failed' = NoFailure /\ Goto("join") /\ UNCHANGED <<record, ctx, conn, driver>>
  <2>1. Moved
    BY <1>0, <1>6, GotoMoves DEF LockInv, Pcs
  <2>2. (mem.restore.repair \/ mem.restore.commit) \in BOOLEAN /\ job.op \in Ops \cup {Nobody}
    BY <1>0 DEF LockInv, Jobs
  <2>3. cand' \in Candidates /\ ~cand'.only
    BY <1>6, <2>2, NoCandTyped DEF Candidates, Tasks
  <2>4. failed' \in Failures
    BY <1>6 DEF NoFailure, Failures
  <2>5. BackendInv'
    BY <1>0, <1>1, <1>6, <2>3, <2>4 DEF BackendInv
  <2> QED
    BY <2>1, <2>5, StepKeeps
<1>7. \/ Goto("commit") /\ UNCHANGED <<record, ctx, backend, driver>>
      \/ EndPending /\ UNCHANGED backend
      \/ AfterFailure("clean", FALSE) /\ UNCHANGED backend
      \/ /\ cand.op = job.op /\ ~cand.only
         /\ Goto("join") /\ UNCHANGED <<record, ctx, conn, failed, driver>>
         /\ \E t \in {"cleaning", "preparing", "idle"} : cand' = [cand EXCEPT !.task = t]
      \/ /\ cand' = [NoCand EXCEPT !.op = job.op, !.task = "preparing",
                                   !.eff = mem.restore.repair \/ mem.restore.commit]
         /\ failed' = NoFailure /\ Goto("join") /\ UNCHANGED <<record, ctx, conn, driver>>
  BY DEF CallRestore
<1> QED
  BY <1>2, <1>3, <1>4, <1>5, <1>6, <1>7

\* A failure is remembered with its kind and its candidate forgotten.
LEMMA Forgotten ==
    ASSUME BackendInv, LockInv, NEW kind \in {"clean", "rolled"},
           failed' = [op |-> job.op, kind |-> kind], cand' = NoCand, UNCHANGED <<conn, touched>>
    PROVE  BackendInv'
<1>1. failed' \in Failures
  BY DEF Failures, LockInv, Jobs
<1> QED
  BY <1>1, NoCandTyped DEF BackendInv

\* A prepared candidate is committed, a failed one answered or kept.
LEMMA JoinRestoreStep ==
    ASSUME Inv, JoinRestore
    PROVE  Inv' /\ KeepsAnswers
<1>0. RecordInv /\ LockInv /\ BackendInv
  BY DEF Inv
<1>1. touched' = touched
  BY DEF JoinRestore
<1>2. CASE Goto("commit") /\ UNCHANGED <<record, ctx, backend, driver>>
  <2>1. Moved
    BY <1>0, <1>2, GotoMoves DEF LockInv, Pcs
  <2> QED
    BY <1>0, <1>1, <1>2, <2>1, StepKeeps, IdleBackend
<1>3. CASE EndPending /\ UNCHANGED backend
  BY <1>0, <1>1, <1>3, PendingMoves, StepKeeps, IdleBackend
<1>4. CASE /\ cand.res \in {"clean", "rolled"}
           /\ failed' = [op |-> job.op, kind |-> cand.res] /\ cand' = NoCand
           /\ AfterFailure(cand.res, FALSE) /\ UNCHANGED conn
  BY <1>0, <1>1, <1>4, FailureMoves, Forgotten, StepKeeps
<1> QED
  BY <1>2, <1>3, <1>4 DEF JoinRestore

\* A reclaimed candidate is for cleanup only.
LEMMA ReclaimStep ==
    ASSUME Inv, Reclaim
    PROVE  Inv' /\ KeepsAnswers
<1>0. RecordInv /\ LockInv /\ BackendInv
  BY DEF Inv
<1>1. touched' = touched
  BY DEF Reclaim
<1>2. CASE EndPending /\ UNCHANGED backend
  BY <1>0, <1>1, <1>2, PendingMoves, StepKeeps, IdleBackend
<1>3. CASE Goto("reclaiming") /\ UNCHANGED <<record, ctx, conn, failed, driver>>
  <2>1. job' \in Jobs /\ job'.pc = "reclaiming"
    BY <1>0, <1>3, GotoTyped DEF LockInv, Pcs
  <2>2. RecordInv' /\ KeepsAnswers
    BY <1>0, <1>3, NoWriteKeeps
  <2>3. LockInv'
    BY <1>0, <1>3, <2>1 DEF LockInv
  <2>4. job.op \in Ops \cup {Nobody} /\ mem.restore.repair \in BOOLEAN
    BY <1>0 DEF LockInv, Jobs, RecordInv, WorkerRecords
  <2>5. /\ cand' \in Candidates /\ cand'.only
        /\ cand'.res \in {"dirty", "rolled"} /\ cand'.task \in {"idle", "cleaning"}
    <3>1. CASE cand.only /\ cand' = [cand EXCEPT !.task = IF cand.res = "dirty" THEN "cleaning" ELSE "idle"]
      BY <1>0, <3>1 DEF BackendInv, Candidates, Tasks
    <3>2. CASE cand' = [NoCand EXCEPT !.op = job.op, !.only = TRUE, !.res = "dirty",
                                      !.task = "cleaning", !.eff = mem.restore.repair]
      BY <2>4, <3>2 DEF NoCand, Candidates, Tasks
    <3>3. \/ cand.only /\ cand' = [cand EXCEPT !.task = IF cand.res = "dirty" THEN "cleaning" ELSE "idle"]
          \/ cand' = [NoCand EXCEPT !.op = job.op, !.only = TRUE, !.res = "dirty",
                                    !.task = "cleaning", !.eff = mem.restore.repair]
          \/ EndPending
      BY DEF Reclaim
    <3>4. EndPending => job'.pc = "idle"
      BY FreeJob DEF EndPending, EndRestore
    <3> QED
      BY <2>1, <3>1, <3>2, <3>3, <3>4
  <2>6. BackendInv'
    BY <1>0, <1>1, <1>3, <2>5 DEF BackendInv
  <2> QED
    BY <2>2, <2>3, <2>5, <2>6 DEF Inv, ReclaimInv
<1> QED
  BY <1>2, <1>3 DEF Reclaim

\* The answer of a reclaim is a rollback or nothing.
LEMMA ReclaimedStep ==
    ASSUME Inv, Reclaimed
    PROVE  Inv' /\ KeepsAnswers
<1>0. RecordInv /\ LockInv /\ BackendInv /\ ReclaimInv
  BY DEF Inv
<1>1. touched' = touched
  BY DEF Reclaimed
<1>2. CASE EndPending /\ UNCHANGED backend
  BY <1>0, <1>1, <1>2, PendingMoves, StepKeeps, IdleBackend
<1>3. CASE /\ cand.res # "dirty"
           /\ failed' = [op |-> job.op, kind |-> cand.res] /\ cand' = NoCand
           /\ AfterFailure("rolled", FALSE) /\ UNCHANGED conn
  <2>1. cand.res \in {"clean", "rolled"}
    BY <1>0, <1>3 DEF Reclaimed, ReclaimInv, BackendInv
  <2> QED
    BY <1>0, <1>1, <1>3, <2>1, FailureMoves, Forgotten, StepKeeps
<1> QED
  BY <1>2, <1>3 DEF Reclaimed

-----------------------------------------------------------------------------
\* From the decision to the published execution, and back.

\* The decision changes no answer.
LEMMA CommitStep ==
    ASSUME Inv, Commit
    PROVE  Inv' /\ KeepsAnswers
<1>0. RecordInv /\ LockInv /\ BackendInv
  BY DEF Inv
<1> DEFINE m == [mem EXCEPT !.status = "active", !.restore.commit = TRUE]
<1>1. /\ \/ Saved(m) /\ Goto("connect") /\ UNCHANGED <<ctx, driver>>
         \/ Torn(m) /\ EndRestore /\ ctx' = HeldContext
         \/ Lost /\ Goto("discard") /\ UNCHANGED <<ctx, driver>>
         \/ EndPending
      /\ UNCHANGED <<backend, touched>>
  BY DEF Commit
<1>2. m \in WorkerRecords /\ m.active = mem.active /\ m.owners = mem.owners /\ m.stops = mem.stops
  BY <1>0 DEF RecordInv, WorkerRecords
<1>3. GoodRecord(m)
  BY <1>0, <1>2, MemGood, SameAnswersGood
<1> HIDE DEF m
<1>4. CASE Saved(m) /\ Goto("connect") /\ UNCHANGED <<ctx, driver>>
  <2>1. job' \in Jobs /\ job'.pc = "connect"
    BY <1>0, <1>4, GotoTyped DEF LockInv, Pcs
  <2>2. Moved
    BY <1>0, <1>3, <1>4, <2>1, SavedMoves DEF LockInv
  <2> QED
    BY <1>0, <1>1, <2>2, StepKeeps, IdleBackend
<1>5. CASE Torn(m) /\ EndRestore /\ ctx' = HeldContext
  <2>1. Moved
    BY <1>0, <1>3, <1>5, EndMoves, HeldTyped DEF Failed, LockInv
  <2> QED
    BY <1>0, <1>1, <2>1, StepKeeps, IdleBackend
<1>6. CASE Lost /\ Goto("discard") /\ UNCHANGED <<ctx, driver>>
  <2>1. Moved
    BY <1>0, <1>6, GotoMoves DEF Lost, LockInv, Pcs
  <2> QED
    BY <1>0, <1>1, <2>1, StepKeeps, IdleBackend
<1>7. CASE EndPending
  BY <1>0, <1>1, <1>7, PendingMoves, StepKeeps, IdleBackend
<1> QED
  BY <1>1, <1>4, <1>5, <1>6, <1>7

\* The activation starts, and its execution is registered.
LEMMA ConnectStep ==
    ASSUME Inv, Connect \/ Connecting
    PROVE  Inv' /\ KeepsAnswers
<1>0. RecordInv /\ LockInv /\ BackendInv
  BY DEF Inv
<1>1. Moved
  <2>1. CASE EndPending
    BY <2>1, PendingMoves
  <2>2. ASSUME NEW pc \in {"connecting", "publish"}, Goto(pc), UNCHANGED <<record, ctx, driver>>
        PROVE  Moved
    <3>1. pc \in Pcs \ {"reclaiming", "finish"}
      BY DEF Pcs
    <3> QED
      BY <1>0, <2>2, <3>1, GotoMoves DEF LockInv
  <2> QED
    BY <2>1, <2>2 DEF Connect, Connecting
<1>2. BackendInv'
  <2>1. touched' = touched /\ failed' = failed
    BY DEF Connect, Connecting
  <2>2. conn' \in Executions
    <3>1. job.op \in Ops \cup {Nobody}
      BY <1>0 DEF LockInv, Jobs
    <3>2. conn' = conn \/ conn' = [on |-> TRUE, op |-> job.op, closing |-> FALSE]
      BY DEF Connect, Connecting
    <3>3. [on |-> TRUE, op |-> job.op, closing |-> FALSE] \in Executions
      BY <3>1 DEF Executions
    <3> QED
      BY <1>0, <3>2, <3>3 DEF BackendInv
  <2>3. \/ cand' = cand \/ cand' = NoCand
        \/ ~cand.only /\ cand' = [cand EXCEPT !.started = TRUE, !.task = "activating"]
    BY DEF Connect, Connecting
  <2>4. CASE cand' = [cand EXCEPT !.started = TRUE, !.task = "activating"] /\ ~cand.only
    <3>1. cand' \in Candidates /\ ~cand'.only
      BY <1>0, <2>4 DEF BackendInv, Candidates, Tasks
    <3> QED
      BY <1>0, <2>1, <2>2, <3>1 DEF BackendInv
  <2> QED
    BY <1>0, <2>1, <2>2, <2>3, <2>4, NoCandTyped DEF BackendInv
<1> QED
  BY <1>1, <1>2, StepKeeps

\* A discard starts.
LEMMA DiscardStep ==
    ASSUME Inv, Discard
    PROVE  Inv' /\ KeepsAnswers
<1>0. RecordInv /\ LockInv /\ BackendInv
  BY DEF Inv
<1>1. Moved
  <2>1. CASE DiscardFails
    BY <2>1, DiscardFailsMoves
  <2>2. CASE Goto("discarding") /\ UNCHANGED <<record, ctx, driver>>
    BY <1>0, <2>2, GotoMoves DEF LockInv, Pcs
  <2> QED
    BY <2>1, <2>2 DEF Discard
<1>2. /\ UNCHANGED <<conn, failed, touched>>
      /\ \/ cand' = cand
         \/ ~cand.only /\ cand' = [cand EXCEPT !.disc = "run", !.task = "discarding"]
  BY DEF Discard
<1>3. CASE ~cand.only /\ cand' = [cand EXCEPT !.disc = "run", !.task = "discarding"]
  <2>1. cand' \in Candidates /\ ~cand'.only
    BY <1>0, <1>3 DEF BackendInv, Candidates, Tasks
  <2>2. BackendInv'
    BY <1>0, <1>2, <2>1 DEF BackendInv
  <2> QED
    BY <1>1, <2>2, StepKeeps
<1>4. CASE cand' = cand
  <2>1. BackendInv'
    BY <1>0, <1>2, <1>4 DEF BackendInv
  <2> QED
    BY <1>1, <2>1, StepKeeps
<1> QED
  BY <1>2, <1>3, <1>4

\* Its answer forgets the candidate or keeps it.
LEMMA DiscardingStep ==
    ASSUME Inv, Discarding
    PROVE  Inv' /\ KeepsAnswers
<1>0. RecordInv /\ LockInv /\ BackendInv
  BY DEF Inv
<1>1. CASE /\ cand.res \in {"clean", "rolled"}
           /\ failed' = [op |-> job.op, kind |-> cand.res] /\ cand' = NoCand
           /\ Goto(IF job.direct THEN "rollback" ELSE "retract")
           /\ ctx' = (IF job.direct THEN ctx ELSE "none")
           /\ UNCHANGED <<record, driver>> /\ UNCHANGED <<conn, touched>>
  <2>1. (IF job.direct THEN "rollback" ELSE "retract") \in Pcs \ {"reclaiming", "finish"}
    BY DEF Pcs
  <2>2. ctx' \in Contexts
    BY <1>0, <1>1 DEF LockInv, Contexts
  <2>3. Moved
    BY <1>1, <2>1, <2>2, GotoMoves
  <2>4. BackendInv'
    BY <1>0, <1>1, Forgotten
  <2> QED
    BY <2>3, <2>4, StepKeeps
<1>2. CASE /\ cand' = (IF cand.disc = "err" THEN [cand EXCEPT !.disc = "seen"] ELSE cand)
           /\ DiscardFails /\ UNCHANGED <<failed, conn, touched>>
  <2>1. cand' \in Candidates /\ cand'.only = cand.only /\ cand'.res = cand.res /\ cand'.task = cand.task
    BY <1>0, <1>2 DEF BackendInv, Candidates
  <2>2. BackendInv'
    BY <1>0, <1>2, <2>1 DEF BackendInv
  <2> QED
    BY <1>2, <2>2, DiscardFailsMoves, StepKeeps
<1> QED
  BY <1>1, <1>2 DEF Discarding

\* A rejected or retracted attempt answers the active request.
LEMMA RetractStep ==
    ASSUME Inv, Retract
    PROVE  Inv' /\ KeepsAnswers
<1>0. RecordInv /\ LockInv /\ BackendInv
  BY DEF Inv
<1> DEFINE x == IF job.pc = "reject" THEN "rejected" ELSE "rolled_back"
           m == Settle(mem, x)
<1>1. GoodRecord(m)
  BY <1>0, SettleGood DEF Receipts
<1>2. Saved(m) \/ Failed(m)
  BY DEF Retract, Failed
<1>3. EndRestore /\ UNCHANGED <<backend, touched>> /\ ctx' \in Contexts
  BY <1>0 DEF Retract, LockInv, Contexts
<1> HIDE DEF m
<1>4. Moved
  BY <1>1, <1>2, <1>3, EndMoves
<1> QED
  BY <1>0, <1>3, <1>4, StepKeeps, IdleBackend

\* So does a recorded failure.
LEMMA RollbackStep ==
    ASSUME Inv, Rollback
    PROVE  Inv' /\ KeepsAnswers
<1>0. RecordInv /\ LockInv /\ BackendInv
  BY DEF Inv
<1> DEFINE n == Settle(mem, "rolled_back")
           m == [n EXCEPT !.stop = Nobody, !.status = "stopped"]
<1>1. GoodRecord(n)
  BY <1>0, SettleGood DEF Receipts
<1>2. /\ \/ Saved(m) \/ Lost
         \/ Renamed(m) /\ UNCHANGED <<mem, flagged, ctx>>
      /\ EndRestore /\ UNCHANGED <<backend, touched>> /\ ctx' \in Contexts
  BY <1>0 DEF Rollback, LockInv, Contexts
<1> HIDE DEF n
<1>3. m \in WorkerRecords /\ m.active = n.active /\ m.owners = n.owners /\ m.stops = n.stops
  BY <1>1 DEF GoodRecord, WorkerRecords
<1> HIDE DEF m
<1>4. GoodRecord(m)
  BY <1>1, <1>3, SameAnswersGood
<1>5. Moved
  BY <1>2, <1>4, EndMoves DEF Failed
<1> QED
  BY <1>0, <1>2, <1>5, StepKeeps, IdleBackend

-----------------------------------------------------------------------------
\* Stop and Delete.

\* The job of a stop.
LEMMA StopJobTyped ==
    ASSUME NEW who \in {"caller", "driver", "startup", "delete"}, NEW o \in Ops \cup {Nobody}
    PROVE  StopJob(who, o) \in Jobs /\ StopJob(who, o).pc = "stop"
  BY DEF StopJob, NoJob, Jobs, Pcs

\* Admission leaves the lock free or begins the cleanup.
LEMMA AdmissionTyped ==
    ASSUME NEW c \in BOOLEAN, AfterAdmission(c)
    PROVE  job' \in Jobs /\ job'.pc \notin {"reclaiming", "finish"}
  BY FreeJob, StopJobTyped DEF AfterAdmission

\* A Stop request: a known intent, a new one for a pending stop, one with nothing
\* to do, or a new stop.  Only intents without an answer are written.
LEMMA StopRequestStep ==
    ASSUME Inv, NEW s \in Stops \cup {Nobody}, NEW c \in BOOLEAN,
           StopAgain(s, c) \/ StopAdopt(s, c) \/ StopBegin(s, c) \/ StopNothing(s)
    PROVE  Inv' /\ KeepsAnswers
<1>0. RecordInv /\ LockInv /\ BackendInv
  BY DEF Inv
<1>1. UNCHANGED <<ctx, backend, driver, touched>>
  BY DEF StopAgain, StopAdopt, StopBegin, StopNothing
<1> SUFFICES Moved
  BY <1>0, <1>1, StepKeeps, IdleBackend
<1>2. job' \in Jobs /\ job'.pc \notin {"reclaiming", "finish"}
  <2>1. (job' = job /\ job.pc = "idle") \/ AfterAdmission(c)
    BY DEF StopAgain, StopAdopt, StopBegin, StopNothing, Free
  <2> QED
    BY <1>0, <2>1, AdmissionTyped DEF LockInv
<1> SUFFICES RecordInv' /\ KeepsAnswers
  BY <1>0, <1>1, <1>2 DEF LockInv, Moved
<1>3. mem.stop \in StopOps \cup {Nobody}
  BY <1>0 DEF RecordInv, WorkerRecords
<1>4. CASE StopAgain(s, c)
  BY <1>0, <1>4, NoWriteKeeps DEF StopAgain
<1>5. CASE StopAdopt(s, c)
  <2>1. GoodRecord(StopWith(mem, s, mem.stop, FALSE))
    BY <1>0, <1>3, <1>5, MemGood, StopWithGood DEF StopAdopt
  <2> QED
    BY <1>0, <1>5, <2>1, WriteKeeps DEF StopAdopt
<1>6. CASE StopNothing(s)
  <2>1. GoodRecord(Finish(mem, "superseded")) /\ Finish(mem, "superseded").stops = mem.stops
    BY <1>0, FinishGood, FinishFields DEF RecordInv, Receipts
  <2>2. s \in StopOps \cup {Nobody}
    BY DEF StopOps
  <2>3. GoodRecord(StopWith(Finish(mem, "superseded"), s, s, TRUE))
    BY <1>0, <1>6, <2>1, <2>2, StopWithGood DEF StopNothing
  <2> QED
    BY <1>0, <1>6, <2>3, WriteKeeps DEF StopNothing
<1>7. CASE StopBegin(s, c)
  <2> DEFINE o == IF s = Nobody THEN "anon" ELSE s
             n == [mem EXCEPT !.stop = o]
             m == StopWith(n, s, o, FALSE)
  <2>1. o \in StopOps
    BY DEF StopOps
  <2>2. Saved(m) \/ (Renamed(m) /\ mem' = m /\ flagged' = TRUE)
    BY <1>7 DEF StopBegin
  <2> HIDE DEF o
  <2>3. /\ n \in WorkerRecords /\ n.active = mem.active /\ n.owners = mem.owners
        /\ n.stops = mem.stops
    BY <1>0, <2>1 DEF RecordInv, WorkerRecords
  <2> HIDE DEF n
  <2>4. GoodRecord(n) /\ ~Known(s)
    BY <1>0, <1>7, <2>3, MemGood, SameAnswersGood DEF StopBegin
  <2>5. GoodRecord(m)
    BY <1>0, <2>1, <2>3, <2>4, StopWithGood
  <2>6. CASE Saved(m)
    BY <1>0, <2>5, <2>6, WriteKeeps
  <2>7. CASE Renamed(m) /\ mem' = m /\ flagged' = TRUE
    <3>1. /\ m.owners = mem.owners
          /\ \A t \in Stops : m.stops[t].done => m.stops[t] = mem.stops[t]
      <4>1. CASE s = Nobody
        BY <2>3, <4>1 DEF StopWith
      <4>2. CASE s # Nobody
        <5> DEFINE w == [op |-> o, done |-> FALSE]
        <5>1. m = [n EXCEPT !.stops[s] = w] /\ w.done = FALSE
          BY <4>2 DEF StopWith
        <5> HIDE DEF w, m
        <5>2. m.owners = n.owners /\ m.stops = [n.stops EXCEPT ![s] = w]
          BY <2>3, <5>1 DEF WorkerRecords
        <5>3. DOMAIN n.stops = Stops
          BY <2>3 DEF WorkerRecords
        <5>4. m.stops[s].done = FALSE /\ \A t \in Stops : t # s => m.stops[t] = n.stops[t]
          BY <4>2, <5>1, <5>2, <5>3
        <5> QED
          BY <2>3, <5>2, <5>4
      <4> QED
        BY <4>1, <4>2
    <3>2. \A d \in {disk} \cup old : Extends(d, m)
      BY <1>0, <3>1 DEF RecordInv, Extends
    <3>3. Extends(m, m)
      BY DEF Extends
    <3> HIDE DEF m
    <3> QED
      BY <1>0, <2>5, <2>7, <3>2, <3>3 DEF Renamed, RecordInv, GoodRecord, Extends, KeepsAnswers
  <2> QED
    BY <2>2, <2>6, <2>7
<1> QED
  BY <1>4, <1>5, <1>6, <1>7

\* A stop waits for the candidate's task and discards what it left.
LEMMA StopCandidateStep ==
    ASSUME Inv, StopCandidate
    PROVE  Inv' /\ KeepsAnswers
<1>0. RecordInv /\ LockInv /\ BackendInv
  BY DEF Inv
<1>1. UNCHANGED <<ctx, failed, touched>>
  BY DEF StopCandidate
<1>2. Moved
  <2>1. CASE StopFails
    BY <1>1, <2>1, StopFailsMoves
  <2>2. ASSUME NEW pc \in {"close", "stopjoin", "dropping"}, Goto(pc), UNCHANGED <<record, driver>>
        PROVE  Moved
    <3>1. pc \in Pcs \ {"reclaiming", "finish"}
      BY DEF Pcs
    <3> QED
      BY <1>0, <1>1, <2>2, <3>1, GotoMoves DEF LockInv
  <2> QED
    BY <2>1, <2>2 DEF StopCandidate
<1>3. conn' \in Executions
  <2>1. conn' = conn \/ conn' = [on |-> TRUE, op |-> cand.op, closing |-> FALSE]
    BY DEF StopCandidate
  <2>2. cand.op \in Ops \cup {Nobody}
    BY <1>0 DEF BackendInv, Candidates
  <2>3. [on |-> TRUE, op |-> cand.op, closing |-> FALSE] \in Executions
    BY <2>2 DEF Executions
  <2> QED
    BY <1>0, <2>1, <2>3 DEF BackendInv
<1>4. /\ cand' \in Candidates
      /\ cand'.only => /\ cand'.res \in {"dirty", "rolled"}
                       /\ cand'.task \in {"idle", "cleaning", "dropping"}
  <2>1. \/ cand' = cand \/ cand' = NoCand
        \/ cand' = [cand EXCEPT !.task = "cleaning"]
        \/ cand' = [cand EXCEPT !.disc = "run", !.task = "dropping"]
        \/ cand' = [cand EXCEPT !.disc = "seen"]
    BY DEF StopCandidate
  <2>2. CASE \/ cand' = [cand EXCEPT !.task = "cleaning"]
             \/ cand' = [cand EXCEPT !.disc = "run", !.task = "dropping"]
             \/ cand' = [cand EXCEPT !.disc = "seen"]
    BY <1>0, <2>2 DEF BackendInv, Candidates, Tasks
  <2> QED
    BY <1>0, <2>1, <2>2, NoCandTyped DEF BackendInv
<1>5. BackendInv'
  BY <1>0, <1>1, <1>3, <1>4 DEF BackendInv
<1> QED
  BY <1>2, <1>5, StepKeeps

\* The execution is closed or stays closing.
LEMMA CloseStep ==
    ASSUME Inv, Close
    PROVE  Inv' /\ KeepsAnswers
<1>0. RecordInv /\ LockInv /\ BackendInv
  BY DEF Inv
<1>1. UNCHANGED <<ctx, cand, failed, touched>>
  BY DEF Close
<1>2. Moved
  <2>1. CASE StopFails
    BY <1>1, <2>1, StopFailsMoves
  <2>2. ASSUME NEW pc \in {"erase", "stopped"}, Goto(pc), UNCHANGED <<record, driver>>
        PROVE  Moved
    <3>1. pc \in Pcs \ {"reclaiming", "finish"}
      BY DEF Pcs
    <3> QED
      BY <1>0, <1>1, <2>2, <3>1, GotoMoves DEF LockInv
  <2> QED
    BY <2>1, <2>2 DEF Close
<1>3. conn' \in Executions
  <2>1. conn' \in {NoConn, conn, [conn EXCEPT !.closing = TRUE]}
    BY DEF Close
  <2>2. NoConn \in Executions
    BY DEF NoConn, Executions
  <2>3. [conn EXCEPT !.closing = TRUE] \in Executions
    BY <1>0 DEF BackendInv, Executions
  <2> QED
    BY <1>0, <2>1, <2>2, <2>3 DEF BackendInv
<1>4. BackendInv'
  BY <1>0, <1>1, <1>3 DEF BackendInv
<1> QED
  BY <1>2, <1>4, StepKeeps

\* The stopped record keeps every answer and adds those of the stop.
LEMMA StoppedGood ==
    ASSUME RecordInv PROVE GoodRecord(StoppedRecord(mem))
<1> DEFINE n == Settle(mem, "superseded")
           ss == [s \in Stops |-> IF mem.stops[s].op = mem.stop
                                  THEN [mem.stops[s] EXCEPT !.done = TRUE] ELSE mem.stops[s]]
           m == [n EXCEPT !.stop = Nobody, !.status = "stopped", !.stops = ss]
<1>1. GoodRecord(n) /\ n.stops = mem.stops
  BY SettleGood DEF Receipts
<1>2. StoppedRecord(mem) = m
  BY DEF StoppedRecord
<1>3. mem.stops \in [Stops -> [op : StopOps \cup {Nobody}, done : BOOLEAN]]
  BY DEF RecordInv, WorkerRecords
<1>4. /\ ss \in [Stops -> [op : StopOps \cup {Nobody}, done : BOOLEAN]]
      /\ \A s \in Stops : mem.stops[s].done => ss[s] = mem.stops[s]
  BY <1>3
<1> HIDE DEF n, ss
<1>5. /\ m \in WorkerRecords /\ m.active = n.active /\ m.owners = n.owners /\ m.stops = ss
  BY <1>1, <1>4 DEF GoodRecord, WorkerRecords
<1> HIDE DEF m
<1>6. GoodRecord(m)
  BY <1>1, <1>4, <1>5 DEF GoodRecord, Extends, ActiveOpen
<1> QED
  BY <1>2, <1>6

\* The end of a stop.
LEMMA CommitStoppedStep ==
    ASSUME Inv, CommitStopped
    PROVE  Inv' /\ KeepsAnswers
<1>0. RecordInv /\ LockInv /\ BackendInv
  BY DEF Inv
<1>1. RecordInv' /\ KeepsAnswers
  BY <1>0, StoppedGood, WriteKeeps DEF CommitStopped, Failed
<1>2. ctx' \in Contexts /\ UNCHANGED <<backend, touched>> /\ job' = NoJob
  BY <1>0 DEF CommitStopped, LockInv, Contexts
<1>3. driver' \in Drivers
  <2>1. CASE driver' = [driver EXCEPT ![job.op] = "done"]
    BY <1>0, <2>1 DEF LockInv, Drivers
  <2> QED
    BY <1>0, <2>1, DriveTyped DEF CommitStopped, LockInv
<1>4. Moved
  BY <1>1, <1>2, <1>3, FreeJob DEF Moved, LockInv
<1> QED
  BY <1>0, <1>2, <1>4, StepKeeps, IdleBackend

\* A deleted record keeps its answers.
LEMMA EraseStep ==
    ASSUME Inv, Erase
    PROVE  Inv' /\ KeepsAnswers
<1>0. RecordInv /\ LockInv /\ BackendInv
  BY DEF Inv
<1> DEFINE m == [mem EXCEPT !.status = "deleted"]
<1>1. m \in WorkerRecords /\ m.active = mem.active /\ m.owners = mem.owners /\ m.stops = mem.stops
  BY <1>0 DEF RecordInv, WorkerRecords
<1>2. UNCHANGED record \/ (mem' = m /\ disk' = m /\ old' = {} /\ flagged' = FALSE)
  BY DEF Erase
<1> HIDE DEF m
<1>3. GoodRecord(m)
  BY <1>0, <1>1, MemGood, SameAnswersGood
<1>4. RecordInv' /\ KeepsAnswers
  BY <1>0, <1>2, <1>3, NoWriteKeeps DEF RecordInv, GoodRecord, Extends, KeepsAnswers
<1>5. Moved /\ UNCHANGED <<backend, touched>>
  BY <1>0, <1>4, FreeJob DEF Erase, Moved, LockInv
<1> QED
  BY <1>0, <1>5, StepKeeps, IdleBackend

-----------------------------------------------------------------------------
\* The backend's tasks, the continuation and a restart.

\* A task that ends leaves a typed candidate.
LEMMA TaskTyped ==
    ASSUME BackendInv, ~cand.only,
           NEW x \in {"none", "ready", "active", "clean", "rolled", "dirty"},
           NEW e \in BOOLEAN, TaskEnds([cand EXCEPT !.res = x, !.eff = e])
    PROVE  cand' \in Candidates /\ ~cand'.only
  BY DEF BackendInv, TaskEnds, Candidates, Tasks

\* The tasks that prepare, repair or activate a candidate.
LEMMA WorkTaskStep ==
    ASSUME Inv, Prepare \/ Authorize \/ Repair \/ Activate
    PROVE  Inv' /\ KeepsAnswers
<1>0. RecordInv /\ LockInv /\ BackendInv
  BY DEF Inv
<1>1. UNCHANGED <<ctx, job, conn, failed, driver>>
  BY DEF Prepare, Authorize, Repair, Activate
<1>2. ~cand.only /\ cand.op \in Ops \cup {Nobody} /\ cand.eff \in BOOLEAN /\ Effects \in BOOLEAN
  BY <1>0 DEF Prepare, Authorize, Repair, Activate, BackendInv, Candidates, Effects
<1>3. cand' \in Candidates /\ ~cand'.only
  <2>1. CASE Prepare
    BY <1>0, <1>2, <2>1, TaskTyped DEF Prepare
  <2>2. CASE Authorize
    <3>1. CASE Refuse
      BY <1>0, <1>2, <3>1, TaskTyped DEF Refuse
    <3>2. CASE cand' = [cand EXCEPT !.task = "repairing"]
      BY <1>0, <1>2, <3>2 DEF BackendInv, Candidates, Tasks
    <3> QED
      BY <2>2, <3>1, <3>2 DEF Authorize
  <2>3. CASE Repair
    BY <1>0, <1>2, <2>3, TaskTyped DEF Repair
  <2>4. CASE Activate
    <3>1. PICK x \in {"active", "ready", "rolled", "dirty"} :
            TaskEnds([cand EXCEPT !.res = x, !.eff = (x \in {"rolled", "dirty"}) \/ cand.eff])
      BY <2>4 DEF Activate
    <3>2. ((x \in {"rolled", "dirty"}) \/ cand.eff) \in BOOLEAN
      OBVIOUS
    <3> QED
      BY <1>0, <1>2, <3>1, <3>2, TaskTyped
  <2> QED
    BY <2>1, <2>2, <2>3, <2>4
<1>4. RecordInv' /\ KeepsAnswers
  <2>1. CASE UNCHANGED record
    BY <1>0, <2>1, NoWriteKeeps
  <2>2. CASE Authorize /\ ~UNCHANGED record
    <3> DEFINE m == [mem EXCEPT !.restore.repair = TRUE]
    <3>1. Saved(m) \/ Failed(m)
      BY <2>2 DEF Authorize
    <3>2. m \in WorkerRecords /\ m.active = mem.active /\ m.owners = mem.owners /\ m.stops = mem.stops
      BY <1>0 DEF RecordInv, WorkerRecords
    <3> HIDE DEF m
    <3>3. GoodRecord(m)
      BY <1>0, <3>2, MemGood, SameAnswersGood
    <3> QED
      BY <1>0, <3>1, <3>3, WriteKeeps DEF Failed
  <2> QED
    BY <2>1, <2>2 DEF Prepare, Repair, Activate
<1>5. LockInv'
  BY <1>0, <1>1 DEF LockInv
<1>6. touched' \subseteq Ops \cup {Nobody}
  BY <1>0, <1>2 DEF Prepare, Authorize, Repair, Activate, BackendInv
<1>7. BackendInv'
  BY <1>0, <1>1, <1>3, <1>6 DEF BackendInv
<1>8. ReclaimInv'
  BY <1>1, <1>2 DEF Inv, ReclaimInv
<1> QED
  BY <1>4, <1>5, <1>7, <1>8 DEF Inv

\* The tasks that clean up.
LEMMA CleanupTaskStep ==
    ASSUME Inv, Clean \/ Drop
    PROVE  Inv' /\ KeepsAnswers
<1>0. RecordInv /\ LockInv /\ BackendInv
  BY DEF Inv
<1>1. UNCHANGED <<record, ctx, job, conn, failed, driver, touched>>
  BY DEF Clean, Drop
<1>2. /\ cand' \in Candidates /\ cand'.only = cand.only
      /\ cand'.only => cand'.res \in {"dirty", "rolled"} /\ cand'.task = "idle"
  <2>1. CASE Clean
    <3>1. PICK x \in {"rolled", "dirty"} : cand' = [[cand EXCEPT !.res = x] EXCEPT !.task = "idle"]
      BY <2>1 DEF Clean, TaskEnds
    <3> QED
      BY <1>0, <3>1 DEF BackendInv, Candidates, Tasks
  <2>2. CASE Drop
    <3>1. CASE /\ cand.res = "ready"
               /\ \E x \in {"none", "rolled"} :
                     cand' = [[cand EXCEPT !.disc = "ok", !.res = x] EXCEPT !.task = "idle"]
      BY <1>0, <3>1 DEF BackendInv, Candidates, Tasks
    <3>2. CASE \E d \in {"ok", "err"} : cand' = [[cand EXCEPT !.disc = d] EXCEPT !.task = "idle"]
      BY <1>0, <3>2 DEF BackendInv, Candidates, Tasks
    <3> QED
      BY <2>2, <3>1, <3>2 DEF Drop, TaskEnds
  <2> QED
    BY <2>1, <2>2
<1>3. BackendInv'
  BY <1>0, <1>1, <1>2 DEF BackendInv
<1>4. RecordInv' /\ KeepsAnswers
  BY <1>0, <1>1, NoWriteKeeps
<1>5. LockInv' /\ ReclaimInv'
  BY <1>0, <1>1, <1>2 DEF Inv, LockInv, ReclaimInv
<1> QED
  BY <1>3, <1>4, <1>5 DEF Inv

\* The continuation takes the lock or ends.
LEMMA ContinuationStep ==
    ASSUME Inv, NEW o \in Ops, Continuation(o)
    PROVE  Inv' /\ KeepsAnswers
<1>0. RecordInv /\ LockInv /\ BackendInv
  BY DEF Inv
<1>1. UNCHANGED <<record, ctx, backend, touched>>
  BY DEF Continuation
<1>2. driver' \in Drivers
  BY <1>0 DEF Continuation, LockInv, Drivers
<1>3. job' \in Jobs /\ job'.pc \notin {"reclaiming", "finish"}
  <2>1. CASE job' = job /\ job.pc = "idle"
    BY <1>0, <2>1 DEF LockInv
  <2>2. CASE job' = StopJob("driver", o)
    BY <2>2, StopJobTyped
  <2>3. CASE job' = [NoJob EXCEPT !.pc = "discard", !.who = "driver", !.op = o, !.direct = TRUE]
    BY <2>3 DEF NoJob, Jobs, Pcs
  <2>4. CASE job' = [Run(o) EXCEPT !.who = "driver"]
    BY <2>4, RunTyped DEF Jobs
  <2> QED
    BY <2>1, <2>2, <2>3, <2>4 DEF Continuation, Free
<1>4. Moved
  BY <1>0, <1>1, <1>2, <1>3, NoWriteKeeps DEF LockInv, Moved
<1> QED
  BY <1>0, <1>1, <1>4, StepKeeps, IdleBackend

\* A reread takes the record on disk, which knows every answer.
LEMMA RereadStep ==
    ASSUME Inv, Reread
    PROVE  Inv' /\ KeepsAnswers
<1>0. RecordInv /\ LockInv /\ BackendInv /\ ReclaimInv
  BY DEF Inv
<1>1. RecordInv' /\ KeepsAnswers
  BY <1>0 DEF Reread, RecordInv, Extends, KeepsAnswers
<1>2. LockInv' /\ BackendInv' /\ ReclaimInv'
  BY <1>0 DEF Reread, LockInv, BackendInv, ReclaimInv
<1> QED
  BY <1>1, <1>2 DEF Inv

\* What startup takes up.
LEMMA StartupTyped ==
    ASSUME NEW m \in WorkerRecords
    PROVE  Startup(m) \in Jobs /\ Startup(m).pc \in {"idle", "stop", "run"}
<1>1. StopJob("startup", Nobody) \in Jobs /\ StopJob("startup", Nobody).pc = "stop"
  BY StopJobTyped
<1>2. ASSUME NEW o \in Ops \cup {Nobody}, NEW b \in BOOLEAN
      PROVE  /\ [Run(o) EXCEPT !.who = "startup", !.reclaim = b] \in Jobs
             /\ [Run(o) EXCEPT !.who = "startup", !.reclaim = b].pc = "run"
             /\ [Run(o) EXCEPT !.who = "startup"] \in Jobs
             /\ [Run(o) EXCEPT !.who = "startup"].pc = "run"
  BY <1>2, RunTyped DEF Jobs
<1>3. m.restore.op \in Ops \cup {Nobody} /\ (~m.restore.commit) \in BOOLEAN /\ "auto" \in Ops
  BY DEF WorkerRecords, Ops
<1> QED
  BY <1>1, <1>2, <1>3, FreeJob DEF Startup

\* A restart takes any record that may have survived; each knows every answer.
LEMMA RestartStep ==
    ASSUME Inv, Restart
    PROVE  Inv' /\ KeepsAnswers
<1>0. RecordInv /\ LockInv /\ BackendInv
  BY DEF Inv
<1>1. PICK d \in {disk} \cup old :
        /\ mem' = d /\ disk' = d /\ old' = {} /\ flagged' = FALSE
        /\ ctx' = "none" /\ job' = Startup(d)
        /\ cand' = NoCand /\ conn' = NoConn /\ failed' = NoFailure
        /\ driver' = [o \in Ops |-> "none"]
        /\ UNCHANGED touched
  BY DEF Restart
<1>2. d \in WorkerRecords /\ Extends(d, mem) /\ ActiveOpen(d)
  BY <1>0 DEF RecordInv
<1>3. RecordInv' /\ KeepsAnswers
  BY <1>1, <1>2 DEF RecordInv, Extends, KeepsAnswers
<1>4. Moved
  BY <1>1, <1>2, <1>3, StartupTyped DEF Moved, LockInv, Contexts, Drivers
<1>5. BackendInv'
  BY <1>0, <1>1, NoCandTyped DEF BackendInv, NoConn, Executions, NoFailure, Failures
<1> QED
  BY <1>4, <1>5, StepKeeps

-----------------------------------------------------------------------------
\* Theorems.

\* A created Worker satisfies the invariant.
LEMMA InitInv == Init => Inv
<1> SUFFICES ASSUME Init PROVE Inv
  OBVIOUS
<1> DEFINE os == [r \in Restores |-> NoOwner]
           ss == [s \in Stops |-> NoStop]
<1>1. os \in [Restores -> [op : Ops \cup {Nobody}, started : BOOLEAN,
                           receipt : Receipts \cup {"none"}]]
  BY DEF NoOwner
<1>2. ss \in [Stops -> [op : StopOps \cup {Nobody}, done : BOOLEAN]]
  BY DEF NoStop
<1>3. mem = [status |-> "active", restore |-> NoRestore, stop |-> Nobody,
             active |-> Nobody, owners |-> os, stops |-> ss] /\ disk = mem /\ old = {} /\ ~flagged
  BY DEF Init
<1> HIDE DEF os, ss
<1>4. mem \in WorkerRecords /\ mem.active = Nobody
  BY <1>1, <1>2, <1>3, NothingTyped DEF WorkerRecords
<1>5. flagged \in BOOLEAN
  BY DEF Init
<1>6. RecordInv
  BY <1>3, <1>4, <1>5 DEF RecordInv, Extends, ActiveOpen
<1>7. LockInv /\ ReclaimInv
  BY FreeJob DEF Init, LockInv, ReclaimInv, Contexts, Drivers
<1>8. BackendInv
  BY NoCandTyped DEF Init, BackendInv, NoConn, Executions, NoFailure, Failures
<1> QED
  BY <1>6, <1>7, <1>8 DEF Inv

\* Every step preserves the invariant and keeps the answers.
LEMMA NextInv ==
    ASSUME Inv, [Next]_vars
    PROVE  Inv' /\ (Next => KeepsAnswers)
<1>1. CASE UNCHANGED vars
  <2>1. UNCHANGED record /\ UNCHANGED <<ctx, job, cand, conn, failed, driver, touched>>
    BY <1>1 DEF vars, record
  <2>2. RecordInv' /\ KeepsAnswers
    BY <2>1, NoWriteKeeps DEF Inv
  <2>3. LockInv' /\ BackendInv' /\ ReclaimInv'
    BY <2>1 DEF Inv, LockInv, BackendInv, ReclaimInv
  <2> QED
    BY <2>2, <2>3 DEF Inv
<1>2. CASE Next
  <2>1. ASSUME NEW r \in Restores, NEW c \in BOOLEAN, RestoreAgain(r, c) \/ RestoreAdmit(r, c)
        PROVE  Inv' /\ KeepsAnswers
    BY <2>1, RestoreRequestStep
  <2>2. ASSUME NEW s \in Stops \cup {Nobody}, NEW c \in BOOLEAN,
               StopAgain(s, c) \/ StopAdopt(s, c) \/ StopBegin(s, c)
        PROVE  Inv' /\ KeepsAnswers
    BY <2>2, StopRequestStep
  <2>3. ASSUME NEW s \in Stops \cup {Nobody}, StopNothing(s)
        PROVE  Inv' /\ KeepsAnswers
    BY <2>3, StopRequestStep
  <2>4. CASE Attempt \/ Preflight \/ KnownFailure \/ Publish \/ Delete \/ TimeOut
    BY <2>4, ChoiceStep
  <2>5. CASE BeginRestore \/ FinishRestore
    BY <2>5, BeginRestoreStep, FinishRestoreStep
  <2>6. CASE CallRestore \/ JoinRestore \/ Reclaim \/ Reclaimed
    BY <2>6, CallRestoreStep, JoinRestoreStep, ReclaimStep, ReclaimedStep
  <2>7. CASE Commit \/ Connect \/ Connecting
    BY <2>7, CommitStep, ConnectStep
  <2>8. CASE Discard \/ Discarding \/ Retract \/ Rollback
    BY <2>8, DiscardStep, DiscardingStep, RetractStep, RollbackStep
  <2>9. CASE StopCandidate \/ Close \/ CommitStopped \/ Erase
    BY <2>9, StopCandidateStep, CloseStep, CommitStoppedStep, EraseStep
  <2>10. CASE Prepare \/ Authorize \/ Repair \/ Activate
    BY <2>10, WorkTaskStep
  <2>11. CASE Clean \/ Drop
    BY <2>11, CleanupTaskStep
  <2>12. ASSUME NEW o \in Ops, Continuation(o) PROVE Inv' /\ KeepsAnswers
    BY <2>12, ContinuationStep
  <2>13. CASE Reread \/ Restart
    BY <2>13, RereadStep, RestartStep
  <2> QED
    BY <1>2, <2>1, <2>2, <2>3, <2>4, <2>5, <2>6, <2>7, <2>8, <2>9, <2>10, <2>11, <2>12, <2>13 DEF Next
<1> QED
  BY <1>1, <1>2

\* The inductive invariant: memory, disk and every record a power loss may bring
\* back agree on the answers given, and the request in work has none.
THEOREM LifecycleInvariant == Spec => []Inv
<1>1. Inv /\ [Next]_vars => Inv'
  BY NextInv
<1> QED
  BY <1>1, InitInv, PTL DEF Spec

\* The record, the lock's holder, the candidate and the execution keep their
\* types, and a failure that is remembered was a refusal or a rollback.
THEOREM LifecycleTyped == Spec => []TypeOK
<1>1. Inv => TypeOK
  BY DEF Inv, RecordInv, LockInv, BackendInv, Contexts, Drivers, TypeOK
<1> QED
  BY <1>1, LifecycleInvariant, PTL

\* The receipt of a Restore request and of a Stop intent is never taken back or
\* changed, by no later request, failed or uncertain write, crash or power loss:
\* the first half of AnswersStand.
THEOREM ReceiptsStand == Spec => [][KeepsAnswers]_vars
<1>1. Inv /\ [Next]_vars => [KeepsAnswers]_vars
  BY NextInv
<1> QED
  BY <1>1, LifecycleInvariant, PTL DEF Spec

-----------------------------------------------------------------------------
\* A pending stop fences the work of a restore.

\* The stages that lead to a preparation or an activation.
Fenced == {"preflight", "call", "join", "commit", "connect"}

\* None of them is reached under a stop, and a reread in the middle of them (the
\* repair authorizer's) brings no stop back.
FenceInv ==
    /\ job.pc \in Fenced => mem.stop = Nobody
    /\ flagged => disk.stop \in {mem.stop, Nobody}

\* What a step may not begin while a stop is pending.
Fences ==
    mem.stop # Nobody /\ cand'.task \in {"preparing", "repairing", "activating"} =>
        cand'.task = cand.task

\* A step outside the fenced stages that begins none of the three tasks.
LEMMA OutsideFence ==
    ASSUME FenceInv, NEW m, m.stop \in {mem.stop, Nobody},
           \/ UNCHANGED record \/ Saved(m) \/ Failed(m)
           \/ Renamed(m) /\ UNCHANGED <<mem, flagged>>,
           job'.pc \notin Fenced \/ job.pc \in Fenced \/ mem.stop = Nobody
    PROVE  FenceInv'
<1>1. mem'.stop \in {mem.stop, Nobody}
  BY DEF record, Saved, Failed, Torn, Lost, Renamed
<1>2. flagged' => disk'.stop \in {mem'.stop, Nobody}
  BY DEF FenceInv, record, Saved, Failed, Torn, Lost, Renamed
<1> QED
  BY <1>1, <1>2 DEF FenceInv

\* The tasks that a step leaves or ends.
Harmless == cand'.task \in {cand.task, "idle", "cleaning", "dropping", "discarding"}

\* They break no fence.
LEMMA HarmlessFences == ASSUME Harmless PROVE Fences
  BY DEF Harmless, Fences

\* The end of a job is outside the fence.
LEMMA EndOutside ==
    ASSUME EndRestore \/ EndPending \/ DiscardFails \/ StopFails PROVE job'.pc \notin Fenced
  BY FreeJob DEF EndPending, DiscardFails, StopFails, EndRestore, Fenced

\* So is what follows a failure.
LEMMA FailureOutside ==
    ASSUME Inv, NEW kind, NEW answered, AfterFailure(kind, answered)
    PROVE  job'.pc \notin Fenced /\ UNCHANGED record
<1>1. CASE EndPending
  BY <1>1, EndOutside DEF EndPending
<1>2. CASE /\ Goto(IF kind = "clean" THEN "reject" ELSE "rollback")
           /\ ctx' = "none" /\ UNCHANGED <<record, driver>>
  <2>1. (IF kind = "clean" THEN "reject" ELSE "rollback") \in Pcs \ Fenced
    BY DEF Pcs, Fenced
  <2> QED
    BY <1>2, <2>1, GotoTyped DEF Inv, LockInv
<1> QED
  BY <1>1, <1>2 DEF AfterFailure

\* Steps that write nothing.
LEMMA QuietFence ==
    ASSUME Inv, FenceInv,
           \/ TimeOut \/ Attempt \/ Preflight \/ KnownFailure \/ Publish \/ Delete
           \/ CallRestore \/ JoinRestore \/ Reclaim \/ Reclaimed \/ Connect \/ Connecting
           \/ Discard \/ Discarding \/ StopCandidate \/ Close
    PROVE  FenceInv' /\ Fences
<1>0. job \in Jobs /\ mem \in WorkerRecords
  BY DEF Inv, LockInv, RecordInv
<1>1. UNCHANGED record
  BY FailureOutside DEF TimeOut, Attempt, Preflight, KnownFailure, Publish, Delete, CallRestore,
        JoinRestore, Reclaim, Reclaimed, Connect, Connecting, Discard, Discarding, StopCandidate,
        Close, EndPending, DiscardFails, StopFails
<1>2. job'.pc \notin Fenced \/ job.pc \in Fenced \/ mem.stop = Nobody
  <2>1. ASSUME NEW pc \in Pcs \ Fenced, Goto(pc) PROVE job'.pc \notin Fenced
    BY <1>0, <2>1, GotoTyped
  <2>2. {"reclaiming", "discarding", "rollback", "retract", "close", "stopjoin", "dropping",
         "erase", "stopped", "connecting", "publish"} \subseteq Pcs \ Fenced
    BY DEF Pcs, Fenced
  <2>3. CASE TimeOut
    BY <2>3, EndOutside DEF TimeOut
  <2>4. CASE Attempt
    BY <2>4, EndOutside DEF Attempt
  <2>5. CASE Preflight \/ CallRestore \/ JoinRestore \/ Connect
    BY <2>5 DEF Preflight, CallRestore, JoinRestore, Connect, Fenced
  <2>6. CASE KnownFailure \/ Reclaimed
    BY <2>6, FailureOutside, EndOutside DEF KnownFailure, Reclaimed
  <2>7. CASE Publish
    <3>1. [job EXCEPT !.pc = "finish", !.receipt = "accepted"].pc \notin Fenced
      BY <1>0 DEF Jobs, Fenced
    <3> QED
      BY <2>7, <3>1, EndOutside DEF Publish
  <2>8. CASE Delete
    BY <2>8, StopJobTyped DEF Delete, Fenced
  <2>9. CASE Reclaim
    BY <2>1, <2>2, <2>9, EndOutside DEF Reclaim
  <2>10. CASE Connecting
    BY <2>1, <2>2, <2>10, EndOutside DEF Connecting
  <2>11. CASE Discard \/ Discarding
    BY <2>1, <2>2, <2>11, EndOutside DEF Discard, Discarding
  <2>12. CASE StopCandidate \/ Close
    BY <2>1, <2>2, <2>12, EndOutside DEF StopCandidate, Close
  <2> QED
    BY <2>3, <2>4, <2>5, <2>6, <2>7, <2>8, <2>9, <2>10, <2>11, <2>12
<1>3. FenceInv'
  BY <1>1, <1>2, OutsideFence
<1>4. Fences
  <2>0. cand \in Candidates
    BY DEF Inv, BackendInv
  <2>1. CASE CallRestore \/ JoinRestore \/ Connect
    BY <2>1 DEF CallRestore, JoinRestore, Connect, FenceInv, Fenced, Fences
  <2>2. CASE UNCHANGED cand
    BY <2>2 DEF Fences
  <2>3. NoCand.task = "idle"
    BY DEF NoCand
  <2>4. CASE Reclaim
    <3>1. \/ UNCHANGED cand
          \/ \E t \in {"cleaning", "idle"} : cand' = [cand EXCEPT !.task = t]
          \/ cand' = [NoCand EXCEPT !.op = job.op, !.only = TRUE, !.res = "dirty",
                                    !.task = "cleaning", !.eff = mem.restore.repair]
      BY <2>4 DEF Reclaim, backend
    <3>2. Harmless
      BY <2>0, <3>1 DEF Harmless, Candidates, NoCand
    <3> QED
      BY <3>2, HarmlessFences
  <2>5. CASE Reclaimed \/ Connecting
    BY <2>3, <2>5 DEF Reclaimed, Connecting, backend, Fences
  <2>6. CASE Discard \/ Discarding
    <3>1. \/ UNCHANGED cand \/ cand' = NoCand
          \/ cand' = [cand EXCEPT !.disc = "run", !.task = "discarding"]
          \/ cand' = [cand EXCEPT !.disc = "seen"]
      BY <2>6 DEF Discard, Discarding
    <3>2. Harmless
      BY <2>0, <2>3, <3>1 DEF Harmless, Candidates
    <3> QED
      BY <3>2, HarmlessFences
  <2>7. CASE StopCandidate
    <3>1. \/ UNCHANGED cand \/ cand' = NoCand
          \/ cand' = [cand EXCEPT !.task = "cleaning"]
          \/ cand' = [cand EXCEPT !.disc = "run", !.task = "dropping"]
          \/ cand' = [cand EXCEPT !.disc = "seen"]
      BY <2>7 DEF StopCandidate
    <3>2. Harmless
      BY <2>0, <2>3, <3>1 DEF Harmless, Candidates
    <3> QED
      BY <3>2, HarmlessFences
  <2> QED
    BY <2>1, <2>2, <2>4, <2>5, <2>6, <2>7 DEF TimeOut, Attempt, Preflight, KnownFailure, Publish,
          Delete, Close, backend
<1> QED
  BY <1>3, <1>4

\* Steps that write a record.
LEMMA WritingFence ==
    ASSUME Inv, FenceInv,
           BeginRestore \/ FinishRestore \/ Commit \/ Retract \/ Rollback \/ CommitStopped \/ Erase
    PROVE  FenceInv' /\ Fences
<1>0. RecordInv /\ mem \in WorkerRecords /\ job \in Jobs
  BY DEF Inv, LockInv, RecordInv
<1>1. Fences
  BY DEF BeginRestore, FinishRestore, Commit, Retract, Rollback, CommitStopped, Erase, backend, Fences
<1>2. CASE BeginRestore
  <2> DEFINE os == [r \in Restores |-> IF r = mem.active THEN [mem.owners[r] EXCEPT !.started = TRUE]
                                                         ELSE mem.owners[r]]
             m == [mem EXCEPT !.restore.op = job.op, !.owners = os]
  <2>1. (Saved(m) \/ Failed(m)) /\ job.pc \in Fenced
    BY <1>2 DEF BeginRestore, Fenced
  <2> HIDE DEF os
  <2>2. m.stop = mem.stop
    BY <1>0 DEF WorkerRecords
  <2> HIDE DEF m
  <2> QED
    BY <1>1, <2>1, <2>2, OutsideFence
<1>3. CASE FinishRestore
  <2>1. job.receipt \in Receipts
    BY <1>3 DEF FinishRestore, Inv, LockInv, Jobs, Receipts
  <2>2. Settle(mem, job.receipt).stop = mem.stop
    BY <1>0, <2>1, SettleGood
  <2>3. job'.pc \notin Fenced
    BY <1>3, EndOutside DEF FinishRestore
  <2>4. \/ UNCHANGED record
        \/ Saved(Settle(mem, job.receipt)) \/ Failed(Settle(mem, job.receipt))
    BY <1>3 DEF FinishRestore, Failed, Lost
  <2> QED
    BY <1>1, <2>2, <2>3, <2>4, OutsideFence
<1>4. CASE Commit
  <2> DEFINE m == [mem EXCEPT !.status = "active", !.restore.commit = TRUE]
  <2>1. m.stop = mem.stop
    BY <1>0 DEF WorkerRecords
  <2>2. (Saved(m) \/ Failed(m) \/ UNCHANGED record) /\ job.pc \in Fenced
    BY <1>4 DEF Commit, Failed, EndPending, Fenced
  <2> HIDE DEF m
  <2> QED
    BY <1>1, <2>1, <2>2, OutsideFence
<1>5. CASE Retract
  <2> DEFINE x == IF job.pc = "reject" THEN "rejected" ELSE "rolled_back"
  <2>1. Settle(mem, x).stop = mem.stop
    BY <1>0, SettleGood DEF Receipts
  <2>2. job'.pc \notin Fenced /\ (Saved(Settle(mem, x)) \/ Failed(Settle(mem, x)))
    BY <1>5, EndOutside DEF Retract, Failed
  <2> QED
    BY <1>1, <2>1, <2>2, OutsideFence
<1>6. CASE Rollback
  <2> DEFINE n == Settle(mem, "rolled_back")
             m == [n EXCEPT !.stop = Nobody, !.status = "stopped"]
  <2>1. GoodRecord(n)
    BY <1>0, SettleGood DEF Receipts
  <2>2. /\ job'.pc \notin Fenced
        /\ Saved(m) \/ Failed(m) \/ (Renamed(m) /\ UNCHANGED <<mem, flagged>>)
    BY <1>6, EndOutside DEF Rollback, Failed
  <2> HIDE DEF n
  <2>3. m.stop = Nobody
    BY <2>1 DEF GoodRecord, WorkerRecords
  <2> HIDE DEF m
  <2> QED
    BY <1>1, <2>2, <2>3, OutsideFence
<1>7. CASE CommitStopped
  <2> DEFINE n == Settle(mem, "superseded")
             ss == [s \in Stops |-> IF mem.stops[s].op = mem.stop
                                    THEN [mem.stops[s] EXCEPT !.done = TRUE] ELSE mem.stops[s]]
             m == [n EXCEPT !.stop = Nobody, !.status = "stopped", !.stops = ss]
  <2>1. GoodRecord(n)
    BY <1>0, SettleGood DEF Receipts
  <2>2. job'.pc \notin Fenced /\ (Saved(m) \/ Failed(m))
    BY <1>7, FreeJob DEF CommitStopped, StoppedRecord, Fenced
  <2> HIDE DEF n, ss
  <2>3. m.stop = Nobody
    BY <2>1 DEF GoodRecord, WorkerRecords
  <2> HIDE DEF m
  <2> QED
    BY <1>1, <2>2, <2>3, OutsideFence
<1>8. CASE Erase
  <2>1. job'.pc \notin Fenced
    BY <1>8, FreeJob DEF Erase, Fenced
  <2>2. CASE UNCHANGED record
    BY <1>1, <2>1, <2>2, OutsideFence
  <2>3. CASE flagged' = FALSE
    BY <1>1, <2>1, <2>3 DEF FenceInv
  <2> QED
    BY <1>8, <2>2, <2>3 DEF Erase
<1> QED
  BY <1>2, <1>3, <1>4, <1>5, <1>6, <1>7, <1>8

\* Requests and the continuation take a free lock.
LEMMA RequestFence ==
    ASSUME Inv, FenceInv,
           \/ \E r \in Restores, c \in BOOLEAN : RestoreAgain(r, c) \/ RestoreAdmit(r, c)
           \/ \E s \in Stops \cup {Nobody}, c \in BOOLEAN :
                  StopAgain(s, c) \/ StopAdopt(s, c) \/ StopBegin(s, c) \/ StopNothing(s)
           \/ \E o \in Ops : Continuation(o)
    PROVE  FenceInv' /\ Fences
<1>0. RecordInv /\ mem \in WorkerRecords /\ job \in Jobs
  BY DEF Inv, LockInv, RecordInv
<1>1. Fences
  BY DEF RestoreAgain, RestoreAdmit, StopAgain, StopAdopt, StopBegin, StopNothing, Continuation,
         backend, Fences
<1>2. CASE \E r \in Restores, c \in BOOLEAN : RestoreAgain(r, c) \/ RestoreAdmit(r, c)
  <2>1. PICK r \in Restores, c \in BOOLEAN : RestoreAgain(r, c) \/ RestoreAdmit(r, c)
    BY <1>2
  <2>2. CASE RestoreAgain(r, c)
    <3>1. mem.restore.op \in Ops \cup {Nobody}
      BY <1>0 DEF WorkerRecords
    <3>2. job'.pc \notin Fenced /\ UNCHANGED record
      BY <2>2, <3>1, RunTyped DEF RestoreAgain, Fenced
    <3> QED
      BY <1>1, <3>2, OutsideFence
  <2>3. CASE RestoreAdmit(r, c)
    <3> DEFINE o == IF Recovering THEN mem.restore.op ELSE r
               w == [op |-> o, started |-> Recovering, receipt |-> "none"]
               m == [mem EXCEPT !.restore.op = o, !.active = r, !.owners[r] = w]
    <3>1. Admitted(r) = m
      BY DEF Admitted
    <3>2. Saved(m) \/ Failed(m)
      BY <2>3, <3>1 DEF RestoreAdmit, Failed
    <3>3. Admitted(r).restore.op \in Ops
      BY <1>0, <2>3, AdmittedGood DEF RestoreAdmit
    <3>4. job' \in {job, NoJob, Run(Admitted(r).restore.op)} /\ job.pc = "idle"
      BY <2>3 DEF RestoreAdmit, Free
    <3>5. job'.pc \notin Fenced
      BY <3>3, <3>4, FreeJob, RunTyped DEF Fenced
    <3> HIDE DEF o, w
    <3>6. m.stop = mem.stop
      BY <1>0 DEF WorkerRecords
    <3> HIDE DEF m
    <3> QED
      BY <1>1, <3>2, <3>5, <3>6, OutsideFence
  <2> QED
    BY <2>1, <2>2, <2>3
<1>3. CASE \E s \in Stops \cup {Nobody}, c \in BOOLEAN :
               StopAgain(s, c) \/ StopAdopt(s, c) \/ StopBegin(s, c) \/ StopNothing(s)
  <2>1. PICK s \in Stops \cup {Nobody}, c \in BOOLEAN :
               StopAgain(s, c) \/ StopAdopt(s, c) \/ StopBegin(s, c) \/ StopNothing(s)
    BY <1>3
  <2>2. job'.pc \notin Fenced
    <3>1. (job' = job /\ job.pc = "idle") \/ AfterAdmission(c)
      BY <2>1 DEF StopAgain, StopAdopt, StopBegin, StopNothing, Free
    <3> QED
      BY <3>1, FreeJob, StopJobTyped DEF AfterAdmission, Fenced
  <2>4. CASE StopAgain(s, c)
    BY <1>1, <2>2, <2>4, OutsideFence DEF StopAgain
  <2>5. CASE StopAdopt(s, c)
    <3> DEFINE m == StopWith(mem, s, mem.stop, FALSE)
    <3>1. m.stop = mem.stop
      BY <1>0 DEF StopWith, WorkerRecords
    <3>2. Saved(m) \/ Failed(m)
      BY <2>5 DEF StopAdopt, Failed
    <3> HIDE DEF m
    <3> QED
      BY <1>1, <2>2, <3>1, <3>2, OutsideFence
  <2>6. CASE StopNothing(s)
    <3>1. /\ Finish(mem, "superseded") \in WorkerRecords
          /\ Finish(mem, "superseded").stop = mem.stop
      BY <1>0, FinishFields DEF Receipts
    <3> DEFINE n == Finish(mem, "superseded")
               m == StopWith(n, s, s, TRUE)
    <3>2. Saved(m) \/ Failed(m)
      BY <2>6 DEF StopNothing, Failed
    <3>3. m.stop = mem.stop
      <4> HIDE DEF n
      <4>1. m.stop = n.stop
        BY <3>1 DEF StopWith, WorkerRecords, n
      <4> QED
        BY <3>1, <4>1 DEF n
    <3> HIDE DEF m
    <3> QED
      BY <1>1, <2>2, <3>2, <3>3, OutsideFence
  <2>7. CASE StopBegin(s, c)
    <3> DEFINE o == IF s = Nobody THEN "anon" ELSE s
               m == StopWith([mem EXCEPT !.stop = o], s, o, FALSE)
    <3>1. Saved(m) \/ (Renamed(m) /\ mem' = m /\ flagged' = TRUE)
      BY <2>7 DEF StopBegin
    <3> HIDE DEF m
    <3>2. disk' = mem'
      BY <3>1 DEF Saved, Renamed
    <3> QED
      BY <1>1, <2>2, <3>2 DEF FenceInv
  <2> QED
    BY <2>1, <2>4, <2>5, <2>6, <2>7
<1>4. CASE \E o \in Ops : Continuation(o)
  <2>1. PICK o \in Ops : Continuation(o)
    BY <1>4
  <2>2. job'.pc \notin Fenced
    <3>1. CASE job' = job /\ job.pc = "idle"
      BY <3>1 DEF Fenced
    <3>2. CASE job' = StopJob("driver", o)
      BY <3>2, StopJobTyped DEF Fenced
    <3>3. CASE job' = [NoJob EXCEPT !.pc = "discard", !.who = "driver", !.op = o, !.direct = TRUE]
      BY <3>3 DEF NoJob, Fenced
    <3>4. CASE job' = [Run(o) EXCEPT !.who = "driver"]
      BY <3>4, RunTyped DEF Jobs, Fenced
    <3> QED
      BY <2>1, <3>1, <3>2, <3>3, <3>4 DEF Continuation, Free
  <2>3. UNCHANGED record
    BY <2>1 DEF Continuation
  <2> QED
    BY <1>1, <2>2, <2>3, OutsideFence
<1> QED
  BY <1>2, <1>3, <1>4

\* The tasks run beside the lock; the repair asks for a grant, which a stop denies.
LEMMA TaskFence ==
    ASSUME Inv, FenceInv, Prepare \/ Authorize \/ Repair \/ Clean \/ Drop \/ Activate
    PROVE  FenceInv' /\ Fences
<1>0. mem \in WorkerRecords /\ cand \in Candidates
  BY DEF Inv, RecordInv, BackendInv
<1>1. UNCHANGED job
  BY DEF Prepare, Authorize, Repair, Clean, Drop, Activate
<1>2. CASE Authorize
  <2> DEFINE m == [mem EXCEPT !.restore.repair = TRUE]
  <2>1. /\ UNCHANGED record \/ Saved(m) \/ Failed(m)
        /\ mem.stop = Nobody \/ Refuse
    BY <1>2 DEF Authorize, Granted
  <2>2. m.stop = mem.stop
    BY <1>0 DEF WorkerRecords
  <2> HIDE DEF m
  <2>3. FenceInv'
    BY <1>1, <2>1, <2>2, OutsideFence
  <2>4. Refuse => cand'.task = "idle"
    BY <1>0 DEF Refuse, TaskEnds, Candidates
  <2> QED
    BY <2>1, <2>3, <2>4 DEF Fences
<1>3. CASE Prepare \/ Repair \/ Clean \/ Drop \/ Activate
  <2>1. UNCHANGED record
    BY <1>3 DEF Prepare, Repair, Clean, Drop, Activate
  <2>2. cand'.task = "idle"
    BY <1>0, <1>3 DEF Prepare, Repair, Clean, Drop, Activate, TaskEnds, Candidates
  <2> QED
    BY <1>1, <2>1, <2>2, OutsideFence DEF Fences
<1> QED
  BY <1>2, <1>3

\* A reread brings back no stop that memory did not know, and a restart starts
\* with whatever record it finds.
LEMMA RecoveryFence ==
    ASSUME Inv, FenceInv, Reread \/ Restart
    PROVE  FenceInv' /\ Fences
<1>1. CASE Reread
  BY <1>1 DEF Reread, FenceInv, Fences
<1>2. CASE Restart
  <2>1. PICK d \in {disk} \cup old :
          /\ mem' = d /\ flagged' = FALSE /\ job' = Startup(d) /\ cand' = NoCand
    BY <1>2 DEF Restart
  <2>2. d \in WorkerRecords
    BY DEF Inv, RecordInv
  <2>3. job'.pc \notin Fenced /\ cand'.task = "idle"
    BY <2>1, <2>2, StartupTyped DEF Fenced, NoCand
  <2> QED
    BY <2>1, <2>3 DEF FenceInv, Fences
<1> QED
  BY <1>1, <1>2

\* While a stop is pending, neither a request nor the continuation nor the task
\* that asks for its repair outside the lock begins to prepare, repair or
\* activate the restore it supersedes (restore_repair_authorizer,
\* continue_restore_operation).
THEOREM StopAlwaysFences == Spec => StopFencesWork
<1>1. Init => FenceInv
  BY FreeJob DEF Init, FenceInv, Fenced
<1>2. Inv /\ FenceInv /\ [Next]_vars => FenceInv' /\ [Fences]_vars
  <2> SUFFICES ASSUME Inv, FenceInv, [Next]_vars PROVE FenceInv' /\ [Fences]_vars
    OBVIOUS
  <2>1. CASE UNCHANGED vars
    BY <2>1 DEF vars, FenceInv
  <2>2. CASE Next
    BY <2>2, QuietFence, WritingFence, RequestFence, TaskFence, RecoveryFence DEF Next
  <2> QED
    BY <2>1, <2>2
<1>3. [Fences]_vars <=> [mem.stop # Nobody /\ cand'.task \in {"preparing", "repairing", "activating"} =>
                             cand'.task = cand.task]_vars
  BY DEF Fences
<1> QED
  BY <1>1, <1>2, <1>3, LifecycleInvariant, PTL DEF Spec, StopFencesWork
-----------------------------------------------------------------------------
\* What the record says about the backend, and the backend about the record.

\* Every record that memory holds or a reread or a restart may bring back.
Records == {mem, disk} \cup old

\* A candidate that may still be prepared, committed or activated.
Live(c) == c.op # Nobody /\ ~c.only

\* Operations that have changed canonical state or may do so at any moment.
Marked(c, t) == t \cup (IF c.task \in {"repairing", "activating"} THEN {c.op} ELSE {})

\* The operation of the record has begun.
Started(m) == PendingRestore(m) /\ (m.active = Nobody \/ m.owners[m.active].started)

\* A record's own order: the active request and the pending operation belong
\* together, a pending operation of a request is known to it, and a committed
\* one is pending and has made the Worker active.
Sound(d) ==
    /\ d.active # Nobody => PendingRestore(d) /\ d.owners[d.active].op = d.restore.op
    /\ d.restore.op \in Restores => d.owners[d.restore.op].op # Nobody
    /\ d.restore.commit => PendingRestore(d) /\ d.status = "active"

\* The record beside candidate c, execution n and the touched operations t: a
\* live candidate belongs to the begun operation, an activation to a committed
\* one, an execution to an active Worker, and an operation that is or may be
\* touched may not be rolled back.
Fits(d, c, n, t) ==
    /\ Live(c) => d.restore.op = c.op /\ Started(d)
    /\ c.started => d.restore.commit
    /\ n.on => d.status = "active"
    /\ PendingRestore(d) /\ d.restore.op \in Marked(c, t) => ~RollbackAllowed(d)

RecordsFit == \A d \in Records : Sound(d) /\ Fits(d, cand, conn, touched)

\* A record that gives an answer memory does not know yet denies only operations
\* that are untouched, and no record forgets a request or an operation that was
\* touched.
Denies(d, r) == mem.owners[r].receipt = "none" /\ d.owners[r].receipt \in {"rejected", "rolled_back"}

HistoryFits ==
    /\ \A d \in {disk} \cup old, r \in Restores :
           /\ Denies(d, r) => d.owners[r].op \notin Marked(cand, touched)
           /\ mem.owners[r].op # Nobody => d.owners[r].op # Nobody
    /\ \A r \in Restores \cap touched : mem.owners[r].op # Nobody

\* Without a pending reread memory is what the disk holds, unless the rollback of
\* the operation that has failed was written with an unknown outcome.
Steady(f) ==
    ~flagged /\ ~(disk = mem /\ old = {}) => f.op = mem.restore.op /\ f.op # Nobody

\* A candidate's own order, and that it excludes an execution and a failure.
CandidateFits(c, n, f) ==
    /\ c.op = Nobody => c = NoCand
    /\ c.task \in {"preparing", "repairing", "discarding", "activating"} => Live(c)
    /\ c.task = "activating" \/ c.res = "active" => c.started
    /\ c.started => Live(c)
    /\ n.on => c.op = Nobody /\ f.op = Nobody
    /\ f.op # Nobody => ~Live(c)

\* Stages that work on the pending operation, and stages without a live candidate.
Working == {"call", "join", "reclaim", "reclaiming", "commit", "discard", "discarding",
            "rollback"}
Early == {"run", "preflight"}
Quiet == {"preflight", "finish", "publish", "retract", "reject", "rollback", "close",
          "stopped", "erase"}

\* What the holder of the lock may rely on in each stage.
JobFits ==
    /\ job.pc \in Working => job.op # Nobody /\ mem.restore.op = job.op
    /\ job.pc \in Early => IF PendingRestore(mem) THEN mem.restore.op = job.op
                                                  ELSE job.op = "auto"
    /\ job.pc = "call" => Started(mem)
    /\ job.pc \in Quiet => ~Live(cand)
    /\ job.pc \in Early \cup {"call"} /\ flagged => Live(cand)
    /\ job.pc \in {"commit", "connect"} => cand.task # "preparing"
    /\ job.pc = "connect" => mem.restore.commit /\ ~flagged
    /\ job.pc = "rollback" => failed.op = job.op
    /\ job.pc \in {"stopped", "erase"} => ~conn.on
    /\ job.pc \in {"stopjoin", "dropping"} => cand.op # Nobody
    /\ job.pc = "erase" => job.who = "delete"
    /\ job.who = "delete" => /\ job.pc \in {"stop", "stopjoin", "dropping", "close", "erase"}
                             /\ ~PendingRestore(mem)

Fitting ==
    /\ RecordsFit /\ HistoryFits /\ Steady(failed)
    /\ CandidateFits(cand, conn, failed)

Agreement == Fitting /\ JobFits

-----------------------------------------------------------------------------
\* Writes and the agreement.

\* A record that a step may write beside the touched operations t.
Proper(m, t) ==
    /\ Sound(m) /\ Fits(m, cand, conn, t)
    /\ \A r \in Restores :
           /\ Denies(m, r) => m.owners[r].op \notin Marked(cand, touched)
           /\ mem.owners[r].op # Nobody => m.owners[r].op # Nobody

\* Fewer touched operations restrict a record less.
LEMMA FewerFit ==
    ASSUME NEW d, NEW c, NEW n, NEW t, NEW u \in SUBSET t, Fits(d, c, n, t)
    PROVE  Fits(d, c, n, u) /\ Marked(c, u) \subseteq Marked(c, t)
  BY DEF Fits, Marked

\* What memory says may be written again.
LEMMA MemProper ==
    ASSUME Fitting, NEW t \in SUBSET touched PROVE Proper(mem, t)
<1>1. Sound(mem) /\ Fits(mem, cand, conn, touched)
  BY DEF Fitting, RecordsFit, Records
<1>2. Fits(mem, cand, conn, t)
  BY <1>1, FewerFit
<1>3. \A r \in Restores : ~Denies(mem, r)
  BY DEF Denies
<1> QED
  BY <1>1, <1>2, <1>3 DEF Proper

\* A record with the same restore, the same requests and the same status may.
LEMMA LikeMemProper ==
    ASSUME Fitting, NEW t \in SUBSET touched, NEW m,
           m.restore = mem.restore, m.owners = mem.owners, m.active = mem.active,
           m.status = mem.status
    PROVE  Proper(m, t)
<1>1. Proper(mem, t)
  BY MemProper
<1>2. /\ PendingRestore(m) = PendingRestore(mem) /\ Started(m) = Started(mem)
      /\ RollbackAllowed(m) = RollbackAllowed(mem)
      /\ \A r \in Restores : Denies(m, r) = Denies(mem, r)
  BY DEF PendingRestore, Started, RollbackAllowed, Denies
<1>3. Sound(m) /\ Fits(m, cand, conn, t)
  BY <1>1, <1>2 DEF Proper, Sound, Fits
<1> QED
  BY <1>1, <1>2, <1>3 DEF Proper

\* The records after a write.
LEMMA WrittenRecords ==
    ASSUME NEW m, Saved(m) \/ Failed(m) \/ (Renamed(m) /\ mem' \in {mem, m})
    PROVE  \A d \in Records' : d \in Records \cup {m}
<1>1. CASE Saved(m)
  BY <1>1 DEF Saved, Records
<1>2. CASE Lost
  BY <1>2 DEF Lost, record, Records
<1>3. CASE Renamed(m) /\ mem' \in {mem, m}
  BY <1>3 DEF Renamed, Records
<1> QED
  BY <1>1, <1>2, <1>3 DEF Failed, Torn

\* A write of a proper record keeps the records in order, in every outcome.
LEMMA WriteRecords ==
    ASSUME RecordsFit, UNCHANGED <<cand, conn>>, touched' \in SUBSET touched,
           NEW m, Proper(m, touched'),
           Saved(m) \/ Failed(m) \/ (Renamed(m) /\ mem' \in {mem, m})
    PROVE  RecordsFit'
<1>1. ASSUME NEW d \in Records' PROVE Sound(d) /\ Fits(d, cand', conn', touched')
  <2>1. d \in Records \cup {m}
    BY <1>1, WrittenRecords
  <2>2. CASE d \in Records
    BY <2>2, FewerFit DEF RecordsFit
  <2>3. CASE d = m
    BY <2>3 DEF Proper
  <2> QED
    BY <2>1, <2>2, <2>3
<1> QED
  BY <1>1 DEF RecordsFit

\* So it does with what the records say about the past.
LEMMA WriteHistory ==
    ASSUME HistoryFits, UNCHANGED cand, touched' \in SUBSET touched,
           NEW m, Proper(m, touched'),
           \/ Saved(m) \/ Failed(m)
           \/ Renamed(m) /\ mem' = mem
           \/ Renamed(m) /\ mem' = m /\ m.owners = mem.owners
    PROVE  HistoryFits' /\ RollsBackTruly
<1>1. Marked(cand', touched') \subseteq Marked(cand, touched) /\ touched \subseteq Marked(cand, touched)
  BY DEF Marked
<1>2. CASE Saved(m)
  <2>1. /\ mem' = m /\ \A d \in ({disk} \cup old)' : d = m
    BY <1>2 DEF Saved
  <2>2. \A d \in ({disk} \cup old)', r \in Restores :
            /\ ~Denies(d, r)'
            /\ mem'.owners[r].op # Nobody => d.owners[r].op # Nobody
    BY <2>1 DEF Denies
  <2>3. \A r \in Restores \cap touched' : mem'.owners[r].op # Nobody
    BY <2>1 DEF HistoryFits, Proper
  <2>4. RollsBackTruly
    BY <1>1, <2>1 DEF RollsBackTruly, Proper, Denies
  <2> QED
    BY <2>2, <2>3, <2>4 DEF HistoryFits
<1>3. CASE ~Saved(m)
  <2>1. mem'.owners = mem.owners
    BY <1>3 DEF Failed, Torn, Lost, record
  <2>2. \A d \in ({disk} \cup old)' : d \in {disk, m} \cup old
    BY <1>3 DEF Failed, Torn, Lost, record, Renamed
  <2>3. \A d, r : Denies(d, r)' = Denies(d, r)
    BY <2>1 DEF Denies
  <2>4. \A d \in ({disk} \cup old)', r \in Restores :
            /\ Denies(d, r)' => d.owners[r].op \notin Marked(cand', touched')
            /\ mem'.owners[r].op # Nobody => d.owners[r].op # Nobody
    BY <1>1, <2>1, <2>2, <2>3 DEF HistoryFits, Proper
  <2>5. \A r \in Restores \cap touched' : mem'.owners[r].op # Nobody
    BY <2>1 DEF HistoryFits
  <2>6. RollsBackTruly
    BY <2>1 DEF RollsBackTruly
  <2> QED
    BY <2>4, <2>5, <2>6 DEF HistoryFits
<1> QED
  BY <1>2, <1>3

\* The outcomes of a write that leave the backend alone.
LEMMA WriteFits ==
    ASSUME Fitting, UNCHANGED backend, touched' \in SUBSET touched,
           NEW m, Proper(m, touched'),
           \/ Saved(m) \/ Failed(m)
           \/ Renamed(m) /\ mem' = m /\ flagged' = TRUE /\ m.owners = mem.owners
    PROVE  Fitting' /\ RollsBackTruly
<1>0. RecordsFit /\ HistoryFits /\ UNCHANGED <<cand, conn>> /\ UNCHANGED cand
  BY DEF Fitting, backend
<1>1. RecordsFit' /\ HistoryFits' /\ RollsBackTruly
  BY <1>0, WriteRecords, WriteHistory
<1>2. CandidateFits(cand, conn, failed)'
  BY DEF Fitting, CandidateFits, backend
<1>3. Steady(failed)'
  <2>1. CASE Lost
    BY <2>1 DEF Fitting, Steady, backend, Lost, record
  <2>2. CASE Saved(m)
    BY <2>2 DEF Steady, Saved
  <2>3. CASE flagged' = TRUE
    BY <2>3 DEF Steady
  <2> QED
    BY <2>1, <2>2, <2>3 DEF Failed, Torn
<1> QED
  BY <1>1, <1>2, <1>3 DEF Fitting

\* A step that writes nothing and leaves the backend alone.
LEMMA StillFits ==
    ASSUME Fitting, UNCHANGED <<record, backend, touched>>
    PROVE  Fitting' /\ RollsBackTruly
  BY MemProper, WriteFits DEF Failed, Lost

-----------------------------------------------------------------------------
\* The stages of a job.

\* A free lock promises nothing.
LEMMA RestFits == ASSUME job' = NoJob PROVE JobFits'
  BY DEF JobFits, NoJob, Working, Early, Quiet

\* The ways a job ends.
LEMMA EndFits ==
    ASSUME EndRestore \/ EndPending \/ DiscardFails \/ StopFails PROVE JobFits'
  BY RestFits DEF EndRestore, EndPending, DiscardFails, StopFails

\* A stop begins with nothing to rely on, a deletion with a settled record.
LEMMA StopJobFits ==
    ASSUME NEW who \in {"caller", "driver", "startup", "delete"}, NEW o, job' = StopJob(who, o),
           who = "delete" => ~PendingRestore(mem')
    PROVE  JobFits'
  BY DEF JobFits, StopJob, NoJob, Working, Early, Quiet

\* An attempt begins with the pending operation, or with the restore at startup.
LEMMA RunFits ==
    ASSUME NEW o, job'.pc = "run", job'.op = o, job'.who # "delete", ~flagged',
           IF PendingRestore(mem') THEN mem'.restore.op = o ELSE o = "auto"
    PROVE  JobFits'
  BY DEF JobFits, Working, Early, Quiet

\* The holder goes on to a stage.
LEMMA GotoFields ==
    ASSUME job \in Jobs, NEW pc \in Pcs, Goto(pc)
    PROVE  job'.pc = pc /\ job'.op = job.op /\ job'.who = job.who
  BY DEF Goto, Jobs

\* After a failure without a live candidate.
LEMMA FailureFits ==
    ASSUME Inv, JobFits, job.pc \in Working, UNCHANGED conn, ~Live(cand'), failed'.op = job.op,
           NEW kind, NEW answered, AfterFailure(kind, answered)
    PROVE  JobFits' /\ UNCHANGED record
<1>1. CASE EndPending
  BY <1>1, EndFits DEF EndPending
<1>2. CASE /\ Goto(IF kind = "clean" THEN "reject" ELSE "rollback")
           /\ ctx' = "none" /\ UNCHANGED <<record, driver>>
  <2>1. job'.pc \in {"reject", "rollback"} /\ job'.op = job.op /\ job'.who = job.who
    BY <1>2, GotoFields DEF Inv, LockInv, Pcs
  <2>2. mem' = mem /\ flagged' = flagged
    BY <1>2 DEF record
  <2>3. job.who # "delete"
    BY DEF JobFits, Working
  <2> QED
    BY <1>2, <2>1, <2>2, <2>3 DEF JobFits, Working, Early, Quiet
<1> QED
  BY <1>1, <1>2 DEF AfterFailure

-----------------------------------------------------------------------------
\* The records that the steps write.

\* A finished record changes the answer of the active request only.
LEMMA FinishOwners ==
    ASSUME mem \in WorkerRecords, NEW x \in Receipts, NEW r \in Restores
    PROVE  /\ Finish(mem, x).owners[r].op = mem.owners[r].op
           /\ \/ Finish(mem, x).owners[r].receipt = mem.owners[r].receipt
              \/ r = mem.active /\ Finish(mem, x).owners[r].receipt = x
<1>1. CASE r # mem.active
  BY <1>1, FinishFields
<1>2. CASE r = mem.active
  <2>1. Finish(mem, x).owners[r] = [mem.owners[r] EXCEPT !.receipt = x]
    BY <1>2 DEF Finish, WorkerRecords
  <2> QED
    BY <1>2, <2>1 DEF WorkerRecords
<1> QED
  BY <1>1, <1>2

\* A denial for the pending operation is true while its rollback is allowed.
LEMMA DenialTrue ==
    ASSUME Inv, Fitting, NEW x \in Receipts, NEW m, m.owners = Finish(mem, x).owners,
           x \in {"rejected", "rolled_back"} => RollbackAllowed(mem), NEW r \in Restores
    PROVE  /\ Denies(m, r) => m.owners[r].op \notin Marked(cand, touched)
           /\ mem.owners[r].op # Nobody => m.owners[r].op # Nobody
<1>1. /\ m.owners[r].op = mem.owners[r].op
      /\ \/ m.owners[r].receipt = mem.owners[r].receipt
         \/ r = mem.active /\ m.owners[r].receipt = x
  BY FinishOwners DEF Inv, RecordInv
<1>2. CASE Denies(m, r)
  <2>1. r = mem.active /\ RollbackAllowed(mem)
    BY <1>1, <1>2 DEF Denies
  <2>2. mem.active # Nobody
    BY <2>1, NamesAssumption
  <2>3. PendingRestore(mem) /\ mem.owners[r].op = mem.restore.op
    BY <2>1, <2>2 DEF Fitting, RecordsFit, Records, Sound
  <2>4. mem.restore.op \notin Marked(cand, touched)
    BY <2>1, <2>3 DEF Fitting, RecordsFit, Records, Fits
  <2> QED
    BY <1>1, <2>3, <2>4
<1> QED
  BY <1>1, <1>2

\* A settled record may be written when no candidate is live and, unless it
\* leaves the Worker active, no execution is registered.
LEMMA SettledProper ==
    ASSUME Inv, Fitting, NEW x \in Receipts, ~Live(cand),
           x \in {"rejected", "rolled_back"} => RollbackAllowed(mem),
           NEW m, ~PendingRestore(m), ~m.restore.commit, m.active = Nobody,
           m.owners = Finish(mem, x).owners, conn.on => m.status = "active"
    PROVE  Proper(m, touched)
<1>1. Sound(m)
  BY NamesAssumption DEF Sound, PendingRestore
<1>2. ~cand.started
  BY DEF Fitting, CandidateFits
<1>3. Fits(m, cand, conn, touched)
  BY <1>2 DEF Fits
<1> QED
  BY <1>1, <1>3, DenialTrue DEF Proper

\* The fields of a settled record.
LEMMA SettleFields ==
    ASSUME mem \in WorkerRecords, NEW x \in Receipts
    PROVE  /\ Settle(mem, x) \in WorkerRecords
           /\ ~PendingRestore(Settle(mem, x)) /\ ~Settle(mem, x).restore.commit
           /\ Settle(mem, x).active = Nobody
           /\ Settle(mem, x).owners = Finish(mem, x).owners
           /\ Settle(mem, x).status = mem.status /\ Settle(mem, x).stop = mem.stop
           /\ Settle(mem, x).stops = mem.stops
<1> DEFINE f == Finish(mem, x)
           m == [f EXCEPT !.restore = NoRestore]
<1>1. f \in WorkerRecords /\ f.active = Nobody /\ f.status = mem.status /\ f.stop = mem.stop
      /\ f.stops = mem.stops
  BY FinishFields
<1>2. Settle(mem, x) = m
  BY DEF Settle
<1> HIDE DEF f
<1>3. /\ m \in WorkerRecords /\ m.restore = NoRestore /\ m.active = f.active
      /\ m.owners = f.owners /\ m.status = f.status /\ m.stop = f.stop /\ m.stops = f.stops
  BY <1>1, NothingTyped DEF WorkerRecords
<1> HIDE DEF m
<1>4. /\ Settle(mem, x) \in WorkerRecords
      /\ ~PendingRestore(Settle(mem, x)) /\ ~Settle(mem, x).restore.commit
      /\ Settle(mem, x).active = Nobody
      /\ Settle(mem, x).owners = f.owners
      /\ Settle(mem, x).status = mem.status /\ Settle(mem, x).stop = mem.stop
      /\ Settle(mem, x).stops = mem.stops
  BY <1>1, <1>2, <1>3 DEF PendingRestore, NoRestore
<1> QED
  BY <1>4 DEF f

\* Settling keeps the status, and an execution keeps the Worker active.
LEMMA SettleProper ==
    ASSUME Inv, Fitting, NEW x \in Receipts, ~Live(cand),
           x \in {"rejected", "rolled_back"} => RollbackAllowed(mem)
    PROVE  Proper(Settle(mem, x), touched)
<1>1. mem \in WorkerRecords
  BY DEF Inv, RecordInv
<1>2. conn.on => mem.status = "active"
  BY DEF Fitting, RecordsFit, Records, Fits
<1> QED
  BY <1>1, <1>2, SettleFields, SettledProper

\* Admission: a new operation is not a touched one, and a recovered one stays.
LEMMA AdmittedProper ==
    ASSUME Inv, Fitting, NEW r \in Restores, mem.owners[r] = NoOwner, mem.active = Nobody,
           Settled(mem) \/ Recovering
    PROVE  Proper(Admitted(r), touched) /\ PendingRestore(Admitted(r))
<1> DEFINE o == IF Recovering THEN mem.restore.op ELSE r
           w == [op |-> o, started |-> Recovering, receipt |-> "none"]
           m == [mem EXCEPT !.restore.op = o, !.active = r, !.owners[r] = w]
<1>0. mem \in WorkerRecords /\ Sound(mem) /\ Fits(mem, cand, conn, touched)
  BY DEF Inv, RecordInv, Fitting, RecordsFit, Records
<1>1. Admitted(r) = m
  BY DEF Admitted
<1>2. o \in Ops /\ o # Nobody /\ r # Nobody
  BY <1>0, NamesAssumption DEF Recovering, PendingRestore, WorkerRecords, Ops
<1>3. w.op = o /\ w.receipt = "none" /\ w.started = Recovering
  OBVIOUS
<1>4. ~Recovering => ~PendingRestore(mem) /\ o = r
  BY DEF Settled
<1>5. Recovering => PendingRestore(mem) /\ o = mem.restore.op
  BY DEF Recovering
<1>6. ~Recovering => ~Live(cand) /\ o \notin Marked(cand, touched)
  <2> SUFFICES ASSUME ~Recovering PROVE ~Live(cand) /\ o \notin Marked(cand, touched)
    OBVIOUS
  <2>1. ~Live(cand)
    BY <1>0, <1>4 DEF Fits, Started
  <2>2. Marked(cand, touched) = touched
    BY <2>1 DEF Marked, Fitting, CandidateFits
  <2>3. r \notin touched
    BY DEF Fitting, HistoryFits, NoOwner
  <2> QED
    BY <1>4, <2>1, <2>2, <2>3
<1> HIDE DEF o, w
<1>7. /\ m.restore.op = o /\ m.restore.commit = mem.restore.commit
      /\ m.restore.repair = mem.restore.repair /\ m.active = r /\ m.status = mem.status
      /\ m.owners[r] = w /\ \A q \in Restores : q # r => m.owners[q] = mem.owners[q]
  BY <1>0 DEF WorkerRecords
<1> HIDE DEF m
<1>8. PendingRestore(m) /\ (RollbackAllowed(m) <=> RollbackAllowed(mem))
  BY <1>2, <1>7 DEF PendingRestore, RollbackAllowed
<1>9. Sound(m)
  <2>1. m.owners[m.active].op = m.restore.op
    BY <1>3, <1>7
  <2>2. m.restore.op \in Restores => m.owners[m.restore.op].op # Nobody
    BY <1>0, <1>2, <1>3, <1>4, <1>5, <1>7 DEF Sound
  <2>3. m.restore.commit => m.status = "active"
    BY <1>0, <1>7 DEF Sound
  <2> QED
    BY <1>8, <2>1, <2>2, <2>3 DEF Sound
<1>10. Fits(m, cand, conn, touched)
  <2>1. Live(cand) => m.restore.op = cand.op /\ Started(m)
    BY <1>0, <1>3, <1>5, <1>6, <1>7, <1>8 DEF Fits, Started
  <2>2. cand.started => m.restore.commit
    BY <1>0, <1>7 DEF Fits
  <2>3. m.restore.op \in Marked(cand, touched) => ~RollbackAllowed(m)
    BY <1>0, <1>5, <1>6, <1>7, <1>8 DEF Fits
  <2> QED
    BY <1>0, <1>7, <2>1, <2>2, <2>3 DEF Fits
<1>11. \A q \in Restores : ~Denies(m, q) /\ (mem.owners[q].op # Nobody => m.owners[q].op # Nobody)
  BY <1>2, <1>3, <1>7 DEF Denies
<1> QED
  BY <1>1, <1>8, <1>9, <1>10, <1>11 DEF Proper

-----------------------------------------------------------------------------
\* Steps that leave the backend alone.

\* What every step does: it keeps the agreement and denies truly.
Truthful == Agreement' /\ RollsBackTruly

\* Steps that write nothing.
LEMMA ChoiceAgrees ==
    ASSUME Inv, Agreement,
           TimeOut \/ Attempt \/ Preflight \/ KnownFailure \/ Publish \/ Delete
    PROVE  Truthful
<1>0. Fitting /\ JobFits /\ job \in Jobs
  BY DEF Agreement, Inv, LockInv
<1>1. CASE TimeOut
  <2>1. UNCHANGED <<record, backend, touched>> /\ (EndRestore \/ EndPending \/ StopFails)
    BY <1>1 DEF TimeOut, EndPending, StopFails
  <2> QED
    BY <1>0, <2>1, StillFits, EndFits DEF Truthful, Agreement
<1>2. CASE Attempt
  <2>0. UNCHANGED <<record, backend, touched>> /\ job.pc = "run"
    BY <1>2 DEF Attempt
  <2>1. CASE EndRestore
    BY <1>0, <2>0, <2>1, StillFits, EndFits DEF Truthful, Agreement
  <2>2. CASE ~EndRestore
    <3>1. job' = [job EXCEPT
             !.pc = IF Reclaims THEN "reclaim" ELSE IF Begun THEN "call" ELSE "preflight",
             !.again = Begun \/ Reclaims]
      BY <1>2, <2>2 DEF Attempt
    <3>2. /\ job'.pc = IF Reclaims THEN "reclaim" ELSE IF Begun THEN "call" ELSE "preflight"
          /\ job'.op = job.op /\ job'.who = job.who
      BY <1>0, <3>1 DEF Jobs
    <3>3. (Begun <=> Started(mem)) /\ (Reclaims => PendingRestore(mem))
      BY DEF Begun, Started, Reclaims
    <3>4. ~Started(mem) => ~Live(cand)
      BY <1>0 DEF Fitting, RecordsFit, Records, Fits
    <3>5. UNCHANGED <<mem, flagged, cand, conn>>
      BY <2>0 DEF record, backend
    <3>6. job'.pc \in {"reclaim", "call"} => PendingRestore(mem)
      BY <3>2, <3>3 DEF Started
    <3>7. JobFits'
      BY <1>0, <2>0, <3>2, <3>3, <3>4, <3>5, <3>6
         DEF JobFits, Working, Early, Quiet, PendingRestore, Started
    <3> QED
      BY <1>0, <2>0, <3>7, StillFits DEF Truthful, Agreement
  <2> QED
    BY <2>1, <2>2
<1>3. CASE Preflight
  <2>0. UNCHANGED <<record, backend, touched>> /\ job.pc = "preflight"
    BY <1>3 DEF Preflight
  <2>1. CASE EndRestore
    BY <1>0, <2>0, <2>1, StillFits, EndFits DEF Truthful, Agreement
  <2>2. CASE ~EndRestore
    <3>1. job'.pc = "finish" /\ job'.who = job.who
      BY <1>0, <1>3, <2>2 DEF Preflight, Jobs
    <3>2. JobFits'
      BY <1>0, <2>0, <3>1 DEF JobFits, Working, Early, Quiet, backend
    <3> QED
      BY <1>0, <2>0, <3>2, StillFits DEF Truthful, Agreement
  <2> QED
    BY <2>1, <2>2
<1>4. CASE KnownFailure
  <2>1. /\ job.pc \in Working /\ failed.op = job.op /\ UNCHANGED <<backend, touched>>
        /\ AfterFailure(failed.kind, TRUE)
    BY <1>4 DEF KnownFailure, Working
  <2>2. ~Live(cand) /\ UNCHANGED <<cand, conn, failed>>
    BY <1>0, <2>1 DEF JobFits, Fitting, CandidateFits, backend
  <2>3. JobFits' /\ UNCHANGED record
    BY <1>0, <2>1, <2>2, FailureFits
  <2> QED
    BY <1>0, <2>1, <2>3, StillFits DEF Truthful, Agreement
<1>5. CASE Publish
  <2>0. UNCHANGED <<record, backend, touched>> /\ job.pc = "publish"
    BY <1>5 DEF Publish
  <2>1. CASE EndRestore
    BY <1>0, <2>0, <2>1, StillFits, EndFits DEF Truthful, Agreement
  <2>2. CASE ~EndRestore
    <3>1. job'.pc = "finish" /\ job'.who = job.who
      BY <1>0, <1>5, <2>2 DEF Publish, Jobs
    <3>2. JobFits'
      BY <1>0, <2>0, <3>1 DEF JobFits, Working, Early, Quiet, backend
    <3> QED
      BY <1>0, <2>0, <3>2, StillFits DEF Truthful, Agreement
  <2> QED
    BY <2>1, <2>2
<1>6. CASE Delete
  <2>1. /\ UNCHANGED <<record, backend, touched>> /\ job' = StopJob("delete", Nobody)
        /\ ~PendingRestore(mem)
    BY <1>6 DEF Delete, Settled
  <2>2. ~PendingRestore(mem')
    BY <2>1 DEF record, PendingRestore
  <2>3. JobFits'
    BY <2>1, <2>2, StopJobFits
  <2> QED
    BY <1>0, <2>1, <2>3, StillFits DEF Truthful, Agreement
<1> QED
  BY <1>1, <1>2, <1>3, <1>4, <1>5, <1>6

\* Restore requests.
LEMMA RestoreRequestAgrees ==
    ASSUME Inv, Agreement, NEW r \in Restores, NEW c \in BOOLEAN,
           RestoreAgain(r, c) \/ RestoreAdmit(r, c)
    PROVE  Truthful
<1>0. Fitting /\ JobFits /\ Sound(mem) /\ r # Nobody
  BY NamesAssumption DEF Agreement, Fitting, RecordsFit, Records
<1>1. CASE RestoreAgain(r, c)
  <2>1. /\ UNCHANGED <<record, backend, touched>> /\ job' = Run(mem.restore.op)
        /\ ~flagged /\ mem.active = r
    BY <1>1 DEF RestoreAgain, Free
  <2>2. PendingRestore(mem') /\ mem'.restore.op = mem.restore.op /\ ~flagged'
    BY <1>0, <2>1 DEF Sound, record, PendingRestore
  <2>3. job'.pc = "run" /\ job'.op = mem.restore.op /\ job'.who # "delete"
    BY <2>1 DEF Run, NoJob
  <2> QED
    BY <1>0, <2>1, <2>2, <2>3, StillFits, RunFits DEF Truthful, Agreement
<1>2. CASE RestoreAdmit(r, c)
  <2> DEFINE m == Admitted(r)
  <2>1. /\ job.pc = "idle" /\ UNCHANGED <<backend, touched>>
        /\ mem.owners[r] = NoOwner /\ mem.active = Nobody /\ (Settled(mem) \/ Recovering)
        /\ \/ Saved(m) /\ job' \in {NoJob, Run(m.restore.op)}
           \/ Torn(m) /\ UNCHANGED job
    BY <1>2 DEF RestoreAdmit, Free
  <2>2. Proper(m, touched) /\ PendingRestore(m)
    BY <1>0, <2>1, AdmittedProper
  <2> HIDE DEF m
  <2>3. Fitting' /\ RollsBackTruly
    BY <1>0, <2>1, <2>2, WriteFits DEF Failed
  <2>4. CASE job' = NoJob
    BY <2>3, <2>4, RestFits DEF Truthful, Agreement
  <2>5. CASE Saved(m) /\ job' = Run(m.restore.op)
    <3>1. mem' = m /\ ~flagged'
      BY <2>5 DEF Saved
    <3>2. job'.pc = "run" /\ job'.op = m.restore.op /\ job'.who # "delete"
      BY <2>5 DEF Run, NoJob
    <3>3. JobFits'
      BY <2>2, <3>1, <3>2, RunFits
    <3> QED
      BY <2>3, <3>3 DEF Truthful, Agreement
  <2>6. CASE UNCHANGED job
    <3>1. JobFits'
      BY <1>0, <2>1, <2>6 DEF JobFits, Working, Early, Quiet
    <3> QED
      BY <2>3, <3>1 DEF Truthful, Agreement
  <2> QED
    BY <2>1, <2>4, <2>5, <2>6
<1> QED
  BY <1>1, <1>2

\* The beginning of an operation: it is the pending one, or the restore at startup,
\* which is not touched yet.
LEMMA BeginRestoreAgrees ==
    ASSUME Inv, Agreement, BeginRestore
    PROVE  Truthful
<1>0. /\ Fitting /\ JobFits /\ job \in Jobs /\ mem \in WorkerRecords
      /\ Sound(mem) /\ Fits(mem, cand, conn, touched)
  BY DEF Agreement, Fitting, RecordsFit, Records, Inv, LockInv, RecordInv
<1> DEFINE os == [r \in Restores |-> IF r = mem.active THEN [mem.owners[r] EXCEPT !.started = TRUE]
                                                       ELSE mem.owners[r]]
           m == [mem EXCEPT !.restore.op = job.op, !.owners = os]
<1>1. /\ \A r \in Restores : os[r].receipt = mem.owners[r].receipt /\ os[r].op = mem.owners[r].op
      /\ mem.active # Nobody => mem.active \in Restores /\ os[mem.active].started
  <2>1. mem.owners \in [Restores -> [op : Ops \cup {Nobody}, started : BOOLEAN,
                                      receipt : Receipts \cup {"none"}]]
    BY <1>0 DEF WorkerRecords
  <2>2. mem.active # Nobody => mem.active \in Restores
    BY <1>0 DEF WorkerRecords
  <2> QED
    BY <2>1, <2>2
<1>2. /\ job.pc = "preflight" /\ cand = NoCand /\ UNCHANGED backend
      /\ touched' = IF PendingRestore(mem) THEN touched ELSE touched \ {job.op}
      /\ \/ Saved(m) /\ Goto("call")
         \/ Failed(m) /\ EndRestore
  BY DEF BeginRestore
<1> HIDE DEF os
<1>3. /\ m.restore.op = job.op /\ m.restore.commit = mem.restore.commit
      /\ m.restore.repair = mem.restore.repair /\ m.active = mem.active
      /\ m.status = mem.status /\ m.owners = os
  BY <1>0 DEF WorkerRecords
<1> HIDE DEF m
<1>4. /\ job.op # Nobody /\ job.who # "delete"
      /\ IF PendingRestore(mem) THEN mem.restore.op = job.op ELSE job.op = "auto"
  BY <1>0, <1>2, NamesAssumption DEF JobFits, Early, PendingRestore
<1>5. PendingRestore(m) /\ (RollbackAllowed(m) <=> RollbackAllowed(mem)) /\ Started(m)
  BY <1>1, <1>3, <1>4 DEF PendingRestore, RollbackAllowed, Started
<1>6. Sound(m)
  <2>1. m.active # Nobody => m.owners[m.active].op = m.restore.op
    BY <1>0, <1>1, <1>3, <1>4 DEF Sound
  <2>2. m.restore.op \in Restores => m.owners[m.restore.op].op # Nobody
    BY <1>0, <1>1, <1>3, <1>4, NamesAssumption DEF Sound
  <2>3. m.restore.commit => m.status = "active"
    BY <1>0, <1>3 DEF Sound
  <2> QED
    BY <1>5, <2>1, <2>2, <2>3 DEF Sound
<1>7. Fits(m, cand, conn, touched')
  <2>1. ~Live(cand) /\ ~cand.started /\ Marked(cand, touched) = touched
        /\ Marked(cand, touched') = touched'
    BY <1>2 DEF NoCand, Live, Marked
  <2>2. m.restore.op \in touched' => ~RollbackAllowed(m)
    BY <1>0, <1>2, <1>3, <1>4, <1>5, <2>1 DEF Fits
  <2> QED
    BY <1>0, <1>3, <2>1, <2>2 DEF Fits
<1>8. Proper(m, touched')
  BY <1>1, <1>3, <1>6, <1>7 DEF Proper, Denies
<1>9. Fitting' /\ RollsBackTruly
  BY <1>0, <1>2, <1>8, WriteFits
<1>10. JobFits'
  <2>1. CASE EndRestore
    BY <2>1, EndFits
  <2>2. CASE Saved(m) /\ Goto("call")
    <3>1. job'.pc = "call" /\ job'.op = job.op /\ job'.who = job.who
      BY <1>0, <2>2, GotoFields DEF Pcs
    <3>2. mem' = m /\ ~flagged' /\ Started(mem')
      BY <1>5, <2>2 DEF Saved, Started
    <3> QED
      BY <1>3, <1>4, <3>1, <3>2 DEF JobFits, Working, Early, Quiet
  <2> QED
    BY <1>2, <2>1, <2>2
<1> QED
  BY <1>9, <1>10 DEF Truthful, Agreement

\* The end of a request.
LEMMA FinishRestoreAgrees ==
    ASSUME Inv, Agreement, FinishRestore
    PROVE  Truthful
<1> DEFINE m == Settle(mem, job.receipt)
<1>0. Fitting /\ JobFits /\ job.receipt \in Receipts \ {"rolled_back"}
  BY DEF Agreement, FinishRestore, Inv, LockInv, Jobs, Receipts
<1>1. /\ job.pc = "finish" /\ EndRestore /\ UNCHANGED <<backend, touched>>
      /\ \/ UNCHANGED record
         \/ (job.receipt = "accepted" \/ RollbackAllowed(mem)) /\ (Saved(m) \/ Failed(m))
  BY DEF FinishRestore, Lost, Failed
<1>2. ~Live(cand)
  BY <1>0, <1>1 DEF JobFits, Quiet
<1>3. JobFits'
  BY <1>1, EndFits
<1>4. CASE UNCHANGED record
  BY <1>0, <1>1, <1>3, <1>4, StillFits DEF Truthful, Agreement
<1>5. CASE (job.receipt = "accepted" \/ RollbackAllowed(mem)) /\ (Saved(m) \/ Failed(m))
  <2>1. Proper(m, touched)
    BY <1>0, <1>2, <1>5, SettleProper
  <2> QED
    BY <1>0, <1>1, <1>3, <1>5, <2>1, WriteFits DEF Truthful, Agreement
<1> QED
  BY <1>1, <1>4, <1>5

\* The decision, before the activation.
LEMMA CommitAgrees ==
    ASSUME Inv, Agreement, Commit
    PROVE  Truthful
<1> DEFINE m == [mem EXCEPT !.status = "active", !.restore.commit = TRUE]
<1>0. /\ Fitting /\ JobFits /\ job \in Jobs /\ mem \in WorkerRecords
      /\ Sound(mem) /\ Fits(mem, cand, conn, touched)
  BY DEF Agreement, Fitting, RecordsFit, Records, Inv, LockInv, RecordInv
<1>1. /\ job.pc = "commit" /\ UNCHANGED <<backend, touched>>
      /\ \/ Saved(m) /\ Goto("connect")
         \/ Torn(m) /\ EndRestore
         \/ Lost /\ Goto("discard")
         \/ EndPending
  BY DEF Commit
<1>2. /\ m.restore.op = mem.restore.op /\ m.restore.commit /\ m.status = "active"
      /\ m.active = mem.active /\ m.owners = mem.owners
  BY <1>0 DEF WorkerRecords
<1> HIDE DEF m
<1>3. mem.restore.op = job.op /\ job.op # Nobody /\ job.who # "delete"
  BY <1>0, <1>1 DEF JobFits, Working
<1>4. Sound(m) /\ ~RollbackAllowed(m) /\ (Started(mem) => Started(m))
  BY <1>0, <1>2, <1>3 DEF Sound, PendingRestore, RollbackAllowed, Started
<1>5. Proper(m, touched)
  <2>1. Fits(m, cand, conn, touched)
    BY <1>0, <1>2, <1>4 DEF Fits
  <2> QED
    BY <1>2, <1>4, <2>1 DEF Proper, Denies
<1>6. CASE Saved(m) /\ Goto("connect")
  <2>1. job'.pc = "connect" /\ job'.who = job.who
    BY <1>0, <1>6, GotoFields DEF Pcs
  <2>2. mem' = m /\ ~flagged' /\ cand' = cand
    BY <1>1, <1>6 DEF Saved, backend
  <2>3. JobFits'
    BY <1>0, <1>1, <1>2, <1>3, <2>1, <2>2 DEF JobFits, Working, Early, Quiet
  <2> QED
    BY <1>0, <1>1, <1>5, <1>6, <2>3, WriteFits DEF Truthful, Agreement
<1>7. CASE Torn(m) /\ EndRestore
  BY <1>0, <1>1, <1>5, <1>7, EndFits, WriteFits DEF Failed, Truthful, Agreement
<1>8. CASE Lost /\ Goto("discard")
  <2>1. job'.pc = "discard" /\ job'.op = job.op /\ job'.who = job.who
    BY <1>0, <1>8, GotoFields DEF Pcs
  <2>2. UNCHANGED <<record, backend, touched>> /\ mem' = mem
    BY <1>1, <1>8 DEF Lost, record
  <2>3. JobFits'
    BY <1>3, <2>1, <2>2 DEF JobFits, Working, Early, Quiet
  <2> QED
    BY <1>0, <2>2, <2>3, StillFits DEF Truthful, Agreement
<1>9. CASE EndPending
  BY <1>0, <1>1, <1>9, EndFits, StillFits DEF EndPending, Truthful, Agreement
<1> QED
  BY <1>1, <1>6, <1>7, <1>8, <1>9

\* The receipt of a void decision or a rejected attempt.
LEMMA RetractAgrees ==
    ASSUME Inv, Agreement, Retract
    PROVE  Truthful
<1> DEFINE x == IF job.pc = "reject" THEN "rejected" ELSE "rolled_back"
           m == Settle(mem, x)
<1>0. Fitting /\ JobFits /\ x \in Receipts
  BY DEF Agreement, Receipts
<1>1. /\ job.pc \in {"retract", "reject"} /\ EndRestore /\ UNCHANGED <<backend, touched>>
      /\ Lost \/ (RollbackAllowed(mem) /\ (Saved(m) \/ Failed(m)))
  BY DEF Retract, Failed
<1> HIDE DEF x
<1>2. ~Live(cand) /\ JobFits'
  BY <1>0, <1>1, EndFits DEF JobFits, Quiet
<1>3. CASE Lost
  BY <1>0, <1>1, <1>2, <1>3, StillFits DEF Lost, Truthful, Agreement
<1>4. CASE RollbackAllowed(mem) /\ (Saved(m) \/ Failed(m))
  <2>1. Proper(m, touched)
    BY <1>0, <1>2, <1>4, SettleProper
  <2> HIDE DEF m
  <2> QED
    BY <1>0, <1>1, <1>2, <1>4, <2>1, WriteFits DEF Truthful, Agreement
<1> QED
  BY <1>1, <1>3, <1>4

\* A rollback stops the Worker: nothing of the failed operation is left, and an
\* unknown outcome leaves its failure in memory.
LEMMA RollbackAgrees ==
    ASSUME Inv, Agreement, Rollback
    PROVE  Truthful
<1> DEFINE n == Settle(mem, "rolled_back")
           m == [n EXCEPT !.stop = Nobody, !.status = "stopped"]
<1>0. Fitting /\ JobFits /\ mem \in WorkerRecords /\ "rolled_back" \in Receipts
  BY DEF Agreement, Inv, RecordInv, Receipts
<1>1. /\ job.pc = "rollback" /\ EndRestore /\ UNCHANGED <<backend, touched>>
      /\ \/ Lost
         \/ RollbackAllowed(mem) /\ Saved(m)
         \/ RollbackAllowed(mem) /\ Renamed(m) /\ UNCHANGED <<mem, flagged>>
  BY DEF Rollback
<1>2. n \in WorkerRecords /\ ~PendingRestore(n) /\ ~n.restore.commit /\ n.active = Nobody
      /\ n.owners = Finish(mem, "rolled_back").owners
  BY <1>0, SettleFields
<1> HIDE DEF n
<1>3. /\ ~PendingRestore(m) /\ ~m.restore.commit /\ m.active = Nobody
      /\ m.owners = Finish(mem, "rolled_back").owners
  BY <1>2 DEF WorkerRecords, PendingRestore
<1> HIDE DEF m
<1>4. ~Live(cand) /\ failed.op = job.op /\ job.op # Nobody /\ mem.restore.op = job.op
  BY <1>0, <1>1 DEF JobFits, Quiet, Working
<1>5. ~conn.on
  BY <1>0, <1>4 DEF Fitting, CandidateFits
<1>6. JobFits'
  BY <1>1, EndFits
<1>7. CASE Lost
  BY <1>0, <1>1, <1>6, <1>7, StillFits DEF Lost, Truthful, Agreement
<1>8. RollbackAllowed(mem) => Proper(m, touched)
  BY <1>0, <1>3, <1>4, <1>5, SettledProper
<1>9. CASE RollbackAllowed(mem) /\ Saved(m)
  BY <1>0, <1>1, <1>6, <1>8, <1>9, WriteFits DEF Truthful, Agreement
<1>10. CASE RollbackAllowed(mem) /\ Renamed(m) /\ UNCHANGED <<mem, flagged>>
  <2>0. UNCHANGED <<cand, conn>> /\ UNCHANGED cand /\ failed' = failed /\ mem' = mem
        /\ RecordsFit /\ HistoryFits
    BY <1>0, <1>1, <1>10 DEF backend, Fitting
  <2>1. RecordsFit' /\ HistoryFits' /\ RollsBackTruly
    BY <1>1, <1>8, <1>10, <2>0, WriteRecords, WriteHistory
  <2>2. Steady(failed)'
    BY <1>4, <2>0 DEF Steady
  <2>3. CandidateFits(cand, conn, failed)'
    BY <1>0, <2>0 DEF Fitting, CandidateFits
  <2> QED
    BY <1>6, <2>1, <2>2, <2>3 DEF Truthful, Agreement, Fitting
<1> QED
  BY <1>1, <1>7, <1>9, <1>10

\* An intent changes nothing of the restore.
LEMMA StopWithFields ==
    ASSUME NEW n \in WorkerRecords, NEW s, NEW o, NEW done \in BOOLEAN
    PROVE  /\ StopWith(n, s, o, done).restore = n.restore
           /\ StopWith(n, s, o, done).owners = n.owners
           /\ StopWith(n, s, o, done).active = n.active
           /\ StopWith(n, s, o, done).status = n.status
  BY DEF StopWith, WorkerRecords

\* Stop requests.
LEMMA StopRequestAgrees ==
    ASSUME Inv, Agreement, NEW s \in Stops \cup {Nobody}, NEW c \in BOOLEAN,
           StopAgain(s, c) \/ StopAdopt(s, c) \/ StopBegin(s, c) \/ StopNothing(s)
    PROVE  Truthful
<1>0. /\ Fitting /\ JobFits /\ mem \in WorkerRecords
      /\ Sound(mem) /\ Fits(mem, cand, conn, touched)
  BY DEF Agreement, Fitting, RecordsFit, Records, Inv, RecordInv
<1>1. UNCHANGED <<backend, touched>> /\ UNCHANGED backend /\ touched' \in SUBSET touched
  BY DEF StopAgain, StopAdopt, StopBegin, StopNothing
<1>2. JobFits'
  <2>1. (job' = job /\ job.pc = "idle") \/ AfterAdmission(c)
    BY DEF StopAgain, StopAdopt, StopBegin, StopNothing, Free
  <2>2. CASE AfterAdmission(c)
    BY <2>2, RestFits, StopJobFits DEF AfterAdmission
  <2>3. CASE job' = job /\ job.pc = "idle"
    BY <1>0, <2>3 DEF JobFits, Working, Early, Quiet
  <2> QED
    BY <2>1, <2>2, <2>3
<1> SUFFICES Fitting' /\ RollsBackTruly
  BY <1>2 DEF Truthful, Agreement
<1>3. CASE StopAgain(s, c)
  BY <1>0, <1>1, <1>3, StillFits DEF StopAgain
<1>4. CASE StopAdopt(s, c)
  <2> DEFINE m == StopWith(mem, s, mem.stop, FALSE)
  <2>1. Saved(m) \/ Failed(m)
    BY <1>4 DEF StopAdopt, Failed
  <2>2. /\ m.restore = mem.restore /\ m.owners = mem.owners /\ m.active = mem.active
        /\ m.status = mem.status
    BY <1>0, StopWithFields, Zenon
  <2> HIDE DEF m
  <2>3. Proper(m, touched')
    BY <1>0, <1>1, <2>2, LikeMemProper
  <2> QED
    BY <1>0, <1>1, <2>1, <2>3, WriteFits
<1>5. CASE StopBegin(s, c)
  <2> DEFINE o == IF s = Nobody THEN "anon" ELSE s
             n == [mem EXCEPT !.stop = o]
             m == StopWith(n, s, o, FALSE)
  <2>1. Saved(m) \/ (Renamed(m) /\ mem' = m /\ flagged' = TRUE)
    BY <1>5 DEF StopBegin
  <2>2. o \in StopOps
    BY DEF StopOps
  <2> HIDE DEF o
  <2>3. /\ n \in WorkerRecords /\ n.restore = mem.restore /\ n.owners = mem.owners
        /\ n.active = mem.active /\ n.status = mem.status
    BY <1>0, <2>2 DEF WorkerRecords
  <2> HIDE DEF n
  <2>4. /\ m.restore = n.restore /\ m.owners = n.owners /\ m.active = n.active
        /\ m.status = n.status
    BY <2>3, StopWithFields, Zenon
  <2> HIDE DEF m
  <2>5. Proper(m, touched')
    BY <1>0, <1>1, <2>3, <2>4, LikeMemProper
  <2> QED
    BY <1>0, <1>1, <2>1, <2>3, <2>4, <2>5, WriteFits
<1>6. CASE StopNothing(s)
  <2> DEFINE n == Finish(mem, "superseded")
             m == StopWith(n, s, s, TRUE)
  <2>1. (Saved(m) \/ Failed(m)) /\ ~PendingRestore(mem)
    BY <1>6 DEF StopNothing, Failed, Settled
  <2>2. "superseded" \in Receipts
    BY DEF Receipts
  <2>3. /\ n \in WorkerRecords /\ n.restore = mem.restore /\ n.active = Nobody
        /\ n.status = mem.status
    BY <1>0, <2>2, FinishFields
  <2>a. n.owners = Finish(mem, "superseded").owners
    OBVIOUS
  <2> HIDE DEF n
  <2>b. /\ m.restore = n.restore /\ m.owners = n.owners /\ m.active = n.active
        /\ m.status = n.status
    BY <2>3, StopWithFields, Zenon
  <2> HIDE DEF m
  <2>4. /\ m.restore = mem.restore /\ m.active = Nobody /\ m.status = mem.status
        /\ m.owners = Finish(mem, "superseded").owners
    BY <2>3, <2>a, <2>b
  <2>5. ~Live(cand) /\ ~mem.restore.commit
    BY <1>0, <2>1 DEF Fits, Started, Sound
  <2>6. ~PendingRestore(m) /\ ~m.restore.commit
    BY <2>1, <2>4, <2>5 DEF PendingRestore
  <2>7. conn.on => m.status = "active"
    BY <1>0, <2>4 DEF Fits
  <2>8. Proper(m, touched)
    BY <1>0, <2>2, <2>4, <2>5, <2>6, <2>7, SettledProper
  <2> QED
    BY <1>0, <1>1, <2>1, <2>8, WriteFits
<1> QED
  BY <1>3, <1>4, <1>5, <1>6

\* The stopped record.
LEMMA CommitStoppedAgrees ==
    ASSUME Inv, Agreement, CommitStopped
    PROVE  Truthful
<1> DEFINE n == Settle(mem, "superseded")
           ss == [s \in Stops |-> IF mem.stops[s].op = mem.stop
                                  THEN [mem.stops[s] EXCEPT !.done = TRUE] ELSE mem.stops[s]]
           m == [n EXCEPT !.stop = Nobody, !.status = "stopped", !.stops = ss]
<1>0. Fitting /\ JobFits /\ mem \in WorkerRecords /\ "superseded" \in Receipts
  BY DEF Agreement, Inv, RecordInv, Receipts
<1>1. /\ job.pc = "stopped" /\ job' = NoJob /\ UNCHANGED <<backend, touched>>
      /\ Saved(m) \/ Failed(m)
  BY DEF CommitStopped, StoppedRecord
<1>2. n \in WorkerRecords /\ ~PendingRestore(n) /\ ~n.restore.commit /\ n.active = Nobody
      /\ n.owners = Finish(mem, "superseded").owners
  BY <1>0, SettleFields
<1> HIDE DEF n, ss
<1>3. /\ ~PendingRestore(m) /\ ~m.restore.commit /\ m.active = Nobody
      /\ m.owners = Finish(mem, "superseded").owners
  BY <1>2 DEF WorkerRecords, PendingRestore
<1> HIDE DEF m
<1>4. ~Live(cand) /\ ~conn.on
  BY <1>0, <1>1 DEF JobFits, Quiet
<1>5. Proper(m, touched)
  BY <1>0, <1>3, <1>4, SettledProper
<1> QED
  BY <1>0, <1>1, <1>5, WriteFits, RestFits DEF Truthful, Agreement

\* The deleted record.
LEMMA EraseAgrees ==
    ASSUME Inv, Agreement, Erase
    PROVE  Truthful
<1> DEFINE m == [mem EXCEPT !.status = "deleted"]
<1>0. /\ Fitting /\ JobFits /\ mem \in WorkerRecords
      /\ Sound(mem) /\ Fits(mem, cand, conn, touched)
  BY DEF Agreement, Fitting, RecordsFit, Records, Inv, RecordInv
<1>1. /\ job.pc = "erase" /\ job' = NoJob /\ UNCHANGED <<backend, touched>>
      /\ UNCHANGED record \/ (mem' = m /\ disk' = m /\ old' = {} /\ flagged' = FALSE)
  BY DEF Erase
<1>2. /\ m.restore = mem.restore /\ m.owners = mem.owners /\ m.active = mem.active
  BY <1>0 DEF WorkerRecords
<1> HIDE DEF m
<1>3. ~conn.on /\ JobFits'
  BY <1>0, <1>1, RestFits DEF JobFits
<1>4. CASE UNCHANGED record
  BY <1>0, <1>1, <1>3, <1>4, StillFits DEF Truthful, Agreement
<1>5. CASE mem' = m /\ disk' = m /\ old' = {} /\ flagged' = FALSE
  <2>1. ~mem.restore.commit
    <3>1. ~PendingRestore(mem)
      BY <1>0, <1>1 DEF JobFits
    <3> QED
      BY <1>0, <3>1 DEF Sound
  <2>2. /\ PendingRestore(m) = PendingRestore(mem) /\ Started(m) = Started(mem)
        /\ RollbackAllowed(m) = RollbackAllowed(mem)
    BY <1>2 DEF PendingRestore, Started, RollbackAllowed
  <2>3. UNCHANGED <<cand, conn, failed, touched>> /\ Records' = {m}
    BY <1>1, <1>5 DEF backend, Records
  <2>4. Sound(m) /\ Fits(m, cand, conn, touched)
    BY <1>0, <1>2, <1>3, <2>1, <2>2 DEF Sound, Fits
  <2>5. RecordsFit'
    BY <2>3, <2>4 DEF RecordsFit
  <2>6. HistoryFits' /\ RollsBackTruly
    BY <1>0, <1>2, <1>5, <2>3 DEF Fitting, HistoryFits, Denies, RollsBackTruly
  <2>7. Steady(failed)' /\ CandidateFits(cand, conn, failed)'
    BY <1>0, <1>5, <2>3 DEF Steady, Fitting, CandidateFits
  <2> QED
    BY <1>3, <2>5, <2>6, <2>7 DEF Truthful, Agreement, Fitting
<1> QED
  BY <1>1, <1>4, <1>5

\* The continuation takes up its operation while it is pending.
LEMMA ContinuationAgrees ==
    ASSUME Inv, Agreement, NEW o \in Ops, Continuation(o)
    PROVE  Truthful
<1>0. Fitting /\ JobFits /\ o # Nobody
  BY NamesAssumption DEF Agreement, Ops
<1>1. /\ UNCHANGED <<record, backend, touched>> /\ job.pc = "idle" /\ ~flagged
      /\ UNCHANGED <<mem, flagged>>
  BY DEF Continuation, Free, record
<1>2. JobFits'
  <2>1. CASE mem.restore.op = o /\ job' = StopJob("driver", o)
    BY <2>1, StopJobFits
  <2>2. CASE UNCHANGED job
    BY <1>0, <1>1, <2>2 DEF JobFits, Working, Early, Quiet
  <2>3. CASE /\ mem.restore.op = o
             /\ job' = [NoJob EXCEPT !.pc = "discard", !.who = "driver", !.op = o, !.direct = TRUE]
    <3>1. job'.pc = "discard" /\ job'.who = "driver" /\ job'.op = o
      BY <2>3 DEF NoJob
    <3> QED
      BY <1>0, <1>1, <2>3, <3>1 DEF JobFits, Working, Early, Quiet
  <2>4. CASE mem.restore.op = o /\ job' = [Run(o) EXCEPT !.who = "driver"]
    <3>1. job'.pc = "run" /\ job'.who = "driver" /\ job'.op = o
      BY <2>4 DEF NoJob, Run
    <3>2. PendingRestore(mem') /\ mem'.restore.op = o /\ ~flagged'
      BY <1>0, <1>1, <2>4 DEF PendingRestore
    <3> QED
      BY <3>1, <3>2, RunFits
  <2> QED
    BY <2>1, <2>2, <2>3, <2>4 DEF Continuation
<1> QED
  BY <1>0, <1>1, <1>2, StillFits DEF Truthful, Agreement

\* A reread takes the record of the disk.  In the middle of a job only the task
\* of a live candidate rereads, and every record has that candidate's operation.
LEMMA RereadAgrees ==
    ASSUME Inv, Agreement, Reread
    PROVE  Truthful
<1>0. /\ Fitting /\ JobFits /\ RecordsFit /\ HistoryFits /\ CandidateFits(cand, conn, failed)
      /\ Fits(mem, cand, conn, touched) /\ Fits(disk, cand, conn, touched)
  BY DEF Agreement, Fitting, RecordsFit, Records
<1>1. /\ flagged /\ (job.pc = "idle" \/ cand.task = "preparing")
      /\ mem' = disk /\ disk' = disk /\ old' = {} /\ flagged' = FALSE
      /\ UNCHANGED <<job, cand, conn, failed, touched>>
  BY DEF Reread
<1>2. RecordsFit'
  BY <1>0, <1>1 DEF RecordsFit, Records
<1>3. HistoryFits'
  BY <1>0, <1>1 DEF HistoryFits, Denies
<1>4. Steady(failed)' /\ CandidateFits(cand, conn, failed)'
  BY <1>0, <1>1 DEF Steady, CandidateFits
<1>5. RollsBackTruly
  BY <1>0, <1>1 DEF HistoryFits, Denies, RollsBackTruly, Marked
<1>6. JobFits'
  <2>1. CASE job.pc = "idle"
    BY <1>0, <1>1, <2>1 DEF JobFits, Working, Early, Quiet
  <2>2. CASE cand.task = "preparing"
    <3>1. /\ Live(cand) /\ mem'.restore.op = mem.restore.op /\ Started(mem')
          /\ PendingRestore(mem) /\ PendingRestore(mem')
      BY <1>0, <1>1, <2>2 DEF CandidateFits, Fits, Started, PendingRestore
    <3>2. Live(cand')
      BY <1>1, <3>1
    <3> QED
      BY <1>0, <1>1, <3>1, <3>2 DEF JobFits
  <2> QED
    BY <1>1, <2>1, <2>2
<1> QED
  BY <1>2, <1>3, <1>4, <1>5, <1>6 DEF Truthful, Agreement, Fitting

\* A restart forgets the backend and takes up what the surviving record says.
LEMMA RestartAgrees ==
    ASSUME Inv, Agreement, Restart
    PROVE  Truthful
<1>0. RecordsFit /\ HistoryFits
  BY DEF Agreement, Fitting
<1>1. PICK d \in {disk} \cup old :
          /\ mem' = d /\ disk' = d /\ old' = {} /\ flagged' = FALSE /\ job' = Startup(d)
          /\ cand' = NoCand /\ conn' = NoConn /\ failed' = NoFailure /\ touched' = touched
  BY DEF Restart
<1>2. Sound(d) /\ Fits(d, cand, conn, touched)
  BY <1>0 DEF RecordsFit, Records
<1>3. /\ ~Live(cand') /\ ~cand'.started /\ ~conn'.on /\ failed'.op = Nobody
      /\ cand'.task = "idle" /\ cand'.res = "none"
      /\ Marked(cand', touched') \subseteq Marked(cand, touched)
  BY <1>1 DEF NoCand, NoConn, NoFailure, Live, Marked
<1>4. RecordsFit'
  <2>1. Fits(d, cand', conn', touched')
    BY <1>2, <1>3 DEF Fits
  <2>2. \A e \in Records' : e = d
    BY <1>1 DEF Records
  <2> QED
    BY <1>2, <2>1, <2>2 DEF RecordsFit
<1>5. HistoryFits'
  BY <1>0, <1>1 DEF HistoryFits, Denies
<1>6. Steady(failed)' /\ CandidateFits(cand, conn, failed)'
  BY <1>1, <1>3 DEF Steady, CandidateFits
<1>7. RollsBackTruly
  BY <1>0, <1>1 DEF HistoryFits, Denies, RollsBackTruly, Marked
<1>8. JobFits'
  <2>1. CASE Startup(d) = NoJob
    BY <1>1, <2>1, RestFits
  <2>2. CASE Startup(d) = StopJob("startup", Nobody)
    BY <1>1, <2>2, StopJobFits
  <2>3. CASE /\ PendingRestore(d)
             /\ Startup(d) = [Run(d.restore.op) EXCEPT !.who = "startup", !.reclaim = ~d.restore.commit]
    <3>1. job'.pc = "run" /\ job'.who = "startup" /\ job'.op = d.restore.op
      BY <1>1, <2>3 DEF Run, NoJob
    <3> QED
      BY <1>1, <2>3, <3>1, RunFits
  <2>4. CASE ~PendingRestore(d) /\ Startup(d) = [Run("auto") EXCEPT !.who = "startup"]
    <3>1. job'.pc = "run" /\ job'.who = "startup" /\ job'.op = "auto"
      BY <1>1, <2>4 DEF Run, NoJob
    <3> QED
      BY <1>1, <2>4, <3>1, RunFits
  <2> QED
    BY <2>1, <2>2, <2>3, <2>4 DEF Startup
<1> QED
  BY <1>4, <1>5, <1>6, <1>7, <1>8 DEF Truthful, Agreement, Fitting

-----------------------------------------------------------------------------
\* Steps of the backend.

\* The candidate, the execution and the touched operations ask no more of the
\* records than before.
Eases ==
    /\ Live(cand') => Live(cand) /\ cand'.op = cand.op
    /\ cand'.started => cand.started
    /\ conn'.on => conn.on
    /\ Marked(cand', touched') \subseteq Marked(cand, touched)

\* Every record still fits.
LEMMA EasedFit ==
    ASSUME Eases, NEW d, Fits(d, cand, conn, touched)
    PROVE  Fits(d, cand', conn', touched')
  BY DEF Eases, Fits

\* A touched operation of a request is known to memory.
LEMMA MarkedKnown ==
    ASSUME Fitting, NEW r \in Restores \cap Marked(cand, touched)
    PROVE  mem.owners[r].op # Nobody
<1>1. CASE r \in touched
  BY <1>1 DEF Fitting, HistoryFits
<1>2. CASE r \notin touched
  <2>1. r = cand.op /\ Live(cand)
    BY <1>2 DEF Marked, Fitting, CandidateFits
  <2>2. mem.restore.op = r /\ Sound(mem)
    BY <2>1 DEF Fitting, RecordsFit, Records, Fits
  <2> QED
    BY <2>2 DEF Sound
<1> QED
  BY <1>1, <1>2

\* A step of the backend that asks no more and writes nothing.
LEMMA EasedStep ==
    ASSUME Fitting, UNCHANGED record, Eases, Steady(failed'), CandidateFits(cand', conn', failed')
    PROVE  Fitting' /\ RollsBackTruly
<1>0. /\ UNCHANGED <<mem, disk, old, flagged>> /\ Records' = Records
      /\ touched' \subseteq Marked(cand, touched)
      /\ Marked(cand', touched') \subseteq Marked(cand, touched)
  BY DEF record, Records, Eases, Marked
<1>1. RecordsFit'
  BY <1>0, EasedFit DEF Fitting, RecordsFit
<1>2. HistoryFits'
  <2>1. \A r \in Restores \cap touched' : mem'.owners[r].op # Nobody
    BY <1>0, MarkedKnown
  <2>2. \A d, r : Denies(d, r)' = Denies(d, r)
    BY <1>0 DEF Denies
  <2> QED
    BY <1>0, <2>1, <2>2 DEF Fitting, HistoryFits
<1>3. Steady(failed)' /\ CandidateFits(cand, conn, failed)'
  BY <1>0 DEF Steady, CandidateFits
<1>4. RollsBackTruly
  BY <1>0 DEF RollsBackTruly
<1> QED
  BY <1>1, <1>2, <1>3, <1>4 DEF Fitting

\* The candidate goes on to a stage that needs no new ground.
LEMMA AdjustedStep ==
    ASSUME Fitting, UNCHANGED <<record, conn, failed>>, cand.op # Nobody,
           cand'.op = cand.op, cand'.only = cand.only, cand'.started = cand.started,
           touched' \subseteq Marked(cand, touched),
           cand'.task \in {"repairing", "activating"} => cand'.task = cand.task,
           cand'.task \in {"preparing", "discarding"} => Live(cand),
           cand'.res = "active" => cand.started
    PROVE  /\ Fitting' /\ RollsBackTruly
           /\ Live(cand') = Live(cand)
<1>0. CandidateFits(cand, conn, failed) /\ Steady(failed) /\ failed' = failed /\ conn' = conn
      /\ UNCHANGED record
  BY DEF Fitting
<1>1. Live(cand') = Live(cand)
  BY DEF Live
<1>2. Eases
  BY <1>0, <1>1 DEF Eases, Marked
<1>3. CandidateFits(cand', conn', failed')
  BY <1>0, <1>1 DEF CandidateFits
<1> QED
  BY <1>0, <1>1, <1>2, <1>3, EasedStep

\* The candidate is forgotten.
LEMMA ForgottenStep ==
    ASSUME Fitting, UNCHANGED <<record, touched>>, cand' = NoCand, conn'.on => conn.on,
           Steady(failed'), conn.on => failed'.op = Nobody
    PROVE  Fitting' /\ RollsBackTruly /\ ~Live(cand')
<1>1. ~Live(cand') /\ ~cand'.started /\ cand'.task = "idle" /\ cand'.res = "none"
      /\ cand'.op = Nobody /\ Marked(cand', touched') \subseteq Marked(cand, touched)
  BY DEF NoCand, Live, Marked
<1>2. Eases /\ CandidateFits(cand', conn', failed') /\ UNCHANGED record
  BY <1>1 DEF Eases, CandidateFits
<1> QED
  BY <1>1, <1>2, EasedStep

\* What a job relies on survives a task.
LEMMA TaskJobFits ==
    ASSUME JobFits, UNCHANGED <<mem, flagged, job, conn, failed>>, Live(cand') = Live(cand),
           cand'.op = cand.op, cand'.task = "preparing" => cand.task = "preparing"
    PROVE  JobFits'
<1>1. PendingRestore(mem') = PendingRestore(mem) /\ Started(mem') = Started(mem)
  BY DEF PendingRestore, Started
<1> QED
  BY <1>1 DEF JobFits

\* The tasks that neither ask for nor hold an authorization.
LEMMA TaskAgrees ==
    ASSUME Inv, Agreement, Prepare \/ Repair \/ Activate \/ Clean \/ Drop
    PROVE  Truthful
<1>0. Fitting /\ JobFits /\ cand \in Candidates /\ CandidateFits(cand, conn, failed)
  BY DEF Agreement, Fitting, Inv, BackendInv
<1>1. /\ UNCHANGED <<record, job, conn, failed>> /\ UNCHANGED <<record, conn, failed>>
      /\ UNCHANGED <<mem, flagged, job, conn, failed>> /\ cand.task # "idle"
  BY DEF Prepare, Repair, Activate, Clean, Drop, record
<1>2. cand.op # Nobody
  BY <1>0, <1>1 DEF CandidateFits, NoCand
<1>3. touched' \subseteq Marked(cand, touched)
  BY DEF Prepare, Repair, Activate, Clean, Drop, Marked
<1>4. /\ cand'.op = cand.op /\ cand'.only = cand.only /\ cand'.started = cand.started
      /\ cand'.task = "idle" /\ (cand'.res = "active" => cand.task = "activating" \/ cand.res = "active")
  BY <1>0 DEF Prepare, Repair, Activate, Clean, Drop, TaskEnds, Candidates
<1>5. cand'.res = "active" => cand.started
  BY <1>0, <1>4 DEF CandidateFits
<1>6. Fitting' /\ RollsBackTruly /\ Live(cand') = Live(cand)
  BY <1>0, <1>1, <1>2, <1>3, <1>4, <1>5, AdjustedStep
<1>7. JobFits'
  BY <1>0, <1>1, <1>4, <1>6, TaskJobFits
<1> QED
  BY <1>6, <1>7 DEF Truthful, Agreement

\* While a candidate is live and no reread is pending, there is only one record.
LEMMA OneRecord ==
    ASSUME Fitting, Live(cand), ~flagged
    PROVE  disk = mem /\ old = {} /\ Records = {mem}
  BY DEF Fitting, CandidateFits, Steady, Records

\* The repair authorizer: the grant is in every record before the repair begins.
LEMMA AuthorizeAgrees ==
    ASSUME Inv, Agreement, Authorize
    PROVE  Truthful
<1> DEFINE m == [mem EXCEPT !.restore.repair = TRUE]
<1>0. /\ Fitting /\ JobFits /\ cand \in Candidates /\ CandidateFits(cand, conn, failed)
      /\ mem \in WorkerRecords /\ Sound(mem) /\ Fits(mem, cand, conn, touched)
      /\ Steady(failed) /\ RecordsFit /\ HistoryFits
  BY DEF Agreement, Fitting, RecordsFit, Records, Inv, BackendInv, RecordInv
<1>1. /\ cand.task = "preparing" /\ UNCHANGED <<job, conn, failed, touched>>
      /\ \/ /\ Granted /\ cand' = [cand EXCEPT !.task = "repairing"]
            /\ IF mem.restore.repair THEN UNCHANGED record ELSE Saved(m)
         \/ Granted /\ Failed(m) /\ Refuse
         \/ UNCHANGED record /\ Refuse
  BY DEF Authorize
<1>2. Live(cand) /\ cand.op # Nobody
  BY <1>0, <1>1 DEF CandidateFits, Live
<1>3. /\ m.restore.op = mem.restore.op /\ m.restore.commit = mem.restore.commit
      /\ m.restore.repair /\ m.active = mem.active /\ m.owners = mem.owners
      /\ m.status = mem.status
  BY <1>0 DEF WorkerRecords
<1> HIDE DEF m
<1>4. /\ PendingRestore(m) = PendingRestore(mem) /\ Started(m) = Started(mem)
      /\ ~RollbackAllowed(m)
  BY <1>3 DEF PendingRestore, Started, RollbackAllowed
<1>5. Sound(m) /\ Fits(m, cand, conn, touched) /\ \A r \in Restores : ~Denies(m, r)
  BY <1>0, <1>3, <1>4 DEF Sound, Fits, Denies
<1>6. /\ cand'.op = cand.op /\ cand'.only = cand.only /\ cand'.started = cand.started
      /\ cand'.task \in {"idle", "repairing"} /\ (cand'.res = "active" => cand.res = "active")
      /\ Live(cand') = Live(cand)
  BY <1>0, <1>1 DEF Refuse, TaskEnds, Candidates, Live
<1>7. CandidateFits(cand', conn', failed')
  BY <1>0, <1>1, <1>2, <1>6 DEF CandidateFits
<1>8. mem' = mem \/ mem' = m
  BY <1>1 DEF record, Saved, Failed, Torn, Lost
<1>9. JobFits'
  <2>1. /\ mem'.restore.op = mem.restore.op /\ PendingRestore(mem') = PendingRestore(mem)
        /\ Started(mem') = Started(mem)
    BY <1>3, <1>4, <1>8
  <2>2. job.pc # "connect"
    BY <1>0, <1>1 DEF JobFits
  <2> QED
    BY <1>0, <1>1, <1>2, <1>6, <2>1, <2>2 DEF JobFits
<1> SUFFICES Fitting' /\ RollsBackTruly
  BY <1>9 DEF Truthful, Agreement
<1>10. CASE UNCHANGED record /\ Refuse
  <2>1. cand'.task = "idle"
    BY <1>0, <1>10 DEF Refuse, TaskEnds, Candidates
  <2>2. Eases
    BY <1>1, <1>6, <2>1 DEF Eases, Marked
  <2> QED
    BY <1>0, <1>1, <1>7, <1>10, <2>2, EasedStep
<1>11. CASE Granted /\ Failed(m) /\ Refuse
  <2>1. cand'.task = "idle"
    BY <1>0, <1>11 DEF Refuse, TaskEnds, Candidates
  <2>2. Eases /\ Marked(cand', touched') \subseteq Marked(cand, touched)
    BY <1>1, <1>6, <2>1 DEF Eases, Marked
  <2>3. mem' = mem
    BY <1>11 DEF Failed, Torn, Lost, record
  <2>4. \A d \in Records' : d \in Records \cup {m}
    BY <1>11, WrittenRecords
  <2>5. RecordsFit'
    BY <1>0, <1>5, <2>2, <2>4, EasedFit DEF RecordsFit
  <2>6. \A d \in ({disk} \cup old)' : d \in {disk, m} \cup old
    BY <1>11 DEF Failed, Torn, Lost, record, Renamed
  <2>7. \A d, r : Denies(d, r)' = Denies(d, r)
    BY <2>3 DEF Denies
  <2>8. HistoryFits'
    BY <1>0, <1>1, <1>3, <1>5, <2>2, <2>3, <2>6, <2>7 DEF HistoryFits
  <2>9. Steady(failed)'
    <3>1. CASE Lost
      BY <1>0, <1>1, <3>1 DEF Lost, record, Steady
    <3>2. CASE Torn(m)
      BY <3>2 DEF Torn, Steady
    <3> QED
      BY <1>11, <3>1, <3>2 DEF Failed
  <2>10. RollsBackTruly
    BY <2>3 DEF RollsBackTruly
  <2> QED
    BY <1>7, <2>5, <2>8, <2>9, <2>10 DEF Fitting
<1>12. CASE /\ Granted /\ cand' = [cand EXCEPT !.task = "repairing"]
            /\ IF mem.restore.repair THEN UNCHANGED record ELSE Saved(m)
  <2>1. ~flagged /\ disk = mem /\ old = {}
    BY <1>0, <1>2, <1>12, OneRecord DEF Granted
  <2>2. mem'.restore.repair /\ disk' = mem' /\ old' = {}
    BY <1>3, <1>12, <2>1 DEF record, Saved
  <2>3. ~RollbackAllowed(mem') /\ Records' = {mem'}
    BY <2>2 DEF RollbackAllowed, Records
  <2>4. Sound(mem') /\ Fits(mem', cand, conn, touched)
    BY <1>0, <1>5, <1>8
  <2>5. Fits(mem', cand', conn', touched')
    BY <1>1, <1>6, <2>3, <2>4 DEF Fits
  <2>6. RecordsFit'
    BY <2>3, <2>4, <2>5 DEF RecordsFit
  <2>7. HistoryFits' /\ RollsBackTruly
    BY <1>0, <1>1, <1>3, <1>8, <2>2 DEF HistoryFits, Denies, RollsBackTruly
  <2>8. Steady(failed)'
    BY <2>2 DEF Steady
  <2> QED
    BY <1>7, <2>6, <2>7, <2>8 DEF Fitting
<1> QED
  BY <1>1, <1>10, <1>11, <1>12

\* The holder goes on without a write.
LEMMA GoOn ==
    ASSUME Inv, NEW pc \in Pcs, Goto(pc), UNCHANGED record
    PROVE  /\ job'.pc = pc /\ job'.op = job.op /\ job'.who = job.who
           /\ mem' = mem /\ flagged' = flagged
  BY GotoFields DEF Inv, LockInv, record

\* A call begins, retains or refuses a candidate.
LEMMA CallRestoreAgrees ==
    ASSUME Inv, Agreement, CallRestore
    PROVE  Truthful
<1>0. /\ Fitting /\ JobFits /\ job \in Jobs /\ cand \in Candidates
      /\ CandidateFits(cand, conn, failed) /\ Sound(mem) /\ Fits(mem, cand, conn, touched)
      /\ Steady(failed)
  BY DEF Agreement, Fitting, RecordsFit, Records, Inv, LockInv, BackendInv
<1>1. job.pc = "call" /\ failed.op # job.op /\ touched' = touched
  BY DEF CallRestore
<1>2. /\ job.op # Nobody /\ mem.restore.op = job.op /\ Started(mem) /\ job.who # "delete"
      /\ (flagged => Live(cand))
  BY <1>0, <1>1 DEF JobFits, Working
<1>3. CASE EndPending /\ UNCHANGED backend
  BY <1>0, <1>1, <1>3, StillFits, EndFits DEF EndPending, Truthful, Agreement
<1>4. CASE /\ conn.on /\ Goto("commit") /\ UNCHANGED <<record, ctx, backend, driver>>
  <2>1. cand.task = "idle" /\ UNCHANGED <<record, backend, touched>> /\ cand' = cand
    BY <1>0, <1>1, <1>4 DEF CandidateFits, NoCand, backend
  <2>2. job'.pc = "commit" /\ job'.op = job.op /\ job'.who = job.who /\ mem' = mem
    BY <1>4, GoOn DEF Pcs
  <2>3. JobFits'
    BY <1>2, <2>1, <2>2 DEF JobFits, Working, Early, Quiet
  <2> QED
    BY <1>0, <2>1, <2>3, StillFits DEF Truthful, Agreement
<1>5. CASE cand.op = Nobody /\ AfterFailure("clean", FALSE) /\ UNCHANGED backend
  <2>1. ~Live(cand) /\ cand' = cand /\ conn' = conn /\ failed' = failed
    BY <1>5 DEF Live, backend
  <2>2. CASE EndPending
    BY <1>0, <1>1, <1>5, <2>2, StillFits, EndFits DEF EndPending, Truthful, Agreement
  <2>3. CASE Goto("reject") /\ UNCHANGED <<record, driver>>
    <3>1. job'.pc = "reject" /\ job'.op = job.op /\ job'.who = job.who /\ mem' = mem
      BY <2>3, GoOn DEF Pcs
    <3>2. JobFits'
      BY <1>2, <2>1, <3>1 DEF JobFits, Working, Early, Quiet
    <3> QED
      BY <1>0, <1>1, <1>5, <2>3, <3>2, StillFits DEF Truthful, Agreement
  <2> QED
    BY <1>5, <2>2, <2>3 DEF AfterFailure
<1>6. CASE /\ cand.op = job.op /\ ~cand.only /\ Goto("join")
           /\ \E t \in {"cleaning", "preparing", "idle"} : cand' = [cand EXCEPT !.task = t]
           /\ UNCHANGED <<record, ctx, conn, failed, driver>>
  <2>1. /\ cand'.op = cand.op /\ cand'.only = cand.only /\ cand'.started = cand.started
        /\ cand'.task \in {"cleaning", "preparing", "idle"} /\ cand'.res = cand.res
    BY <1>0, <1>6 DEF Candidates
  <2>2. Live(cand) /\ cand.op # Nobody /\ (cand.res = "active" => cand.started)
    BY <1>0, <1>2, <1>6 DEF Live, CandidateFits
  <2>3. touched' \subseteq Marked(cand, touched) /\ UNCHANGED <<record, conn, failed>>
    BY <1>1, <1>6 DEF Marked
  <2>4. Fitting' /\ RollsBackTruly
    BY <1>0, <2>1, <2>2, <2>3, AdjustedStep
  <2>5. job'.pc = "join" /\ job'.op = job.op /\ job'.who = job.who /\ mem' = mem
    BY <1>6, GoOn DEF Pcs
  <2>6. JobFits'
    BY <1>2, <2>5 DEF JobFits, Working, Early, Quiet
  <2> QED
    BY <2>4, <2>6 DEF Truthful, Agreement
<1>7. CASE /\ ~conn.on /\ cand = NoCand
           /\ cand' = [NoCand EXCEPT !.op = job.op, !.task = "preparing",
                                     !.eff = mem.restore.repair \/ mem.restore.commit]
           /\ failed' = NoFailure /\ Goto("join")
           /\ UNCHANGED <<record, ctx, conn, driver>>
  <2>1. /\ cand'.op = job.op /\ ~cand'.only /\ ~cand'.started /\ cand'.task = "preparing"
        /\ cand'.res = "none" /\ Live(cand')
    BY <1>2, <1>7 DEF NoCand, Live
  <2>2. ~Live(cand) /\ Marked(cand, touched) = touched /\ Marked(cand', touched') = touched
    BY <1>1, <1>7, <2>1 DEF NoCand, Live, Marked
  <2>3. disk = mem /\ old = {}
    BY <1>0, <1>1, <1>2, <2>2 DEF Steady
  <2>4. UNCHANGED <<mem, disk, old, flagged>> /\ conn' = conn /\ failed'.op = Nobody
    BY <1>7 DEF record, NoFailure
  <2>5. Records' = {mem}
    BY <2>3, <2>4 DEF Records
  <2>6. Fits(mem, cand', conn', touched')
    BY <1>0, <1>2, <2>1, <2>2, <2>4 DEF Fits
  <2>7. RecordsFit'
    BY <1>0, <2>5, <2>6 DEF RecordsFit
  <2>8. HistoryFits' /\ RollsBackTruly
    BY <1>0, <1>1, <2>3, <2>4 DEF Fitting, HistoryFits, Denies, RollsBackTruly
  <2>9. Steady(failed)' /\ CandidateFits(cand, conn, failed)'
    BY <1>2, <1>7, <2>1, <2>3, <2>4 DEF Steady, CandidateFits
  <2>10. job'.pc = "join" /\ job'.op = job.op /\ job'.who = job.who /\ mem' = mem
    BY <1>7, GoOn DEF Pcs
  <2>11. JobFits'
    BY <1>2, <2>10 DEF JobFits, Working, Early, Quiet
  <2> QED
    BY <2>7, <2>8, <2>9, <2>11 DEF Truthful, Agreement, Fitting
<1>8. \/ EndPending /\ UNCHANGED backend
      \/ conn.on /\ Goto("commit") /\ UNCHANGED <<record, ctx, backend, driver>>
      \/ (conn.on \/ cand = NoCand) /\ AfterFailure("clean", FALSE) /\ UNCHANGED backend
      \/ /\ cand.op = job.op /\ ~cand.only /\ Goto("join")
         /\ \E t \in {"cleaning", "preparing", "idle"} : cand' = [cand EXCEPT !.task = t]
         /\ UNCHANGED <<record, ctx, conn, failed, driver>>
      \/ /\ ~conn.on /\ cand = NoCand
         /\ cand' = [NoCand EXCEPT !.op = job.op, !.task = "preparing",
                                   !.eff = mem.restore.repair \/ mem.restore.commit]
         /\ failed' = NoFailure /\ Goto("join")
         /\ UNCHANGED <<record, ctx, conn, driver>>
  BY DEF CallRestore
<1>9. conn.on \/ cand = NoCand => cand.op = Nobody
  BY <1>0 DEF CandidateFits, NoCand
<1> QED
  BY <1>3, <1>4, <1>5, <1>6, <1>7, <1>8, <1>9

\* The answer of a preparation.
LEMMA JoinRestoreAgrees ==
    ASSUME Inv, Agreement, JoinRestore
    PROVE  Truthful
<1>0. Fitting /\ JobFits /\ CandidateFits(cand, conn, failed)
  BY DEF Agreement, Fitting
<1>1. job.pc = "join" /\ cand.task = "idle" /\ touched' = touched
  BY DEF JoinRestore
<1>2. job.op # Nobody /\ mem.restore.op = job.op /\ job.who # "delete" /\ job.pc \in Working
  BY <1>0, <1>1 DEF JobFits, Working
<1>3. CASE EndPending /\ UNCHANGED backend
  BY <1>0, <1>1, <1>3, StillFits, EndFits DEF EndPending, Truthful, Agreement
<1>4. CASE Goto("commit") /\ UNCHANGED <<record, ctx, backend, driver>>
  <2>1. UNCHANGED <<record, backend, touched>> /\ cand' = cand
    BY <1>1, <1>4 DEF backend
  <2>2. job'.pc = "commit" /\ job'.op = job.op /\ job'.who = job.who /\ mem' = mem
    BY <1>4, GoOn DEF Pcs
  <2>3. JobFits'
    BY <1>1, <1>2, <2>1, <2>2 DEF JobFits, Working, Early, Quiet
  <2> QED
    BY <1>0, <2>1, <2>3, StillFits DEF Truthful, Agreement
<1>5. CASE /\ cand.res \in {"clean", "rolled"} /\ failed' = [op |-> job.op, kind |-> cand.res]
           /\ cand' = NoCand /\ AfterFailure(cand.res, FALSE) /\ UNCHANGED conn
  <2>1. ~conn.on /\ failed'.op = job.op
    BY <1>0, <1>5 DEF CandidateFits, NoCand
  <2>2. ~Live(cand') /\ Steady(failed')
    BY <1>2, <1>5, <2>1 DEF NoCand, Live, Steady
  <2>3. JobFits' /\ UNCHANGED record
    BY <1>0, <1>2, <1>5, <2>1, <2>2, FailureFits
  <2>4. Fitting' /\ RollsBackTruly
    BY <1>0, <1>1, <1>5, <2>1, <2>2, <2>3, ForgottenStep
  <2> QED
    BY <2>3, <2>4 DEF Truthful, Agreement
<1> QED
  BY <1>3, <1>4, <1>5 DEF JoinRestore

\* After a restart: a candidate that is only cleaned up is not live.
LEMMA ReclaimAgrees ==
    ASSUME Inv, Agreement, Reclaim
    PROVE  Truthful
<1>0. /\ Fitting /\ JobFits /\ CandidateFits(cand, conn, failed) /\ cand \in Candidates
      /\ Steady(failed)
  BY DEF Agreement, Fitting, Inv, BackendInv
<1>1. job.pc = "reclaim" /\ touched' = touched
  BY DEF Reclaim
<1>2. job.op # Nobody /\ mem.restore.op = job.op /\ job.who # "delete"
  BY <1>0, <1>1 DEF JobFits, Working
<1>3. ASSUME Goto("reclaiming"), UNCHANGED record PROVE JobFits'
  <2>1. job'.pc = "reclaiming" /\ job'.op = job.op /\ job'.who = job.who /\ mem' = mem
    BY <1>3, GoOn DEF Pcs
  <2> QED
    BY <1>2, <2>1 DEF JobFits, Working, Early, Quiet
<1>4. CASE EndPending /\ UNCHANGED backend
  BY <1>0, <1>1, <1>4, StillFits, EndFits DEF EndPending, Truthful, Agreement
<1>5. CASE /\ cand.op = job.op /\ cand.only
           /\ \E t \in {"cleaning", "idle"} : cand' = [cand EXCEPT !.task = t]
           /\ Goto("reclaiming") /\ UNCHANGED <<record, ctx, conn, failed, driver>>
  <2>1. /\ cand'.op = cand.op /\ cand'.only = cand.only /\ cand'.started = cand.started
        /\ cand'.task \in {"cleaning", "idle"} /\ cand'.res = cand.res
    BY <1>0, <1>5 DEF Candidates
  <2>2. cand.op # Nobody /\ (cand.res = "active" => cand.started)
    BY <1>0, <1>2, <1>5 DEF CandidateFits
  <2>3. touched' \subseteq Marked(cand, touched) /\ UNCHANGED <<record, conn, failed>> /\ UNCHANGED record
    BY <1>1, <1>5 DEF Marked
  <2>4. Fitting' /\ RollsBackTruly
    BY <1>0, <2>1, <2>2, <2>3, AdjustedStep
  <2> QED
    BY <1>3, <1>5, <2>3, <2>4 DEF Truthful, Agreement
<1>6. CASE /\ ~conn.on /\ cand = NoCand
           /\ cand' = [NoCand EXCEPT !.op = job.op, !.only = TRUE, !.res = "dirty",
                                     !.task = "cleaning", !.eff = mem.restore.repair]
           /\ Goto("reclaiming") /\ UNCHANGED <<record, ctx, conn, failed, driver>>
  <2>1. /\ cand'.op = job.op /\ cand'.only /\ ~cand'.started /\ cand'.task = "cleaning"
        /\ cand'.res = "dirty" /\ ~Live(cand')
    BY <1>6 DEF NoCand, Live
  <2>2. UNCHANGED record /\ conn' = conn /\ failed' = failed
    BY <1>6
  <2>3. Eases
    BY <1>1, <2>1, <2>2 DEF Eases, Marked
  <2>4. CandidateFits(cand', conn', failed')
    BY <1>2, <1>6, <2>1, <2>2 DEF CandidateFits
  <2>5. Fitting' /\ RollsBackTruly
    BY <1>0, <2>2, <2>3, <2>4, EasedStep
  <2> QED
    BY <1>3, <1>6, <2>2, <2>5 DEF Truthful, Agreement
<1> QED
  BY <1>4, <1>5, <1>6 DEF Reclaim

\* The answer of a cleanup after a restart.
LEMMA ReclaimedAgrees ==
    ASSUME Inv, Agreement, Reclaimed
    PROVE  Truthful
<1>0. Fitting /\ JobFits /\ CandidateFits(cand, conn, failed)
  BY DEF Agreement, Fitting
<1>1. job.pc = "reclaiming" /\ cand.only /\ touched' = touched
  BY DEF Reclaimed, Inv, ReclaimInv
<1>2. job.op # Nobody /\ mem.restore.op = job.op /\ job.pc \in Working
  BY <1>0, <1>1 DEF JobFits, Working
<1>3. CASE EndPending /\ UNCHANGED backend
  BY <1>0, <1>1, <1>3, StillFits, EndFits DEF EndPending, Truthful, Agreement
<1>4. CASE /\ failed' = [op |-> job.op, kind |-> cand.res]
           /\ cand' = NoCand /\ AfterFailure("rolled", FALSE) /\ UNCHANGED conn
  <2>1. ~conn.on /\ failed'.op = job.op
    BY <1>0, <1>1, <1>4 DEF CandidateFits, NoCand
  <2>2. ~Live(cand') /\ Steady(failed')
    BY <1>2, <1>4, <2>1 DEF NoCand, Live, Steady
  <2>3. JobFits' /\ UNCHANGED record
    BY <1>0, <1>2, <1>4, <2>1, <2>2, FailureFits
  <2>4. Fitting' /\ RollsBackTruly
    BY <1>0, <1>1, <1>4, <2>1, <2>2, <2>3, ForgottenStep
  <2> QED
    BY <2>3, <2>4 DEF Truthful, Agreement
<1> QED
  BY <1>3, <1>4 DEF Reclaimed

\* The activation of a committed candidate begins.
LEMMA ConnectAgrees ==
    ASSUME Inv, Agreement, Connect
    PROVE  Truthful
<1>0. /\ Fitting /\ JobFits /\ CandidateFits(cand, conn, failed) /\ cand \in Candidates
      /\ Sound(mem) /\ Fits(mem, cand, conn, touched)
  BY DEF Agreement, Fitting, RecordsFit, Records, Inv, BackendInv
<1>1. job.pc = "connect" /\ UNCHANGED <<conn, failed, touched>>
  BY DEF Connect
<1>2. mem.restore.commit /\ ~flagged /\ job.who # "delete"
  BY <1>0, <1>1 DEF JobFits
<1>3. CASE EndPending /\ UNCHANGED cand
  BY <1>0, <1>1, <1>3, StillFits, EndFits DEF EndPending, backend, Truthful, Agreement
<1>4. CASE cand = NoCand /\ Goto("publish") /\ UNCHANGED <<record, ctx, cand, driver>>
  <2>1. job'.pc = "publish" /\ job'.who = job.who /\ ~Live(cand')
    BY <1>4, GoOn DEF Pcs, Live, NoCand
  <2>2. JobFits'
    BY <1>2, <2>1 DEF JobFits, Working, Early, Quiet
  <2> QED
    BY <1>0, <1>1, <1>4, <2>2, StillFits DEF backend, Truthful, Agreement
<1>5. CASE /\ cand.op = job.op /\ ~cand.only /\ Goto("connecting")
           /\ UNCHANGED <<record, ctx, driver>>
           /\ cand' = IF cand.res = "ready"
                      THEN [cand EXCEPT !.started = TRUE, !.task = "activating"] ELSE cand
  <2>1. JobFits'
    <3>1. job'.pc = "connecting" /\ job'.who = job.who
      BY <1>5, GoOn DEF Pcs
    <3> QED
      BY <1>2, <3>1 DEF JobFits, Working, Early, Quiet
  <2>2. CASE cand.res # "ready"
    BY <1>0, <1>1, <1>5, <2>1, <2>2, StillFits DEF backend, Truthful, Agreement
  <2>3. CASE cand.res = "ready"
    <3>1. /\ cand'.op = cand.op /\ ~cand'.only /\ cand'.started /\ cand'.task = "activating"
      BY <1>0, <1>5, <2>3 DEF Candidates
    <3>2. Live(cand) /\ Live(cand') /\ cand.op # Nobody
      BY <1>0, <1>5, <2>3, <3>1 DEF CandidateFits, NoCand, Live
    <3>3. disk = mem /\ old = {} /\ Records = {mem}
      BY <1>0, <1>2, <3>2, OneRecord
    <3>4. UNCHANGED <<mem, disk, old, flagged>> /\ Records' = {mem}
      BY <1>5, <3>3 DEF record, Records
    <3>5. Fits(mem, cand', conn', touched')
      BY <1>0, <1>1, <1>2, <3>1, <3>2 DEF Fits, RollbackAllowed
    <3>6. RecordsFit'
      BY <1>0, <3>4, <3>5 DEF RecordsFit
    <3>7. HistoryFits' /\ RollsBackTruly
      BY <1>0, <1>1, <3>3, <3>4 DEF Fitting, HistoryFits, Denies, RollsBackTruly
    <3>8. Steady(failed)' /\ CandidateFits(cand, conn, failed)'
      BY <1>0, <1>1, <3>1, <3>2, <3>3, <3>4 DEF Steady, CandidateFits
    <3> QED
      BY <2>1, <3>6, <3>7, <3>8 DEF Truthful, Agreement, Fitting
  <2> QED
    BY <2>2, <2>3
<1> QED
  BY <1>3, <1>4, <1>5 DEF Connect

\* An activated candidate is registered: every record is committed, so active.
LEMMA RegisteredStep ==
    ASSUME Fitting, cand.res = "active", cand' = NoCand, UNCHANGED <<record, failed, touched>>
    PROVE  Fitting' /\ RollsBackTruly /\ ~Live(cand')
<1>0. RecordsFit /\ HistoryFits /\ Steady(failed) /\ CandidateFits(cand, conn, failed)
  BY DEF Fitting
<1>1. cand.started /\ Live(cand) /\ failed.op = Nobody
  BY <1>0 DEF CandidateFits
<1>2. \A d \in Records : d.status = "active"
  BY <1>0, <1>1 DEF RecordsFit, Fits, Sound
<1>3. /\ ~Live(cand') /\ ~cand'.started /\ cand'.task = "idle" /\ cand'.res = "none"
      /\ cand'.op = Nobody /\ Marked(cand', touched') \subseteq Marked(cand, touched)
  BY DEF NoCand, Live, Marked
<1>4. UNCHANGED <<mem, disk, old, flagged>> /\ Records' = Records /\ touched' = touched
      /\ failed' = failed
  BY DEF record, Records
<1>5. RecordsFit'
  BY <1>0, <1>2, <1>3, <1>4 DEF RecordsFit, Fits
<1>6. HistoryFits' /\ RollsBackTruly
  BY <1>0, <1>3, <1>4 DEF HistoryFits, Denies, RollsBackTruly
<1>7. Steady(failed)' /\ CandidateFits(cand, conn, failed)'
  BY <1>0, <1>1, <1>3, <1>4 DEF Steady, CandidateFits
<1> QED
  BY <1>3, <1>5, <1>6, <1>7 DEF Fitting

\* The answer of an activation.
LEMMA ConnectingAgrees ==
    ASSUME Inv, Agreement, Connecting
    PROVE  Truthful
<1>0. Fitting /\ JobFits
  BY DEF Agreement
<1>1. job.pc = "connecting" /\ UNCHANGED <<failed, touched>>
  BY DEF Connecting
<1>2. CASE cand.res # "active"
  BY <1>0, <1>1, <1>2, StillFits, EndFits DEF Connecting, EndPending, backend, Truthful, Agreement
<1>3. CASE cand.res = "active"
  <2>1. cand' = NoCand /\ (EndPending \/ (Goto("publish") /\ UNCHANGED <<record, ctx, driver>>))
    BY <1>3 DEF Connecting
  <2>2. UNCHANGED <<record, failed, touched>> /\ UNCHANGED record
    BY <1>1, <2>1 DEF EndPending
  <2>3. Fitting' /\ RollsBackTruly /\ ~Live(cand')
    BY <1>0, <1>3, <2>1, <2>2, RegisteredStep
  <2>4. JobFits'
    <3>1. CASE EndPending
      BY <3>1, EndFits
    <3>2. CASE Goto("publish")
      <4>1. job'.pc = "publish" /\ job'.who = job.who
        BY <2>2, <3>2, GoOn DEF Pcs
      <4> QED
        BY <1>0, <1>1, <2>3, <4>1 DEF JobFits, Working, Early, Quiet
    <3> QED
      BY <2>1, <3>1, <3>2
  <2> QED
    BY <2>3, <2>4 DEF Truthful, Agreement
<1> QED
  BY <1>2, <1>3

\* A discard begins.
LEMMA DiscardAgrees ==
    ASSUME Inv, Agreement, Discard
    PROVE  Truthful
<1>0. /\ Fitting /\ JobFits /\ CandidateFits(cand, conn, failed) /\ cand \in Candidates
  BY DEF Agreement, Fitting, Inv, BackendInv
<1>1. job.pc = "discard" /\ UNCHANGED <<conn, failed, touched>>
  BY DEF Discard
<1>2. job.op # Nobody /\ mem.restore.op = job.op /\ job.who # "delete"
  BY <1>0, <1>1 DEF JobFits, Working
<1>3. CASE DiscardFails /\ UNCHANGED cand
  BY <1>0, <1>1, <1>3, StillFits, EndFits DEF DiscardFails, backend, Truthful, Agreement
<1>4. CASE /\ cand.op = job.op /\ ~cand.only /\ cand.task = "idle"
           /\ cand' \in {cand, [cand EXCEPT !.disc = "run", !.task = "discarding"]}
           /\ Goto("discarding") /\ UNCHANGED <<record, ctx, driver>>
  <2>1. /\ cand'.op = cand.op /\ cand'.only = cand.only /\ cand'.started = cand.started
        /\ cand'.task \in {"idle", "discarding"} /\ cand'.res = cand.res
    BY <1>0, <1>4 DEF Candidates
  <2>2. Live(cand) /\ cand.op # Nobody /\ (cand.res = "active" => cand.started)
    BY <1>0, <1>2, <1>4 DEF Live, CandidateFits
  <2>3. touched' \subseteq Marked(cand, touched) /\ UNCHANGED <<record, conn, failed>> /\ UNCHANGED record
    BY <1>1, <1>4 DEF Marked
  <2>4. Fitting' /\ RollsBackTruly
    BY <1>0, <2>1, <2>2, <2>3, AdjustedStep
  <2>5. job'.pc = "discarding" /\ job'.op = job.op /\ job'.who = job.who /\ mem' = mem
    BY <1>4, <2>3, GoOn DEF Pcs
  <2>6. JobFits'
    BY <1>2, <2>5 DEF JobFits, Working, Early, Quiet
  <2> QED
    BY <2>4, <2>6 DEF Truthful, Agreement
<1> QED
  BY <1>3, <1>4 DEF Discard

\* The answer of a discard.
LEMMA DiscardingAgrees ==
    ASSUME Inv, Agreement, Discarding
    PROVE  Truthful
<1>0. /\ Fitting /\ JobFits /\ CandidateFits(cand, conn, failed) /\ cand \in Candidates
  BY DEF Agreement, Fitting, Inv, BackendInv
<1>1. job.pc = "discarding" /\ cand.task = "idle" /\ UNCHANGED <<conn, touched>>
  BY DEF Discarding
<1>2. job.op # Nobody /\ mem.restore.op = job.op /\ job.who # "delete"
  BY <1>0, <1>1 DEF JobFits, Working
<1>3. CASE /\ cand.disc = "ok" /\ failed' = [op |-> job.op, kind |-> cand.res] /\ cand' = NoCand
           /\ Goto(IF job.direct THEN "rollback" ELSE "retract") /\ UNCHANGED <<record, driver>>
  <2>1. ~conn.on /\ failed'.op = job.op
    BY <1>0, <1>3 DEF CandidateFits, NoCand
  <2>2. Steady(failed')
    BY <1>2, <2>1 DEF Steady
  <2>3. Fitting' /\ RollsBackTruly /\ ~Live(cand')
    BY <1>0, <1>1, <1>3, <2>1, <2>2, ForgottenStep
  <2>4. /\ job'.pc \in {"rollback", "retract"} /\ job'.op = job.op /\ job'.who = job.who
        /\ mem' = mem
    BY <1>3, GoOn DEF Pcs
  <2>5. JobFits'
    BY <1>2, <2>1, <2>3, <2>4 DEF JobFits, Working, Early, Quiet
  <2> QED
    BY <2>3, <2>5 DEF Truthful, Agreement
<1>4. CASE /\ cand' = IF cand.disc = "err" THEN [cand EXCEPT !.disc = "seen"] ELSE cand
           /\ DiscardFails /\ UNCHANGED failed
  <2>0. JobFits' /\ UNCHANGED record
    BY <1>4, EndFits DEF DiscardFails
  <2>1. CASE cand.disc # "err"
    BY <1>0, <1>1, <1>4, <2>0, <2>1, StillFits DEF backend, Truthful, Agreement
  <2>2. CASE cand.disc = "err"
    <3>1. /\ cand'.op = cand.op /\ cand'.only = cand.only /\ cand'.started = cand.started
          /\ cand'.task = "idle" /\ cand'.res = cand.res
      BY <1>0, <1>1, <1>4, <2>2 DEF Candidates
    <3>2. cand.op # Nobody /\ (cand.res = "active" => cand.started)
      BY <1>0, <2>2 DEF CandidateFits, NoCand
    <3>3. touched' \subseteq Marked(cand, touched) /\ UNCHANGED <<record, conn, failed>>
      BY <1>1, <1>4, <2>0 DEF Marked
    <3>4. Fitting' /\ RollsBackTruly
      BY <1>0, <3>1, <3>2, <3>3, AdjustedStep
    <3> QED
      BY <2>0, <3>4 DEF Truthful, Agreement
  <2> QED
    BY <2>1, <2>2
<1> QED
  BY <1>3, <1>4 DEF Discarding

\* A stop, up to the answer about the candidate.
LEMMA StopCandidateAgrees ==
    ASSUME Inv, Agreement, StopCandidate
    PROVE  Truthful
<1>0. /\ Fitting /\ JobFits /\ CandidateFits(cand, conn, failed) /\ cand \in Candidates
      /\ Steady(failed)
  BY DEF Agreement, Fitting, Inv, BackendInv
<1>1. job.pc \in {"stop", "stopjoin", "dropping"} /\ UNCHANGED <<failed, touched>>
  BY DEF StopCandidate
<1>2. ASSUME NEW pc \in {"close", "stopjoin", "dropping"}, Goto(pc), UNCHANGED record,
             IF pc = "close" THEN ~Live(cand') ELSE cand'.op # Nobody
      PROVE  JobFits'
  <2>1. job'.pc = pc /\ job'.op = job.op /\ job'.who = job.who /\ mem' = mem
    BY <1>2, GoOn DEF Pcs
  <2>2. PendingRestore(mem') = PendingRestore(mem)
    BY <2>1
  <2> QED
    BY <1>0, <1>1, <1>2, <2>1, <2>2 DEF JobFits, Working, Early, Quiet
<1>3. ASSUME UNCHANGED <<record, conn>>, cand.op # Nobody, cand'.op = cand.op,
             cand'.only = cand.only, cand'.started = cand.started, cand'.res = cand.res,
             cand'.task \in {cand.task, "cleaning", "dropping"}
      PROVE  Fitting' /\ RollsBackTruly
  <2>1. touched' \subseteq Marked(cand, touched) /\ UNCHANGED <<record, conn, failed>>
    BY <1>1, <1>3 DEF Marked
  <2>2. (cand'.task \in {"preparing", "discarding"} => Live(cand)) /\ (cand'.res = "active" => cand.started)
    BY <1>0, <1>3 DEF CandidateFits
  <2>3. cand'.task \in {"repairing", "activating"} => cand'.task = cand.task
    BY <1>3
  <2> QED
    BY <1>0, <1>3, <2>1, <2>2, <2>3, AdjustedStep
<1>4. CASE job.pc = "stop" /\ cand = NoCand /\ Goto("close") /\ UNCHANGED <<record, cand, conn, driver>>
  <2>1. ~Live(cand') /\ UNCHANGED record /\ UNCHANGED <<record, backend, touched>>
    BY <1>1, <1>4 DEF NoCand, Live, backend
  <2>2. JobFits'
    BY <1>2, <1>4, <2>1
  <2> QED
    BY <1>0, <2>1, <2>2, StillFits DEF Truthful, Agreement
<1>5. CASE /\ cand # NoCand /\ UNCHANGED <<record, conn, driver>>
           /\ cand' \in {cand, [cand EXCEPT !.task = "cleaning"],
                         [cand EXCEPT !.disc = "run", !.task = "dropping"]}
           /\ Goto("stopjoin") \/ Goto("dropping")
  <2>0. "stopjoin" # "close" /\ "dropping" # "close"
    OBVIOUS
  <2>1. /\ cand'.op = cand.op /\ cand'.only = cand.only /\ cand'.started = cand.started
        /\ cand'.res = cand.res /\ cand'.task \in {cand.task, "cleaning", "dropping"}
    BY <1>0, <1>5 DEF Candidates
  <2>2. cand.op # Nobody
    BY <1>0, <1>5 DEF CandidateFits
  <2>3. Fitting' /\ RollsBackTruly
    BY <1>3, <1>5, <2>1, <2>2
  <2>4. UNCHANGED record
    BY <1>5
  <2>5. JobFits'
    BY <1>2, <1>5, <2>0, <2>1, <2>2, <2>4
  <2> QED
    BY <2>3, <2>5 DEF Truthful, Agreement
<1>6. CASE StopFails /\ UNCHANGED <<cand, conn>>
  BY <1>0, <1>1, <1>6, StillFits, EndFits DEF StopFails, backend, Truthful, Agreement
<1>7. CASE /\ cand.started /\ cand' = NoCand /\ Goto("close") /\ UNCHANGED <<record, driver>>
           /\ cand.res # "active" => conn' = conn
  <2>0. UNCHANGED <<record, failed, touched>> /\ UNCHANGED <<record, touched>> /\ UNCHANGED record
        /\ failed' = failed
    BY <1>1, <1>7
  <2>1. CASE cand.res = "active"
    BY <1>0, <1>2, <1>7, <2>0, <2>1, RegisteredStep DEF Truthful, Agreement
  <2>2. CASE cand.res # "active"
    <3>1. conn.on => failed'.op = Nobody
      BY <1>0, <2>0 DEF CandidateFits
    <3>2. Fitting' /\ RollsBackTruly /\ ~Live(cand')
      BY <1>0, <1>7, <2>0, <2>2, <3>1, ForgottenStep
    <3> QED
      BY <1>2, <1>7, <2>0, <3>2 DEF Truthful, Agreement
  <2> QED
    BY <2>1, <2>2
<1>8. CASE cand' = NoCand /\ Goto("close") /\ UNCHANGED <<record, driver>> /\ UNCHANGED conn
  <2>0. UNCHANGED <<record, touched>> /\ UNCHANGED record /\ failed' = failed
    BY <1>1, <1>8
  <2>1. conn.on => failed'.op = Nobody
    BY <1>0, <2>0 DEF CandidateFits
  <2>2. Fitting' /\ RollsBackTruly /\ ~Live(cand')
    BY <1>0, <1>8, <2>0, <2>1, ForgottenStep
  <2> QED
    BY <1>2, <1>8, <2>0, <2>2 DEF Truthful, Agreement
<1>9. CASE cand.disc # "ok" /\ cand' = [cand EXCEPT !.disc = "seen"] /\ StopFails /\ UNCHANGED conn
           /\ job.pc = "dropping"
  <2>0. JobFits' /\ UNCHANGED record
    BY <1>9, EndFits DEF StopFails
  <2>1. /\ cand'.op = cand.op /\ cand'.only = cand.only /\ cand'.started = cand.started
        /\ cand'.res = cand.res /\ cand'.task = cand.task
    BY <1>0, <1>9 DEF Candidates
  <2>2. cand.op # Nobody
    BY <1>0, <1>9 DEF JobFits
  <2>3. Fitting' /\ RollsBackTruly
    BY <1>3, <1>9, <2>0, <2>1, <2>2
  <2> QED
    BY <2>0, <2>3 DEF Truthful, Agreement
<1>10. job.pc \in {"stopjoin", "dropping"} => cand # NoCand
  BY <1>0 DEF JobFits, NoCand
<1> QED
  BY <1>4, <1>5, <1>6, <1>7, <1>8, <1>9, <1>10 DEF StopCandidate

\* The execution is closed, or stays and is closing.
LEMMA CloseAgrees ==
    ASSUME Inv, Agreement, Close
    PROVE  Truthful
<1>0. /\ Fitting /\ JobFits /\ CandidateFits(cand, conn, failed) /\ conn \in Executions
      /\ Steady(failed)
  BY DEF Agreement, Fitting, Inv, BackendInv
<1>1. /\ job.pc = "close" /\ UNCHANGED <<cand, failed, touched>> /\ cand' = cand /\ failed' = failed
      /\ UNCHANGED record
  BY DEF Close, StopFails
<1>2. conn'.on => conn.on
  BY <1>0 DEF Close, NoConn, Executions
<1>3. Eases /\ CandidateFits(cand', conn', failed')
  BY <1>0, <1>1, <1>2 DEF Eases, CandidateFits
<1>4. Fitting' /\ RollsBackTruly
  BY <1>0, <1>1, <1>3, EasedStep
<1>5. JobFits'
  <2>1. CASE StopFails
    BY <2>1, EndFits
  <2>2. CASE conn' = NoConn /\ Goto(IF job.who = "delete" THEN "erase" ELSE "stopped")
    <3>1. /\ job'.pc = IF job.who = "delete" THEN "erase" ELSE "stopped"
          /\ job'.who = job.who /\ mem' = mem
      BY <1>1, <2>2, GoOn DEF Pcs
    <3>2. ~conn'.on /\ ~Live(cand') /\ PendingRestore(mem') = PendingRestore(mem)
      BY <1>0, <1>1, <2>2, <3>1 DEF NoConn, JobFits, Quiet
    <3> QED
      BY <1>0, <1>1, <3>1, <3>2 DEF JobFits, Working, Early, Quiet
  <2> QED
    BY <2>1, <2>2 DEF Close
<1> QED
  BY <1>4, <1>5 DEF Truthful, Agreement

-----------------------------------------------------------------------------
\* The agreement is invariant.

LEMMA InitAgrees == Init => Agreement
<1> SUFFICES ASSUME Init PROVE Agreement
  OBVIOUS
<1>1. /\ mem.status = "active" /\ mem.restore = NoRestore /\ mem.active = Nobody
      /\ disk = mem /\ old = {} /\ cand = NoCand /\ failed = NoFailure /\ job = NoJob
      /\ touched = {}
  BY DEF Init
<1>2. /\ ~Live(cand) /\ ~cand.started /\ cand.task = "idle" /\ cand.res = "none"
      /\ cand.op = Nobody /\ failed.op = Nobody
  BY <1>1 DEF NoCand, Live, NoFailure
<1>3. ~PendingRestore(mem) /\ ~mem.restore.commit /\ mem.restore.op = Nobody
  BY <1>1 DEF NoRestore, PendingRestore
<1>4. Sound(mem) /\ Fits(mem, cand, conn, touched)
  BY <1>1, <1>2, <1>3, NamesAssumption DEF Sound, Fits
<1>5. RecordsFit
  BY <1>1, <1>4 DEF RecordsFit, Records
<1>6. HistoryFits
  BY <1>1 DEF HistoryFits, Denies
<1>7. Steady(failed) /\ CandidateFits(cand, conn, failed)
  BY <1>1, <1>2 DEF Steady, CandidateFits
<1>8. JobFits
  BY <1>1 DEF JobFits, NoJob, Working, Early, Quiet
<1> QED
  BY <1>5, <1>6, <1>7, <1>8 DEF Agreement, Fitting

\* Every step keeps the agreement and denies truly.
LEMMA NextAgrees ==
    ASSUME Inv, Agreement, [Next]_vars
    PROVE  Agreement' /\ (Next => RollsBackTruly)
<1>1. CASE UNCHANGED vars
  BY <1>1, StillFits DEF vars, record, backend, Agreement, JobFits
<1>2. CASE Next
  <2> SUFFICES Truthful
    BY DEF Truthful
  <2>1. ASSUME NEW r \in Restores, NEW c \in BOOLEAN, RestoreAgain(r, c) \/ RestoreAdmit(r, c)
        PROVE  Truthful
    BY <2>1, RestoreRequestAgrees
  <2>2. ASSUME NEW s \in Stops \cup {Nobody}, NEW c \in BOOLEAN,
               StopAgain(s, c) \/ StopAdopt(s, c) \/ StopBegin(s, c)
        PROVE  Truthful
    BY <2>2, StopRequestAgrees
  <2>3. ASSUME NEW s \in Stops \cup {Nobody}, StopNothing(s)
        PROVE  Truthful
    BY <2>3, StopRequestAgrees
  <2>4. CASE Attempt \/ Preflight \/ KnownFailure \/ Publish \/ Delete \/ TimeOut
    BY <2>4, ChoiceAgrees
  <2>5. CASE BeginRestore \/ FinishRestore
    BY <2>5, BeginRestoreAgrees, FinishRestoreAgrees
  <2>6. CASE CallRestore \/ JoinRestore \/ Reclaim \/ Reclaimed
    BY <2>6, CallRestoreAgrees, JoinRestoreAgrees, ReclaimAgrees, ReclaimedAgrees
  <2>7. CASE Commit \/ Connect \/ Connecting
    BY <2>7, CommitAgrees, ConnectAgrees, ConnectingAgrees
  <2>8. CASE Discard \/ Discarding \/ Retract \/ Rollback
    BY <2>8, DiscardAgrees, DiscardingAgrees, RetractAgrees, RollbackAgrees
  <2>9. CASE StopCandidate \/ Close \/ CommitStopped \/ Erase
    BY <2>9, StopCandidateAgrees, CloseAgrees, CommitStoppedAgrees, EraseAgrees
  <2>10. CASE Prepare \/ Repair \/ Activate \/ Clean \/ Drop
    BY <2>10, TaskAgrees
  <2>11. CASE Authorize
    BY <2>11, AuthorizeAgrees
  <2>12. ASSUME NEW o \in Ops, Continuation(o) PROVE Truthful
    BY <2>12, ContinuationAgrees
  <2>13. CASE Reread \/ Restart
    BY <2>13, RereadAgrees, RestartAgrees
  <2> QED
    BY <1>2, <2>1, <2>2, <2>3, <2>4, <2>5, <2>6, <2>7, <2>8, <2>9, <2>10, <2>11, <2>12, <2>13 DEF Next
<1> QED
  BY <1>1, <1>2

\* Memory, every record a crash may leave, the candidate and the execution agree:
\* a live candidate's operation is the begun one of every record, an activation
\* is committed in every record, an execution finds every record active, and an
\* operation that has or may have changed canonical state is marked so in every
\* record in which it is pending.
THEOREM LifecycleAgreement == Spec => []Agreement
<1>1. Inv /\ Agreement /\ [Next]_vars => Agreement'
  BY NextAgrees
<1> QED
  BY <1>1, InitAgrees, LifecycleInvariant, PTL DEF Spec

\* Answers are true and stand: no receipt is ever changed or taken back, and
\* "rejected" or "rolled back" is only answered for a restore whose repair never
\* began and that was never activated, over failed and uncertain writes, crashes
\* and power losses (RestoreGuard::finish, ensure_restore_rollback_allowed).
THEOREM AnswersAlwaysStand == Spec => AnswersStand
<1>1. Inv /\ Agreement /\ [Next]_vars => [KeepsAnswers /\ RollsBackTruly]_vars
  BY NextInv, NextAgrees
<1> QED
  BY <1>1, LifecycleInvariant, LifecycleAgreement, PTL DEF Spec, AnswersStand

\* Stopped means down: no record that a crash could leave says stopped and settled
\* while an execution is open or a candidate is being activated, and a stopped
\* Worker at rest holds nothing but the cleanup of an earlier attempt
\* (commit_stopped_worker, record_restore_failure, finish_restore_receipt).
THEOREM StoppedIsDown == Spec => []StoppedMeansDown
<1>1. Agreement => StoppedMeansDown
  <2> SUFFICES ASSUME Agreement PROVE StoppedMeansDown
    OBVIOUS
  <2>0. RecordsFit /\ CandidateFits(cand, conn, failed)
    BY DEF Agreement, Fitting
  <2>1. ASSUME NEW d \in Records, d.status # "active"
        PROVE  ~conn.on /\ cand.task # "activating"
    BY <2>0, <2>1 DEF RecordsFit, Fits, Sound, CandidateFits
  <2>2. ASSUME Settled(mem) PROVE cand = NoCand \/ cand.only
    BY <2>0, <2>2 DEF RecordsFit, Records, Fits, Started, Settled, CandidateFits, Live
  <2> QED
    BY <2>1, <2>2 DEF StoppedMeansDown, Records
<1> QED
  BY <1>1, LifecycleAgreement, PTL
=============================================================================
