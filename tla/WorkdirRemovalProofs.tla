------------------------ MODULE WorkdirRemovalProofs ------------------------
(***************************************************************************)
(* Proofs about the removal of a Workdir, for any number of requests,       *)
(* Backend processes and attempts.                                          *)
(***************************************************************************)
EXTENDS WorkdirRemoval, TLAPS

-----------------------------------------------------------------------------
\* The inductive invariant.

\* The attempt is claimed and its process has not let go of it.
Works(r) == r.phase \notin {"new", "dead", "idle", "claim"}

\* The phases before the deletion is asked of the Runtime.
Unsent == {"guards", "observe", "delete"}

\* The directory is absent, or was made by a stray request for the creation.
Gone == ~present \/ stray

\* The registry row of a directory is there, unless a stray request for the
\* creation took it.
Listed == reg # "none" \/ Gone

\* What process p may rely on when its record is r: the row it works on is
\* pending and still the one it claimed; it has asked for nothing before its
\* deletion; the guards it read hold until the deletion leaves; and once the
\* deletion was asked for, absence lasts from observation to commit.
Fits(p, r) ==
    /\ r.phase = "claim" => r.op \in Ops
    /\ Works(r) =>
         /\ r.op \in Ops
         /\ Pending(r.op)
         /\ ops[r.op] = r.seen
         /\ r.seen.owner = p
         /\ r.seen.attempt # 0
    /\ r.phase \in Unsent => sent[r.op] = 0
    /\ r.phase \in {"observe", "delete"} => ~Blocked /\ Listed
    /\ r.phase = "commit" /\ sent[r.op] = 1 => Gone

\* What the row of an operation says of the deletion it asked for: none
\* before its first attempt, then at most one, and while the operation is
\* pending after it nothing holds the Workdir and the directory stays listed.
OpOK(o) ==
    /\ ops[o].state = "none" => ops[o].attempt = 0
    /\ ops[o].attempt = 0 => sent[o] = 0
    /\ sent[o] \in {0, 1}
    /\ o \in flight => sent[o] = 1
    /\ Pending(o) /\ sent[o] = 1 => ~Blocked /\ Listed

OnePending == \A o, q \in Ops : Pending(o) /\ Pending(q) => o = q

ProcsFit == \A p \in Procs : Fits(p, proc[p])
OpsOK == \A o \in Ops : OpOK(o)

IInv == TypeOK /\ OnePending /\ ProcsFit /\ OpsOK

-----------------------------------------------------------------------------
\* Records and updates.

LEMMA RestingTyped ==
    ASSUME NEW ph \in Phases
    PROVE  /\ Resting(ph) \in ProcRecord
           /\ Resting(ph).phase = ph /\ ~Resting(ph).recovery
  BY MaxAttemptsAssumption DEF Resting, ProcRecord, OpRecord, NoOp, Prints

\* A process record after an update, and the others.
LEMMA ProcUpdate ==
    ASSUME TypeOK, NEW p \in Procs, NEW r \in ProcRecord, proc' = [proc EXCEPT ![p] = r]
    PROVE  /\ proc' \in [Procs -> ProcRecord]
           /\ proc'[p] = r
           /\ \A q \in Procs : q # p => proc'[q] = proc[q]
  BY DEF TypeOK

\* A step to another phase keeps the operation and the attempt.
LEMMA PhaseUpdate ==
    ASSUME TypeOK, NEW p \in Procs, NEW ph \in Phases, Goto(p, ph)
    PROVE  \E r \in ProcRecord :
              /\ proc' = [proc EXCEPT ![p] = r]
              /\ r.phase = ph /\ r.op = proc[p].op
              /\ r.seen = proc[p].seen /\ r.recovery = proc[p].recovery
<1> DEFINE r == [proc[p] EXCEPT !.phase = ph]
<1>1. proc[p] \in ProcRecord
  BY DEF TypeOK
<1>2. /\ r \in ProcRecord /\ r.phase = ph /\ r.op = proc[p].op
      /\ r.seen = proc[p].seen /\ r.recovery = proc[p].recovery
  BY <1>1 DEF ProcRecord
<1>3. proc' = [proc EXCEPT ![p] = r]
  BY DEF Goto
<1> QED BY <1>2, <1>3

\* Two processes do not work on the same operation.
LEMMA WorkersDiffer ==
    ASSUME IInv, NEW p \in Procs, NEW q \in Procs, p # q, Works(proc[p]), Works(proc[q])
    PROVE  proc[p].op # proc[q].op
  BY DEF IInv, ProcsFit, Fits

-----------------------------------------------------------------------------
\* Steps of a process that write nothing.

LEMMA MoveStep ==
    ASSUME IInv, NEW p \in Procs, NEW r \in ProcRecord, proc' = [proc EXCEPT ![p] = r],
           Fits(p, r), maker' \in [Procs -> Stages],
           UNCHANGED <<dbVars, syncing, runtimeVars, asks, stray, retries>>
    PROVE  IInv'
<1>1. /\ proc' \in [Procs -> ProcRecord] /\ proc'[p] = r
      /\ \A q \in Procs : q # p => proc'[q] = proc[q]
  BY ProcUpdate DEF IInv
<1>2. TypeOK'
  BY <1>1 DEF IInv, TypeOK, dbVars, runtimeVars
<1>3. OnePending'
  BY DEF IInv, OnePending, Pending, dbVars
<1>4. OpsOK'
  BY DEF IInv, OpsOK, OpOK, Pending, Blocked, Listed, Gone, dbVars, runtimeVars
<1>5. ASSUME NEW q \in Procs PROVE Fits(q, proc[q])'
  <2>1. Fits(q, proc'[q])
    BY <1>1 DEF IInv, ProcsFit
  <2> QED BY <2>1 DEF Fits, Works, Pending, Blocked, Listed, Gone, dbVars, runtimeVars
<1> QED BY <1>2, <1>3, <1>4, <1>5 DEF IInv, ProcsFit

LEMMA StillStep ==
    ASSUME IInv, NEW p \in Procs, NEW r \in ProcRecord, proc' = [proc EXCEPT ![p] = r],
           Fits(p, r), UNCHANGED <<dbVars, syncing, runtimeVars, makeVars>>
    PROVE  IInv'
<1>1. /\ maker' \in [Procs -> Stages]
      /\ UNCHANGED <<dbVars, syncing, runtimeVars, asks, stray, retries>>
  BY DEF IInv, TypeOK, makeVars
<1> QED BY <1>1, MoveStep

LEMMA RestFits ==
    ASSUME NEW p \in Procs, NEW ph \in {"new", "dead", "idle"}
    PROVE  Resting(ph) \in ProcRecord /\ Fits(p, Resting(ph))
<1>1. ph \in Phases
  BY DEF Phases
<1> QED BY <1>1, RestingTyped DEF Fits, Works, Unsent

LEMMA StartStep ==
    ASSUME IInv, NEW p \in Procs, Start(p) PROVE IInv'
<1>1. UNCHANGED <<dbVars, syncing, runtimeVars, makeVars>>
  BY DEF Start
<1>2. CASE \E o \in Ops : Pending(o)
  <2>1. PICK o \in Ops : proc' = [proc EXCEPT ![p] = [phase |-> "claim", op |-> o,
                                     seen |-> ops[o], recovery |-> TRUE]]
    BY <1>2 DEF Start
  <2> DEFINE r == [phase |-> "claim", op |-> o, seen |-> ops[o], recovery |-> TRUE]
  <2>2. r \in ProcRecord
    BY DEF IInv, TypeOK, ProcRecord, Phases
  <2>3. Fits(p, r)
    BY DEF Fits, Works, Unsent
  <2> QED BY <1>1, <2>1, <2>2, <2>3, StillStep
<1>3. CASE ~\E o \in Ops : Pending(o)
  BY <1>1, <1>3, RestFits, StillStep DEF Start, Rest
<1> QED BY <1>2, <1>3

LEMMA RestStep ==
    ASSUME IInv, NEW p \in Procs, NEW ph \in {"dead", "idle"}, Rest(p, ph),
           UNCHANGED <<dbVars, syncing, runtimeVars, makeVars>>
    PROVE  IInv'
  BY RestFits, StillStep DEF Rest

LEMMA CrashStep ==
    ASSUME IInv, NEW p \in Procs, Crash(p) PROVE IInv'
<1>1. maker' \in [Procs -> Stages]
  BY DEF Crash, IInv, TypeOK, Stages
<1> QED BY <1>1, RestFits, MoveStep DEF Crash, Rest

LEMMA ClaimRefusedStep ==
    ASSUME IInv, NEW p \in Procs, ClaimRefused(p) PROVE IInv'
  BY RestStep DEF ClaimRefused

\* A step of a working process to its next phase.
LEMMA GotoStep ==
    ASSUME IInv, NEW p \in Procs, NEW ph \in {"observe", "delete", "commit"}, Goto(p, ph),
           UNCHANGED <<dbVars, syncing, runtimeVars, makeVars>>,
           Works(proc[p]),
           ph \in {"observe", "delete"} => /\ sent[proc[p].op] = 0
                                           /\ ~Blocked /\ Listed,
           ph = "commit" /\ sent[proc[p].op] = 1 => Gone
    PROVE  IInv'
<1>1. ph \in Phases
  BY DEF Phases
<1>2. PICK r \in ProcRecord :
              /\ proc' = [proc EXCEPT ![p] = r]
              /\ r.phase = ph /\ r.op = proc[p].op
              /\ r.seen = proc[p].seen
  BY <1>1, PhaseUpdate DEF IInv
<1>3. Fits(p, r)
  BY <1>2 DEF IInv, ProcsFit, Fits, Works, Unsent
<1> QED BY <1>2, <1>3, StillStep

-----------------------------------------------------------------------------
\* Steps that settle the operation.

\* The row after the end of an attempt.
LEMMA EndedRow ==
    ASSUME NEW row \in OpRecord, NEW state \in Terminal \cup {"pending"}
    PROVE  /\ Ended(row, state) \in OpRecord
           /\ Ended(row, state).state = state
           /\ Ended(row, state).attempt = row.attempt
           /\ Ended(row, state).print = row.print
  BY DEF Ended, OpRecord

\* A working process ends its attempt: the row leaves "pending", or keeps it
\* without an owner, and nothing else depends on the attempt.
LEMMA EndStep ==
    ASSUME IInv, NEW p \in Procs, Works(proc[p]), NEW state \in Terminal \cup {"pending"},
           ops' = [ops EXCEPT ![proc[p].op] = Ended(@, state)],
           Rest(p, "idle"), reg' = reg \/ (reg' = "none" /\ state = "removed"),
           UNCHANGED <<att, create, tick, syncing, runtimeVars, makeVars>>
    PROVE  IInv'
<1> DEFINE o == proc[p].op
           row == Ended(ops[o], state)
<1>1. /\ o \in Ops /\ Pending(o) /\ ops[o].attempt # 0
  BY DEF IInv, ProcsFit, Fits
<1>2. ops[o] \in OpRecord
  BY <1>1 DEF IInv, TypeOK
<1>3. /\ row \in OpRecord /\ row.state = state /\ row.attempt = ops[o].attempt
  BY <1>2, EndedRow
<1>4. ops' = [ops EXCEPT ![o] = row]
  OBVIOUS
<1> HIDE DEF row
<1>5. /\ ops' \in [Ops -> OpRecord] /\ ops'[o] = row
      /\ \A q \in Ops : q # o => ops'[q] = ops[q]
  BY <1>1, <1>3, <1>4 DEF IInv, TypeOK
<1>6. Resting("idle") \in ProcRecord /\ Resting("idle").phase = "idle"
  BY RestingTyped DEF Phases
<1>7. /\ proc' \in [Procs -> ProcRecord] /\ proc'[p] = Resting("idle")
      /\ \A q \in Procs : q # p => proc'[q] = proc[q]
  BY <1>6, ProcUpdate DEF IInv, Rest
<1>8. TypeOK'
  BY <1>5, <1>7 DEF IInv, TypeOK, runtimeVars, makeVars
<1>9. \A q \in Ops : Pending(q)' => Pending(q)
  BY <1>1, <1>5 DEF Pending
<1>10. OnePending'
  BY <1>9 DEF IInv, OnePending
<1>11. \A q \in Ops : state # "pending" => ~Pending(q)'
  BY <1>1, <1>3, <1>5 DEF IInv, OnePending, Pending
<1>12. reg' # reg => \A q \in Ops : ~Pending(q)'
  BY <1>11
<1>13. ASSUME NEW q \in Ops PROVE OpOK(q)'
  <2>1. OpOK(q)
    BY DEF IInv, OpsOK
  <2>2. ops'[q].attempt = ops[q].attempt /\ (ops'[q].state = "none" => ops[q].state = "none")
    BY <1>1, <1>3, <1>5 DEF Terminal
  <2> QED BY <2>1, <2>2, <1>9, <1>12 DEF OpOK, Blocked, Listed, Gone, runtimeVars, makeVars
<1>14. ASSUME NEW q \in Procs PROVE Fits(q, proc[q])'
  <2>1. CASE q = p
    BY <2>1, <1>6, <1>7 DEF Fits, Works, Unsent
  <2>2. CASE q # p /\ ~Works(proc[q])
    BY <2>2, <1>7 DEF IInv, ProcsFit, Fits, Works, Unsent
  <2>3. CASE q # p /\ Works(proc[q])
    <3>1. proc[q].op # o
      BY <2>3, WorkersDiffer
    <3>2. FALSE
      BY <3>1, <2>3, <1>1 DEF IInv, OnePending, ProcsFit, Fits
    <3> QED BY <3>2
  <2> QED BY <2>1, <2>2, <2>3
<1> QED BY <1>8, <1>10, <1>13, <1>14 DEF IInv, ProcsFit, OpsOK

\* fail_, complete_retained and record_unknown by a working process.
LEMMA SettleStep ==
    ASSUME IInv, NEW p \in Procs, Works(proc[p]),
           NEW state \in {"failed", "retained", "pending"}, Settle(p, state)
    PROVE  IInv'
<1>1. Pending(proc[p].op) /\ Matches(p)
  BY DEF IInv, ProcsFit, Fits, Matches
<1>2. state \in Terminal \cup {"pending"}
  BY DEF Terminal
<1>3. /\ ops' = [ops EXCEPT ![proc[p].op] = Ended(@, state)] /\ Rest(p, "idle") /\ reg' = reg
      /\ UNCHANGED <<att, create, tick, syncing, runtimeVars, makeVars>>
  BY <1>1 DEF Settle
<1> QED BY <1>2, <1>3, EndStep

-----------------------------------------------------------------------------
\* The actions of a process.

LEMMA RequestStep ==
    ASSUME IInv, NEW p \in Procs, NEW o \in Ops, Request(p, o) PROVE IInv'
<1> DEFINE row == IF ops[o].state # "none" THEN ops[o]
                  ELSE [NoOp EXCEPT !.state = "pending", !.print = reg]
           r == IF row.state = "pending"
                THEN [phase |-> "claim", op |-> o, seen |-> row, recovery |-> FALSE]
                ELSE proc[p]
<1>1. /\ ops' = [ops EXCEPT ![o] = row] /\ proc' = [proc EXCEPT ![p] = r]
      /\ Idle(p)
      /\ ops[o].state # "none" \/ (reg # "none" /\ \A q \in Ops : ~Pending(q))
      /\ UNCHANGED <<reg, att, create, tick, syncing, runtimeVars, makeVars>>
  BY DEF Request
<1>2. ops[o] \in OpRecord /\ proc[p] \in ProcRecord
  BY DEF IInv, TypeOK
<1>3. row \in OpRecord
  <2>1. CASE ops[o].state # "none"
    BY <2>1, <1>2
  <2>2. CASE ops[o].state = "none"
    <3>1. reg \in Prints /\ 0 \in 0..MaxAttempts
      BY <2>2, <1>1, MaxAttemptsAssumption DEF IInv, TypeOK
    <3>2. row = [state |-> "pending", attempt |-> 0, owner |-> Nobody, print |-> reg]
      BY <2>2 DEF NoOp
    <3> HIDE DEF row
    <3> QED BY <3>1, <3>2 DEF OpRecord
  <2> QED BY <2>1, <2>2
<1>4. ops[o].state = "none" => row.state = "pending" /\ row.attempt = 0
  BY DEF NoOp
<1>5. ops[o].state # "none" => row = ops[o]
  OBVIOUS
<1> HIDE DEF row
<1>6. r \in ProcRecord /\ (r = proc[p] \/ (r.phase = "claim" /\ r.op = o))
  BY <1>2, <1>3 DEF ProcRecord, Phases
<1> HIDE DEF r
<1>7. /\ ops' \in [Ops -> OpRecord] /\ ops'[o] = row
      /\ \A q \in Ops : q # o => ops'[q] = ops[q]
  BY <1>1, <1>3 DEF IInv, TypeOK
<1>8. /\ proc' \in [Procs -> ProcRecord] /\ proc'[p] = r
      /\ \A q \in Procs : q # p => proc'[q] = proc[q]
  BY <1>1, <1>6, ProcUpdate DEF IInv
<1>9. TypeOK'
  BY <1>1, <1>7, <1>8 DEF IInv, TypeOK, runtimeVars, makeVars
<1>10. CASE ops[o].state # "none"
  <2>1. ops' = ops
    BY <1>1, <1>5, <1>10 DEF IInv, TypeOK
  <2>2. Fits(p, r)
    BY <1>6 DEF IInv, ProcsFit, Fits, Works, Unsent
  <2> QED BY <1>1, <1>6, <2>1, <2>2, StillStep DEF dbVars
<1>11. CASE ops[o].state = "none"
  <2>1. \A q \in Ops : ~Pending(q)
    BY <1>1, <1>11
  <2>2. OnePending'
    BY <2>1, <1>7 DEF OnePending, Pending
  <2>3. ASSUME NEW q \in Ops PROVE OpOK(q)'
    BY <2>1, <1>1, <1>4, <1>7, <1>11 DEF IInv, OpsOK, OpOK, Pending, Blocked, runtimeVars
  <2>4. ASSUME NEW q \in Procs PROVE Fits(q, proc[q])'
    <3>1. ~Works(proc[q])
      BY <2>1 DEF IInv, ProcsFit, Fits
    <3>2. ~Works(proc'[q]) /\ (proc'[q].phase = "claim" => proc'[q].op \in Ops)
      BY <3>1, <1>6, <1>8 DEF Works, IInv, ProcsFit, Fits
    <3> QED BY <3>2 DEF Fits, Works, Unsent
  <2> QED BY <1>9, <2>2, <2>3, <2>4 DEF IInv, ProcsFit, OpsOK
<1> QED BY <1>10, <1>11

\* Nobody works on a row that may be claimed.
LEMMA ClaimableIsFree ==
    ASSUME IInv, NEW p \in Procs, At(p, "claim"), Claimable(p),
           NEW q \in Procs, Works(proc[q])
    PROVE  proc[q].op # proc[p].op
<1> SUFFICES ASSUME proc[q].op = proc[p].op PROVE FALSE
  OBVIOUS
<1>1. /\ ops[proc[p].op].attempt # 0 /\ ops[proc[p].op].owner = q
  BY DEF IInv, ProcsFit, Fits
<1>2. CASE Begins(p)
  BY <1>1, <1>2 DEF Claimable
<1>3. CASE ~Begins(p)
  <2>1. Orphaned(proc[p].seen) /\ proc[p].seen.owner = q
    BY <1>1, <1>3 DEF Claimable, Matches
  <2>2. proc[q].phase = "dead"
    BY <2>1, NobodyAssumption DEF Orphaned
  <2> QED BY <2>2 DEF Works
<1> QED BY <1>2, <1>3

LEMMA ClaimStep ==
    ASSUME IInv, NEW p \in Procs, Claim(p) PROVE IInv'
<1> DEFINE o == proc[p].op
           row == [ops[o] EXCEPT !.attempt = tick + 1, !.owner = p]
           r == [proc[p] EXCEPT !.phase = Course(p), !.seen = row]
<1>1. /\ At(p, "claim") /\ Pending(o) /\ Claimable(p) /\ tick < MaxAttempts
      /\ tick' = tick + 1 /\ ops' = [ops EXCEPT ![o] = row]
      /\ UNCHANGED <<reg, att, create, syncing, runtimeVars, makeVars>>
  BY DEF Claim
<1>2. proc' = [proc EXCEPT ![p] = r]
  BY DEF Claim
<1>3. o \in Ops
  BY <1>1 DEF At, IInv, ProcsFit, Fits
<1>4. ops[o] \in OpRecord /\ proc[p] \in ProcRecord /\ tick \in 0..MaxAttempts
  BY <1>3 DEF IInv, TypeOK
<1>5. /\ row \in OpRecord /\ row.state = "pending" /\ row.attempt # 0 /\ row.owner = p
      /\ tick + 1 \in 0..MaxAttempts
  <2>1. tick + 1 \in 0..MaxAttempts /\ tick + 1 # 0
    BY <1>1, <1>4, MaxAttemptsAssumption
  <2> QED BY <2>1, <1>1, <1>4 DEF OpRecord, Pending
<1> HIDE DEF row
<1>6. /\ r \in ProcRecord /\ r.phase = Course(p) /\ r.op = o /\ r.seen = row
  BY <1>4, <1>5 DEF ProcRecord, Course, Phases
<1> HIDE DEF r
<1>7. /\ ops' \in [Ops -> OpRecord] /\ ops'[o] = row
      /\ \A q \in Ops : q # o => ops'[q] = ops[q]
  BY <1>1, <1>3, <1>5 DEF IInv, TypeOK
<1>8. /\ proc' \in [Procs -> ProcRecord] /\ proc'[p] = r
      /\ \A q \in Procs : q # p => proc'[q] = proc[q]
  BY <1>2, <1>6, ProcUpdate DEF IInv
<1>9. TypeOK'
  BY <1>1, <1>5, <1>7, <1>8 DEF IInv, TypeOK, runtimeVars, makeVars
<1>10. \A q \in Ops : Pending(q)' <=> Pending(q)
  BY <1>1, <1>5, <1>7 DEF Pending
<1>11. OnePending'
  BY <1>10 DEF IInv, OnePending
<1>12. ASSUME NEW q \in Ops PROVE OpOK(q)'
  BY <1>1, <1>5, <1>7, <1>10
     DEF IInv, OpsOK, OpOK, Blocked, Listed, Gone, runtimeVars, makeVars
<1>13. r.phase \in Unsent => sent[o] = 0
  <2>1. r.phase \in Unsent => Begins(p)
    BY <1>6 DEF Course, Unsent
  <2>2. Begins(p) => ops[o].attempt = 0
    BY <1>1 DEF Claimable
  <2> QED BY <2>1, <2>2, <1>3 DEF IInv, OpsOK, OpOK
<1>14. ASSUME NEW q \in Procs PROVE Fits(q, proc[q])'
  <2>1. CASE q = p
    <3>1. r.phase \in {"guards", "interrupted", "reconcile"}
      BY <1>6 DEF Course
    <3>2. ops'[o] = row /\ sent' = sent
      BY <1>1, <1>7, <1>3 DEF runtimeVars
    <3> QED BY <2>1, <3>1, <3>2, <1>3, <1>5, <1>6, <1>8, <1>13
            DEF Fits, Works, Unsent, Pending
  <2>2. CASE q # p /\ ~Works(proc[q])
    BY <2>2, <1>8 DEF IInv, ProcsFit, Fits, Works, Unsent
  <2>3. CASE q # p /\ Works(proc[q])
    <3>1. proc[q].op # o
      BY <2>3, <1>1, ClaimableIsFree
    <3>2. FALSE
      BY <3>1, <2>3, <1>1, <1>3 DEF IInv, OnePending, ProcsFit, Fits
    <3> QED BY <3>2
  <2> QED BY <2>1, <2>2, <2>3
<1> QED BY <1>9, <1>11, <1>12, <1>14 DEF IInv, ProcsFit, OpsOK

LEMMA InterruptedStep ==
    ASSUME IInv, NEW p \in Procs, Interrupted(p) PROVE IInv'
<1>1. Works(proc[p]) /\ Settle(p, "failed")
  BY DEF Interrupted, At, Works
<1> QED BY <1>1, SettleStep

LEMMA GuardsStep ==
    ASSUME IInv, NEW p \in Procs, Guards(p) PROVE IInv'
<1>1. Works(proc[p]) /\ sent[proc[p].op] = 0 /\ proc[p].op \in Ops
  BY DEF Guards, At, Works, Unsent, IInv, ProcsFit, Fits
<1>2. CASE reg # ops[proc[p].op].print
  BY <1>1, <1>2, SettleStep DEF Guards
<1>3. CASE reg = ops[proc[p].op].print /\ Blocked
  BY <1>1, <1>3, SettleStep DEF Guards
<1>4. CASE reg = ops[proc[p].op].print /\ ~Blocked
  <2>1. reg # "none"
    BY <1>1, <1>4 DEF IInv, TypeOK, OpRecord, Prints
  <2>2. Goto(p, "observe") /\ UNCHANGED <<dbVars, syncing, runtimeVars, makeVars>>
    BY <1>4 DEF Guards
  <2> QED BY <1>1, <1>4, <2>1, <2>2, GotoStep DEF Listed
<1> QED BY <1>2, <1>3, <1>4

LEMMA ObserveStep ==
    ASSUME IInv, NEW p \in Procs, Observe(p) PROVE IInv'
<1>1. /\ Works(proc[p]) /\ sent[proc[p].op] = 0
      /\ ~Blocked /\ Listed
  BY DEF Observe, At, Works, Unsent, IInv, ProcsFit, Fits
<1>2. CASE Settle(p, "failed") \/ Settle(p, "retained")
  BY <1>1, <1>2, SettleStep
<1>3. CASE /\ Goto(p, "commit") \/ Goto(p, "delete")
           /\ UNCHANGED <<dbVars, syncing, runtimeVars, makeVars>>
  BY <1>1, <1>3, GotoStep
<1> QED BY <1>2, <1>3 DEF Observe

\* The deletion leaves: the only step that adds to the deletions asked.
LEMMA SendStep ==
    ASSUME IInv, NEW p \in Procs, At(p, "delete"),
           flight' = flight \cup {proc[p].op},
           sent' = [sent EXCEPT ![proc[p].op] = @ + 1],
           Goto(p, "wait"), UNCHANGED <<dbVars, syncing, present, assigned, makeVars>>
    PROVE  IInv'
<1> DEFINE o == proc[p].op
<1>1. /\ Works(proc[p]) /\ o \in Ops /\ sent[o] = 0 /\ ~Blocked /\ Listed
      /\ Pending(o) /\ ops[o].attempt # 0 /\ ops[o] = proc[p].seen /\ proc[p].seen.owner = p
  BY DEF At, Works, Unsent, IInv, ProcsFit, Fits
<1>2. PICK r \in ProcRecord :
              /\ proc' = [proc EXCEPT ![p] = r]
              /\ r.phase = "wait" /\ r.op = o /\ r.seen = proc[p].seen
  BY PhaseUpdate DEF IInv, Phases
<1>3. /\ proc' \in [Procs -> ProcRecord] /\ proc'[p] = r
      /\ \A q \in Procs : q # p => proc'[q] = proc[q]
  BY <1>2, ProcUpdate DEF IInv
<1>4. /\ sent' \in [Ops -> Nat] /\ sent'[o] = 1
      /\ \A q \in Ops : q # o => sent'[q] = sent[q]
  BY <1>1 DEF IInv, TypeOK
<1>6. TypeOK'
  BY <1>1, <1>3, <1>4 DEF IInv, TypeOK, dbVars, makeVars
<1>7. OnePending'
  BY DEF IInv, OnePending, Pending, dbVars
<1>8. ASSUME NEW q \in Ops PROVE OpOK(q)'
  <2>1. CASE q = o
    BY <2>1, <1>1, <1>4
       DEF IInv, OpsOK, OpOK, Blocked, Listed, Gone, Pending, dbVars, makeVars
  <2>2. CASE q # o
    BY <2>2, <1>4 DEF IInv, OpsOK, OpOK, Blocked, Listed, Gone, Pending, dbVars, makeVars
  <2> QED BY <2>1, <2>2
<1>9. ASSUME NEW q \in Procs PROVE Fits(q, proc[q])'
  <2>1. CASE q = p
    BY <2>1, <1>1, <1>2, <1>3 DEF Fits, Works, Unsent, Pending, dbVars
  <2>2. CASE q # p /\ ~Works(proc[q])
    BY <2>2, <1>3 DEF IInv, ProcsFit, Fits, Works, Unsent
  <2>3. CASE q # p /\ Works(proc[q])
    <3>1. proc[q].op # o
      BY <2>3, <1>1, WorkersDiffer
    <3>2. FALSE
      BY <3>1, <2>3, <1>1 DEF IInv, OnePending, ProcsFit, Fits
    <3> QED BY <3>2
  <2> QED BY <2>1, <2>2, <2>3
<1> QED BY <1>6, <1>7, <1>8, <1>9 DEF IInv, ProcsFit, OpsOK

LEMMA DeleteStep ==
    ASSUME IInv, NEW p \in Procs, Delete(p) PROVE IInv'
<1>1. At(p, "delete") /\ Works(proc[p])
  BY DEF Delete, At, Works
<1>2. CASE Settle(p, "pending")
  BY <1>1, <1>2, SettleStep
<1>3. CASE ~Settle(p, "pending")
  BY <1>1, <1>3, SendStep DEF Delete
<1> QED BY <1>2, <1>3

LEMMA AnswerStep ==
    ASSUME IInv, NEW p \in Procs, Answer(p) PROVE IInv'
<1>1. Works(proc[p]) /\ (Settle(p, "failed") \/ Settle(p, "pending"))
  BY DEF Answer, At, Works
<1> QED BY <1>1, SettleStep

LEMMA NoAnswerStep ==
    ASSUME IInv, NEW p \in Procs, NoAnswer(p) PROVE IInv'
<1>1. Works(proc[p]) /\ Settle(p, "failed")
  BY DEF NoAnswer, At, Works
<1> QED BY <1>1, SettleStep

\* After a deletion was asked for, the directory stays listed: absence is then
\* learnt from the Runtime, never from another operation's success, unless a
\* stray request took the row.
LEMMA ReconcileStep ==
    ASSUME IInv, NEW p \in Procs, Reconcile(p) PROVE IInv'
<1>1. Works(proc[p])
  BY DEF Reconcile, At, Works
<1>2. CASE Settle(p, "failed") \/ Settle(p, "pending")
  BY <1>1, <1>2, SettleStep
<1>3. CASE /\ reg = "none" \/ ~present
           /\ Goto(p, "commit")
           /\ UNCHANGED <<dbVars, syncing, runtimeVars, makeVars>>
  <2>1. proc[p].op \in Ops /\ Pending(proc[p].op)
    BY <1>1 DEF IInv, ProcsFit, Fits
  <2>2. sent[proc[p].op] = 1 => Gone
    BY <1>3, <2>1 DEF IInv, OpsOK, OpOK, Listed, Gone
  <2> QED BY <1>1, <1>3, <2>2, GotoStep
<1> QED BY <1>2, <1>3 DEF Reconcile

LEMMA CommitStep ==
    ASSUME IInv, NEW p \in Procs, Commit(p) PROVE IInv'
<1>1. Works(proc[p]) /\ Rest(p, "idle")
      /\ UNCHANGED <<att, create, tick, syncing, runtimeVars, makeVars>>
  BY DEF Commit, At, Works
<1>2. CASE Pending(proc[p].op) /\ Matches(p) /\ Committable(proc[p].op)
  <2>1. /\ ops' = [ops EXCEPT ![proc[p].op] = Ended(@, "removed")] /\ reg' = "none"
    BY <1>2 DEF Commit
  <2> QED BY <1>1, <2>1, EndStep DEF Terminal
<1>3. CASE ~(Pending(proc[p].op) /\ Matches(p) /\ Committable(proc[p].op))
  <2>1. UNCHANGED <<ops, reg>>
    BY <1>3 DEF Commit
  <2> QED BY <1>1, <2>1, RestStep DEF dbVars
<1> QED BY <1>2, <1>3

-----------------------------------------------------------------------------
\* The others: attachments, creation, observation and the Runtime.

\* The Runtime's answer moves a process that waits for it.
Answered(p) ==
    /\ proc[p].phase = "wait"
    /\ proc'[p].op = proc[p].op /\ proc'[p].seen = proc[p].seen
    /\ \/ proc'[p].phase \in {"wait", "refused", "unconfirmed"}
       \/ proc'[p].phase = "commit" /\ ~present'

\* A step that leaves the operations alone keeps the invariant if nothing is
\* attached or created while a removal is pending, and if nothing takes the
\* registry row or brings the directory back but a creation under way or a
\* stray request.
LEMMA AroundStep ==
    ASSUME IInv, UNCHANGED <<ops, sent, tick>>, TypeOK', flight' \subseteq flight,
           \A p \in Procs : proc'[p] = proc[p] \/ Answered(p),
           Blocked' => Blocked \/ \A o \in Ops : ~Pending(o),
           reg' = "none" => reg = "none" \/ Blocked \/ stray',
           present' => present \/ Blocked \/ stray',
           stray => stray' \/ ~present'
    PROVE  IInv'
<1>0. ~Blocked => (Gone => Gone') /\ (Listed => Listed')
  BY DEF Gone, Listed
<1>1. OnePending'
  BY DEF IInv, OnePending, Pending
<1>2. ASSUME NEW o \in Ops PROVE OpOK(o)'
  BY <1>0 DEF IInv, OpsOK, OpOK, Pending
<1>3. ASSUME NEW p \in Procs PROVE Fits(p, proc[p])'
  <2>1. CASE ~Works(proc[p])
    <3>1. proc'[p] = proc[p]
      BY <2>1 DEF Answered, Works
    <3> QED BY <2>1, <3>1 DEF IInv, ProcsFit, Fits, Works, Unsent
  <2>2. CASE Works(proc[p])
    <3>1. Fits(p, proc[p]) /\ proc[p].op \in Ops /\ Pending(proc[p].op)
      BY <2>2 DEF IInv, ProcsFit, Fits
    <3>2. OpOK(proc[p].op)
      BY <3>1 DEF IInv, OpsOK
    <3>3. Blocked' => Blocked
      BY <3>1
    <3>4. CASE proc'[p] = proc[p]
      BY <1>0, <3>1, <3>2, <3>3, <3>4, <2>2 DEF Fits, OpOK, Works, Unsent, Pending
    <3>5. CASE Answered(p)
      BY <3>1, <3>5, <2>2 DEF Answered, Fits, Works, Unsent, Pending, Gone
    <3> QED BY <3>4, <3>5
  <2> QED BY <2>1, <2>2
<1> QED BY <1>1, <1>2, <1>3 DEF IInv, ProcsFit, OpsOK

LEMMA AttachmentsStep ==
    ASSUME IInv, Attachments PROVE IInv'
<1>1. /\ UNCHANGED <<ops, reg, create, tick, proc, syncing, runtimeVars, makeVars>>
      /\ att' \in {"none", "reserved", "linked"}
      /\ att' # "none" => att # "none" \/ \A o \in Ops : ~Pending(o)
  BY DEF Attachments, ReserveAttachment, FinalizeAttachment, ReleaseReservation, Attach,
         Unlink, AttachFence
<1>2. TypeOK'
  BY <1>1 DEF IInv, TypeOK, runtimeVars, makeVars
<1> QED BY <1>1, <1>2, AroundStep DEF Blocked, runtimeVars, makeVars

LEMMA CreateRetryStep ==
    ASSUME IInv, NEW p \in Procs, CreateRetry(p) PROVE IInv'
<1>1. /\ UNCHANGED <<ops, reg, att, tick, proc, syncing, runtimeVars, asks, stray>>
      /\ create' = "pending" /\ maker' = [maker EXCEPT ![p] = "look"]
      /\ create = "pending" \/ \A o \in Ops : ~Pending(o)
  BY DEF CreateRetry
<1>2. retries' \in 0..MaxRetries
  BY MaxRetriesAssumption DEF IInv, TypeOK, CreateRetry
<1>3. TypeOK'
  BY <1>1, <1>2 DEF IInv, TypeOK, Stages, runtimeVars
<1> QED BY <1>1, <1>3, AroundStep DEF Blocked, runtimeVars, makeVars

LEMMA FinishedTyped ==
    ASSUME TypeOK, NEW state \in {"settled", "failed"}
    PROVE  /\ Finished(state) \in {"settled", "failed", "pending"}
           /\ Finished(state) = "pending" => create = "pending"
  BY DEF Finished, TypeOK

LEMMA CreateUnavailableStep ==
    ASSUME IInv, NEW p \in Procs, CreateUnavailable(p) PROVE IInv'
<1>1. /\ UNCHANGED <<ops, reg, att, tick, proc, syncing, runtimeVars, asks, stray, retries>>
      /\ create' = Finished("failed") /\ maker' = [maker EXCEPT ![p] = "none"]
  BY DEF CreateUnavailable
<1>2. create' \in {"settled", "failed", "pending"} /\ (create' = "pending" => create = "pending")
  BY <1>1, FinishedTyped DEF IInv
<1>3. TypeOK'
  BY <1>1, <1>2 DEF IInv, TypeOK, Stages, runtimeVars
<1> QED BY <1>1, <1>2, <1>3, AroundStep DEF Blocked, runtimeVars, makeVars

LEMMA CreateAskStep ==
    ASSUME IInv, NEW p \in Procs, CreateAsk(p) PROVE IInv'
<1>1. /\ UNCHANGED <<dbVars, proc, syncing, runtimeVars, stray, retries>>
      /\ maker' = [maker EXCEPT ![p] = "record"] \/ maker' = [maker EXCEPT ![p] = "asked"]
      /\ asks' = asks \/ asks' = asks \cup {p}
  BY DEF CreateAsk
<1>2. maker' \in [Procs -> Stages] /\ asks' \subseteq Procs
  BY <1>1 DEF IInv, TypeOK, Stages
<1>3. TypeOK'
  BY <1>1, <1>2 DEF IInv, TypeOK, dbVars, runtimeVars
<1> QED BY <1>1, <1>3, AroundStep DEF Blocked, dbVars, runtimeVars

\* The directory comes back for the creation under way, or as a stray one.
LEMMA CreateExecutesStep ==
    ASSUME IInv, NEW p \in Procs, CreateExecutes(p) PROVE IInv'
<1>1. /\ UNCHANGED <<dbVars, proc, syncing, assigned, flight, sent, retries>>
      /\ asks' = asks \ {p}
  BY DEF CreateExecutes
<1>2. maker' \in [Procs -> Stages]
  BY DEF CreateExecutes, IInv, TypeOK, Stages
<1>3. /\ present' \in BOOLEAN /\ stray' \in BOOLEAN
      /\ stray => stray'
      /\ present' => present \/ create = "pending" \/ stray'
  <2>1. present \in BOOLEAN /\ stray \in BOOLEAN
    BY DEF IInv, TypeOK
  <2>2. CASE present' = present /\ stray' = stray
    BY <2>1, <2>2
  <2>3. CASE present' = TRUE /\ stray' = IF create # "pending" THEN TRUE ELSE stray
    BY <2>1, <2>3
  <2> QED BY <2>2, <2>3 DEF CreateExecutes
<1>4. TypeOK'
  BY <1>1, <1>2, <1>3 DEF IInv, TypeOK, dbVars
<1> QED BY <1>1, <1>3, <1>4, AroundStep DEF Blocked, dbVars

LEMMA CreateSucceedsStep ==
    ASSUME IInv, NEW p \in Procs, CreateSucceeds(p) PROVE IInv'
<1>1. /\ UNCHANGED <<ops, att, tick, proc, syncing, runtimeVars, asks, stray, retries>>
      /\ reg' = "full"
      /\ create' = Finished("settled") /\ maker' = [maker EXCEPT ![p] = "none"]
  BY DEF CreateSucceeds
<1>2. create' \in {"settled", "failed", "pending"} /\ (create' = "pending" => create = "pending")
  BY <1>1, FinishedTyped DEF IInv
<1>3. TypeOK'
  BY <1>1, <1>2 DEF IInv, TypeOK, Stages, Prints, runtimeVars
<1> QED BY <1>1, <1>2, <1>3, AroundStep DEF Blocked, runtimeVars, makeVars

\* The row goes for the creation under way, or by a stray request.
LEMMA CreateFailsStep ==
    ASSUME IInv, NEW p \in Procs, CreateFails(p) PROVE IInv'
<1>1. /\ UNCHANGED <<ops, att, tick, proc, syncing, runtimeVars, asks, retries>>
      /\ reg' = IF att = "none" THEN "none" ELSE reg
      /\ stray' = IF create # "pending" /\ att = "none" THEN TRUE ELSE stray
      /\ create' = Finished("failed") /\ maker' = [maker EXCEPT ![p] = "none"]
  BY DEF CreateFails
<1>2. create' \in {"settled", "failed", "pending"} /\ (create' = "pending" => create = "pending")
  BY <1>1, FinishedTyped DEF IInv
<1>3. /\ stray' \in BOOLEAN /\ (stray => stray') /\ reg' \in {reg, "none"}
      /\ reg' = "none" => reg = "none" \/ create = "pending" \/ stray'
  BY <1>1 DEF IInv, TypeOK
<1>4. TypeOK'
  BY <1>1, <1>2, <1>3 DEF IInv, TypeOK, Stages, runtimeVars
<1> QED BY <1>1, <1>2, <1>3, <1>4, AroundStep DEF Blocked, runtimeVars, makeVars

LEMMA CreationStep ==
    ASSUME IInv, NEW p \in Procs, Creation(p) PROVE IInv'
  BY CreateRetryStep, CreateUnavailableStep, CreateAskStep, CreateExecutesStep,
     CreateSucceedsStep, CreateFailsStep DEF Creation

LEMMA SyncStep ==
    ASSUME IInv, SyncRead \/ SyncWrite PROVE IInv'
<1>1. /\ UNCHANGED <<ops, att, create, tick, proc, runtimeVars, makeVars>>
      /\ syncing' \in BOOLEAN /\ reg' \in {reg, "full"}
  BY DEF SyncRead, SyncWrite, dbVars
<1>2. TypeOK'
  BY <1>1 DEF IInv, TypeOK, Prints, runtimeVars, makeVars
<1> QED BY <1>1, <1>2, AroundStep DEF Blocked, runtimeVars, makeVars

LEMMA AssignStep ==
    ASSUME IInv, Assign \/ Unassign PROVE IInv'
<1>1. /\ UNCHANGED <<dbVars, proc, syncing, present, flight, sent, makeVars>>
      /\ assigned' \in BOOLEAN
  BY DEF Assign, Unassign
<1>2. TypeOK'
  BY <1>1 DEF IInv, TypeOK, dbVars, makeVars
<1> QED BY <1>1, <1>2, AroundStep DEF Blocked, dbVars, makeVars

LEMMA ExecuteStep ==
    ASSUME IInv, NEW o \in Ops, Execute(o) PROVE IInv'
<1>1. PICK answer \in {"refused", "unconfirmed", "commit", "wait"} :
         /\ answer \in {"unconfirmed", "commit"} => ~present'
         /\ proc' = [p \in Procs |-> IF At(p, "wait") /\ proc[p].op = o
                                     THEN [proc[p] EXCEPT !.phase = answer] ELSE proc[p]]
  BY DEF Execute
<1>2. /\ UNCHANGED <<dbVars, syncing, assigned, sent, retries, maker, asks>>
      /\ flight' \subseteq flight
      /\ stray' = IF present' THEN stray ELSE FALSE
  BY DEF Execute
<1>3. present' \in BOOLEAN /\ (present' => present)
  BY DEF Execute, IInv, TypeOK
<1>4. ASSUME NEW p \in Procs
      PROVE  proc'[p] \in ProcRecord /\ (proc'[p] = proc[p] \/ Answered(p))
  <2>1. proc[p] \in ProcRecord /\ answer \in Phases
    BY DEF IInv, TypeOK, Phases
  <2>2. CASE At(p, "wait") /\ proc[p].op = o
    <3>1. proc'[p] = [proc[p] EXCEPT !.phase = answer]
      BY <1>1, <2>2
    <3>2. /\ proc'[p] \in ProcRecord /\ proc'[p].phase = answer
          /\ proc'[p].op = proc[p].op /\ proc'[p].seen = proc[p].seen
      BY <2>1, <3>1 DEF ProcRecord
    <3> QED BY <1>1, <2>2, <3>2 DEF Answered, At
  <2>3. CASE ~(At(p, "wait") /\ proc[p].op = o)
    BY <1>1, <2>1, <2>3
  <2> QED BY <2>2, <2>3
<1>5. proc' \in [Procs -> ProcRecord]
  BY <1>1, <1>4
<1>6. TypeOK'
  BY <1>2, <1>3, <1>5 DEF IInv, TypeOK, dbVars
<1>7. UNCHANGED <<ops, sent, tick>> /\ (Blocked' => Blocked) /\ reg' = reg
  BY <1>2 DEF Blocked, dbVars
<1>8. stray => stray' \/ ~present'
  BY <1>2
<1> QED BY <1>2, <1>3, <1>4, <1>6, <1>7, <1>8, AroundStep

-----------------------------------------------------------------------------
\* The theorems.

LEMMA InitIInv == Init => IInv
<1> SUFFICES ASSUME Init PROVE IInv
  OBVIOUS
<1>1. NoOp \in OpRecord /\ NoOp.state = "none" /\ NoOp.attempt = 0
  BY MaxAttemptsAssumption DEF NoOp, OpRecord, Prints
<1>2. Resting("new") \in ProcRecord /\ Resting("new").phase = "new"
  BY RestingTyped DEF Phases
<1>3. TypeOK
  <2>1. 0 \in 0..MaxAttempts /\ 0 \in 0..MaxRetries
    BY MaxAttemptsAssumption, MaxRetriesAssumption
  <2> QED BY <1>1, <1>2, <2>1 DEF Init, TypeOK, Stages
<1>4. \A o \in Ops : ~Pending(o)
  BY <1>1 DEF Init, Pending
<1>5. ProcsFit
  BY <1>2 DEF Init, ProcsFit, Fits, Works, Unsent
<1>6. OpsOK
  BY <1>1, <1>4 DEF Init, OpsOK, OpOK
<1> QED BY <1>3, <1>4, <1>5, <1>6 DEF IInv, OnePending

LEMMA BackendStep ==
    ASSUME IInv, NEW p \in Procs, Backend(p) PROVE IInv'
  BY StartStep, CrashStep, RequestStep, ClaimStep, ClaimRefusedStep, InterruptedStep,
     GuardsStep, ObserveStep, DeleteStep, AnswerStep, NoAnswerStep, ReconcileStep,
     CommitStep DEF Backend

LEMMA NextIInv == IInv /\ [Next]_vars => IInv'
<1> SUFFICES ASSUME IInv, [Next]_vars PROVE IInv'
  OBVIOUS
<1>1. CASE Next
  BY <1>1, BackendStep, CreationStep, AttachmentsStep, SyncStep, AssignStep, ExecuteStep
     DEF Next
<1>2. CASE UNCHANGED vars
  <2>1. UNCHANGED <<ops, proc, reg, att, create, retries, maker, syncing, present,
                    assigned, asks, stray, flight, sent, tick>>
    BY <1>2 DEF vars
  <2>2. TypeOK'
    BY <2>1 DEF IInv, TypeOK
  <2> QED BY <2>1, <2>2, AroundStep DEF Blocked
<1> QED BY <1>1, <1>2

\* The inductive invariant holds whatever Backend processes, retries, timeouts and
\* restarts do: the process that executes an attempt holds the row that it claimed
\* (begin_workdir_removal_attempt_inner), and from its guards to its answer nothing
\* else takes the Workdir.
THEOREM RemovalInvariant == Spec => []IInv
  BY InitIInv, NextIInv, PTL DEF Spec

\* Operation rows, processes and registry keep their types for any number of
\* requests, Backend processes and attempts.
THEOREM RemovalTyped == Spec => []TypeOK
<1>1. IInv => TypeOK
  BY DEF IInv
<1> QED BY <1>1, RemovalInvariant, PTL

\* An operation asks the Runtime to delete at most once: a recovered attempt only
\* observes (execute_reserved_workdir_removal_with_provider).
THEOREM DeletionAskedOnce == Spec => []DeletesOnce
<1>1. IInv => DeletesOnce
  BY DEF IInv, OpsOK, OpOK, DeletesOnce
<1> QED BY <1>1, RemovalInvariant, PTL

\* Nothing is attached or created while a deletion of a pending operation is
\* on its way: the guards saw nothing (workdir_removal_guards), and a pending
\* operation refuses what comes later.
THEOREM DeletionMeetsNobody == Spec => []NobodyAttachesMeanwhile
<1>1. IInv => NobodyAttachesMeanwhile
  BY DEF IInv, TypeOK, OpsOK, OpOK, NobodyAttachesMeanwhile
<1> QED BY <1>1, RemovalInvariant, PTL

\* No two Backend processes work on the same operation, also when one takes over
\* what another left (begin_workdir_removal_attempt_inner compares the owner).
THEOREM AttemptHasOneExecutor == Spec => []OneExecutor
<1>1. IInv => OneExecutor
  BY WorkersDiffer DEF OneExecutor, Works
<1> QED BY <1>1, RemovalInvariant, PTL

-----------------------------------------------------------------------------
\* What a step may not do.

\* A settled row is written by nobody.
LEMMA SettledRowStays ==
    ASSUME IInv, Next, NEW o \in Ops, ops[o].state \in Terminal
    PROVE  ops'[o] = ops[o]
<1>0. ~Pending(o) /\ ops[o].state # "none" /\ ops \in [Ops -> OpRecord]
  BY DEF Pending, Terminal, IInv, TypeOK
<1>1. ASSUME NEW p \in Procs, NEW state, Settle(p, state) PROVE ops'[o] = ops[o]
  BY <1>0, <1>1 DEF Settle
<1>2. ASSUME NEW p \in Procs, Backend(p) PROVE ops'[o] = ops[o]
  <2>1. CASE Start(p) \/ Crash(p) \/ ClaimRefused(p)
    BY <2>1 DEF Start, Crash, ClaimRefused, dbVars
  <2>2. ASSUME NEW q \in Ops, Request(p, q) PROVE ops'[o] = ops[o]
    BY <1>0, <2>2 DEF Request
  <2>3. CASE Claim(p)
    BY <1>0, <2>3 DEF Claim
  <2>4. CASE Interrupted(p) \/ NoAnswer(p)
    BY <1>1, <2>4 DEF Interrupted, NoAnswer
  <2>5. CASE Guards(p)
    BY <1>1, <2>5 DEF Guards, dbVars
  <2>6. CASE Observe(p)
    BY <1>1, <2>6 DEF Observe, dbVars
  <2>7. CASE Delete(p)
    BY <1>1, <2>7 DEF Delete, dbVars
  <2>8. CASE Answer(p)
    BY <1>1, <2>8 DEF Answer, dbVars
  <2>9. CASE Reconcile(p)
    BY <1>1, <2>9 DEF Reconcile, dbVars
  <2>10. CASE Commit(p)
    BY <1>0, <2>10 DEF Commit
  <2> QED BY <1>2, <2>1, <2>2, <2>3, <2>4, <2>5, <2>6, <2>7, <2>8, <2>9, <2>10 DEF Backend
<1>3. CASE ~\E p \in Procs : Backend(p)
  BY <1>3 DEF Next, Attachments, ReserveAttachment, FinalizeAttachment, ReleaseReservation,
              Attach, Unlink, Creation, CreateRetry, CreateUnavailable, CreateAsk,
              CreateExecutes, CreateSucceeds, CreateFails, SyncRead, SyncWrite, Assign,
              Unassign, Execute, dbVars
<1> QED BY <1>2, <1>3

\* The answer a request was given is final: a settled row is never claimed again.
THEOREM AnswerStays == Spec => AnswerIsFinal
<1>1. IInv /\ [Next]_vars => [\A o \in Ops : ops[o].state \in Terminal => ops'[o] = ops[o]]_vars
  BY SettledRowStays
<1> QED BY <1>1, RemovalInvariant, PTL DEF Spec, AnswerIsFinal

\* Only a commit records a removal, and after a deletion was asked for it
\* finds the directory gone or stray.
LEMMA RemovedByCommit ==
    ASSUME IInv, Next, NEW o \in Ops, ops[o].state # "removed", ops'[o].state = "removed",
           sent[o] = 1
    PROVE  Gone'
<1>0. ops \in [Ops -> OpRecord]
  BY DEF IInv, TypeOK
<1>1. ASSUME NEW p \in Procs, Settle(p, "failed") \/ Settle(p, "retained") \/ Settle(p, "pending")
      PROVE  FALSE
  <2>1. PICK state \in {"failed", "retained", "pending"} : Settle(p, state)
    BY <1>1
  <2>2. ops[o] \in OpRecord
    BY <1>0
  <2>3. Ended(ops[o], state).state # "removed"
    BY <2>2 DEF Ended, OpRecord
  <2> QED BY <2>1, <2>3, <1>0 DEF Settle
<1>2. ASSUME NEW p \in Procs, Backend(p) PROVE Gone'
  <2>1. CASE Start(p) \/ Crash(p) \/ ClaimRefused(p)
    BY <2>1 DEF Start, Crash, ClaimRefused, dbVars
  <2>2. ASSUME NEW q \in Ops, Request(p, q) PROVE FALSE
    BY <1>0, <2>2 DEF Request, NoOp
  <2>3. CASE Claim(p)
    <3>1. ops[o] \in OpRecord
      BY <1>0
    <3>2. [ops[o] EXCEPT !.attempt = tick + 1, !.owner = p].state = ops[o].state
      BY <3>1 DEF OpRecord
    <3> QED BY <1>0, <2>3, <3>2 DEF Claim
  <2>4. CASE Interrupted(p) \/ NoAnswer(p)
    BY <1>1, <2>4 DEF Interrupted, NoAnswer
  <2>5. CASE Guards(p)
    BY <1>1, <2>5 DEF Guards, dbVars
  <2>6. CASE Observe(p)
    BY <1>1, <2>6 DEF Observe, dbVars
  <2>7. CASE Delete(p)
    BY <1>1, <2>7 DEF Delete, dbVars
  <2>8. CASE Answer(p)
    BY <1>1, <2>8 DEF Answer, dbVars
  <2>9. CASE Reconcile(p)
    BY <1>1, <2>9 DEF Reconcile, dbVars
  <2>10. CASE Commit(p)
    <3>1. proc[p].op = o
      BY <1>0, <2>10 DEF Commit
    <3>2. proc[p].phase = "commit" /\ present' = present /\ stray' = stray
      BY <2>10 DEF Commit, At, runtimeVars, makeVars
    <3> QED BY <3>1, <3>2 DEF IInv, ProcsFit, Fits, Gone
  <2> QED BY <1>2, <2>1, <2>2, <2>3, <2>4, <2>5, <2>6, <2>7, <2>8, <2>9, <2>10 DEF Backend
<1>3. CASE ~\E p \in Procs : Backend(p)
  BY <1>3 DEF Next, Attachments, ReserveAttachment, FinalizeAttachment, ReleaseReservation,
              Attach, Unlink, Creation, CreateRetry, CreateUnavailable, CreateAsk,
              CreateExecutes, CreateSucceeds, CreateFails, SyncRead, SyncWrite, Assign,
              Unassign, Execute, dbVars
<1> QED BY <1>2, <1>3

\* An operation that asked for the deletion is recorded as removed only when
\* the Runtime holds no materialization (commit_workdir_removal_removed), but
\* for what a request for the creation makes or takes after its create operation
\* was settled by another (create_workspace_working_directory).
THEOREM RemovedMeansGone == Spec => RemovedIsGone
<1>1. IInv /\ [Next]_vars =>
        [\A o \in Ops : /\ sent[o] = 1
                        /\ ops[o].state # "removed" /\ ops'[o].state = "removed"
                        => ~present' \/ stray']_vars
  BY RemovedByCommit DEF Gone
<1> QED BY <1>1, RemovalInvariant, PTL DEF Spec, RemovedIsGone
=============================================================================
