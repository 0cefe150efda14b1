------------------------- MODULE FlowCoordinatorProofs -------------------------
(***************************************************************************)
(* Proofs about the Flow of one Worker, for all definitions, numbers of     *)
(* overlapping tool calls, instances and attempts, whatever writes fail and *)
(* whatever is rewound.                                                     *)
(***************************************************************************)
EXTENDS FlowCoordinator, FiniteSetTheorems, TLAPS

------------------------------------------------------------------------------
\* Facts about the sequences a Session log goes through.

\* What is appended to a log is what a restart restores.
LEMMA RestoredAppend ==
    ASSUME NEW S, NEW s \in Seq(S), NEW x
    PROVE  /\ Append(s, x) \in Seq(S \cup {x})
           /\ Restored(Append(s, x)) = x
           /\ Len(Append(s, x)) = Len(s) + 1
           /\ \A i \in DOMAIN Append(s, x) : \/ Append(s, x)[i] = x
                                             \/ i \in DOMAIN s /\ Append(s, x)[i] = s[i]
           /\ SubSeq(Append(s, x), 1, Len(s)) = s
<1>1. s \in Seq(S \cup {x})
  OBVIOUS
<1>2. Append(s, x) # <<>> /\ Append(s, x)[Len(s) + 1] = x /\ Len(Append(s, x)) = Len(s) + 1
  BY <1>1
<1>3. Append(s, x) \in Seq(S \cup {x})
  BY <1>1
<1>4. \A i \in DOMAIN Append(s, x) : \/ Append(s, x)[i] = x
                                     \/ i \in DOMAIN s /\ Append(s, x)[i] = s[i]
  BY <1>1, <1>2, <1>3
<1>5. SubSeq(Append(s, x), 1, Len(s)) = s
  BY <1>1, <1>2, <1>3
<1> QED
  BY <1>2, <1>3, <1>4, <1>5 DEF Restored, Last

\* Cutting a log leaves a log whose entries it had before.
LEMMA RestoredCut ==
    ASSUME NEW S, NEW s \in Seq(S), NEW n \in 0 .. Len(s)
    PROVE  /\ SubSeq(s, 1, n) \in Seq(S)
           /\ Len(SubSeq(s, 1, n)) = n
           /\ \A i \in DOMAIN SubSeq(s, 1, n) : i \in DOMAIN s /\ SubSeq(s, 1, n)[i] = s[i]
  OBVIOUS

------------------------------------------------------------------------------
\* The inductive invariant.

\* A Flow state has its fields; an attempt is open on it only while the instance
\* is active, and pins the transitions of the state the instance is in.
FlowKept(st, next) ==
    \/ st = NoFlow
    \/ /\ DOMAIN st = {"inst", "def", "cur", "status", "activeId", "attempt", "events"}
       /\ st.inst \in Nat \ {0} /\ st.inst < next
       /\ st.def \in Definitions /\ st.cur \in st.def.states
       /\ st.attempt # NoAttempt =>
            /\ st.attempt.id \in Nat /\ st.activeId = st.attempt.id
            /\ st.status = "Active"
            /\ st.attempt.from = st.cur
            /\ st.attempt.transitions = Outgoing(st.def, st.cur)

ShapeInv ==
    /\ up \in BOOLEAN /\ inFlight \in BOOLEAN
    /\ nextInst \in Nat \ {0} /\ nextAttempt \in Nat \ {0}
    /\ DOMAIN turn = {"running", "rollbackable", "live", "entries", "apart"}
    /\ turn.running \in BOOLEAN /\ turn.rollbackable \in BOOLEAN
    /\ turn.apart \in BOOLEAN /\ apart \in BOOLEAN
    /\ DOMAIN calls = Calls
    /\ \A c \in Calls :
        /\ DOMAIN calls[c] = {"verifying", "attempt", "slot"}
        /\ calls[c].verifying \in BOOLEAN
        /\ calls[c].slot = NoSlot \/ calls[c].slot.kind = "Completed"

LogIsSequence == \E S : log \in Seq(S)

FlowsInv ==
    /\ FlowKept(live, nextInst) /\ FlowKept(turn.live, nextInst)
    /\ \A i \in DOMAIN log : log[i] # NoFlow /\ FlowKept(log[i], nextInst)

\* Where a rollback would lead: the snapshot is what the shortened log restores,
\* unless the two were apart when it was taken.  Rewinds lead into the log.
SnapshotExact ==
    /\ turn.running => up
    /\ turn.rollbackable =>
        /\ turn.running
        /\ turn.entries \in 0 .. Len(log)
        /\ inputs \subseteq 0 .. turn.entries
        /\ ~turn.apart => turn.live = Restored(SubSeq(log, 1, turn.entries))
    /\ inputs \subseteq 0 .. Len(log)

SnapshotInv == LiveIsDurable /\ SnapshotExact

CallsInv ==
    /\ inFlight <=> \E c \in Calls : calls[c].verifying
    /\ \A c, e \in Calls : calls[c].verifying /\ calls[e].verifying => c = e
    /\ \A c \in Calls : calls[c].verifying =>
        /\ turn.running /\ ~turn.rollbackable
        /\ live # NoFlow /\ live.attempt # NoAttempt
        /\ live.attempt = calls[c].attempt

IInv == LogIsSequence /\ ShapeInv /\ FlowsInv /\ SnapshotInv /\ CallsInv

------------------------------------------------------------------------------
\* What the coordinator's transformations do to a Flow state.

\* A Flow state stays well formed when more instance ids have been used.
LEMMA KeptLonger ==
    ASSUME NEW st, NEW m \in Nat, NEW n \in Nat, m <= n, FlowKept(st, m)
    PROVE  FlowKept(st, n)
  BY DEF FlowKept

\* A fresh instance is well formed and carries the id and definition it was given.
LEMMA StartKept ==
    ASSUME NEW d \in Definitions, NEW n \in Nat \ {0}
    PROVE  /\ FlowKept(StartState(n, d), n + 1)
           /\ StartState(n, d) # NoFlow
           /\ StartState(n, d).inst = n
           /\ StartState(n, d).def = d /\ StartState(n, d).cur = d.initial
           /\ StartState(n, d).status = IF d.initial \in d.terminal THEN "Completed" ELSE "Active"
<1>1. StartState(n, d).inst = n /\ n # 0
  BY DEF StartState, InitialStatus
<1>2. StartState(n, d) # NoFlow
  BY <1>1 DEF NoFlow
<1>3. d.initial \in d.states
  BY DefinitionsAssumption DEF WellFormedDefinition
<1>4. FlowKept(StartState(n, d), n + 1)
  BY <1>1, <1>3 DEF FlowKept, StartState, InitialStatus
<1> QED
  BY <1>1, <1>2, <1>4 DEF StartState, InitialStatus

\* begin_transition pins the outgoing transitions of the current state.
LEMMA BeginKept ==
    ASSUME NEW st, NEW n \in Nat, NEW id \in Nat \ {0},
           st # NoFlow, FlowKept(st, n), CanBegin(st, id)
    PROVE  LET b == BeginState(st, id) IN
           /\ FlowKept(b, n) /\ b # NoFlow
           /\ b.attempt # NoAttempt
           /\ b.inst = st.inst /\ b.def = st.def /\ b.cur = st.cur /\ b.status = st.status
<1> DEFINE b == BeginState(st, id)
<1>1. /\ b.inst = st.inst /\ b.def = st.def /\ b.cur = st.cur /\ b.status = st.status
      /\ b.activeId = id
      /\ b.attempt = [id |-> id, from |-> st.cur, transitions |-> Outgoing(st.def, st.cur)]
      /\ DOMAIN b = DOMAIN st
  BY DEF FlowKept, BeginState
<1>2. b.attempt.id = id /\ b.attempt.from = st.cur /\ b.attempt.transitions = Outgoing(st.def, st.cur)
  BY <1>1
<1>3. b.attempt # NoAttempt
  BY <1>2 DEF NoAttempt, NoId
<1>4. b.inst # 0
  BY <1>1 DEF FlowKept
<1>5. b # NoFlow
  BY <1>4 DEF NoFlow
<1>6. FlowKept(b, n)
  <2> HIDE DEF b
  <2> QED
    BY <1>1, <1>2 DEF FlowKept, CanBegin
<1> QED
  BY <1>1, <1>3, <1>5, <1>6

\* The instance stays where it is, or follows one of its outgoing transitions.
Follows(r, st) ==
    \/ r.cur = st.cur /\ r.status = st.status
    \/ \E t \in Outgoing(st.def, st.cur) :
        /\ r.cur = t.target
        /\ r.status = IF t.target = Cancelled THEN "Cancelled"
                      ELSE IF t.target \in st.def.terminal THEN "Completed" ELSE "Active"

\* Releasing the reservation moves the instance nowhere.
LEMMA SettleKept ==
    ASSUME NEW st, NEW n \in Nat, st # NoFlow, FlowKept(st, n), NEW es
    PROVE  LET r == Settle(st, es) IN
           /\ FlowKept(r, n) /\ r # NoFlow
           /\ r.inst = st.inst /\ r.def = st.def /\ r.cur = st.cur /\ r.status = st.status
<1> DEFINE r == Settle(st, es)
<1>1. /\ r.inst = st.inst /\ r.def = st.def /\ r.cur = st.cur /\ r.status = st.status
      /\ r.attempt = NoAttempt
      /\ DOMAIN r = DOMAIN st
  BY DEF FlowKept, Settle
<1>2. r.inst # 0
  BY <1>1 DEF FlowKept
<1>3. r # NoFlow
  BY <1>2 DEF NoFlow
<1>4. FlowKept(r, n)
  <2> HIDE DEF r
  <2> QED
    BY <1>1 DEF FlowKept
<1> QED
  BY <1>1, <1>3, <1>4

\* An accepted verdict moves the instance along one pinned transition.
LEMMA EnteredKept ==
    ASSUME NEW st, NEW n \in Nat, st # NoFlow, FlowKept(st, n), st.attempt # NoAttempt,
           NEW results, DOMAIN results = ExpectedIds(st.attempt), MetIds(results) # {}
    PROVE  LET r == Entered(st, results) IN
           /\ FlowKept(r, n) /\ r # NoFlow
           /\ r.inst = st.inst /\ r.def = st.def /\ Follows(r, st)
<1> DEFINE r == Entered(st, results)
           id == CHOOSE id \in MetIds(results) : TRUE
           t == TransitionOf(st.attempt, id)
<1>1. id \in ExpectedIds(st.attempt)
  BY DEF MetIds
<1>2. t \in Outgoing(st.def, st.cur)
  BY <1>1 DEF TransitionOf, ExpectedIds, FlowKept
<1>3. t.target \in st.def.states
  BY <1>2, DefinitionsAssumption DEF WellFormedDefinition, FlowKept
<1> DEFINE status == IF t.target = Cancelled THEN "Cancelled"
                     ELSE IF t.target \in st.def.terminal THEN "Completed" ELSE "Active"
           es == <<Event("TransitionCheckPassed", st.activeId,
                            [transition |-> t, results |-> results]),
                   Event("StateEntered", st.activeId,
                            [state |-> t.target, status |-> status])>>
           s == Settle(st, es)
<1>4. r = [s EXCEPT !.cur = t.target, !.status = status]
  BY Zenon DEF Entered
<1>5. /\ DOMAIN s = DOMAIN st
      /\ s.attempt = NoAttempt
      /\ s.inst = st.inst /\ s.def = st.def
  <2> HIDE DEF es
  <2> QED
    BY DEF FlowKept, Settle
<1>6. /\ DOMAIN r = DOMAIN st
      /\ r.attempt = NoAttempt
      /\ r.inst = st.inst /\ r.def = st.def /\ r.cur = t.target /\ r.status = status
  <2> HIDE DEF s, r, t, status, es
  <2> QED
    BY <1>4, <1>5 DEF FlowKept
<1>7. r.inst # 0 /\ r.inst \in Nat /\ r.inst < n /\ r.def \in Definitions
  BY <1>6 DEF FlowKept
<1>8. FlowKept(r, n) /\ r # NoFlow
  <2> HIDE DEF r, t
  <2> QED
    BY <1>3, <1>6, <1>7 DEF FlowKept, NoFlow
<1>9. Follows(r, st)
  BY <1>2, <1>6 DEF Follows
<1> QED
  BY <1>6, <1>8, <1>9

\* Every outcome of a verification leaves a Flow state with no open attempt.
LEMMA ResolveKept ==
    ASSUME NEW st, NEW n \in Nat, st # NoFlow, FlowKept(st, n), st.attempt # NoAttempt,
           NEW outcome, outcome.kind \in {"Cancelled", "Failed", "Completed"}
    PROVE  LET r == ResolveState(st, outcome) IN
           /\ FlowKept(r, n) /\ r # NoFlow
           /\ r.inst = st.inst /\ r.def = st.def /\ Follows(r, st)
<1> DEFINE Good(r) == /\ FlowKept(r, n) /\ r # NoFlow
                      /\ r.inst = st.inst /\ r.def = st.def /\ Follows(r, st)
<1>1. ASSUME NEW es PROVE Good(Settle(st, es))
  BY SettleKept DEF Follows
<1>2. ASSUME NEW code PROVE Good(Rejected(st, code))
  BY <1>1 DEF Rejected
<1>3. ASSUME NEW results, DOMAIN results = ExpectedIds(st.attempt), MetIds(results) # {}
      PROVE  Good(Entered(st, results))
  BY <1>3, EnteredKept
<1> HIDE DEF Good
<1>4. Good(ResolveCompleted(st, outcome))
  BY <1>2, <1>3 DEF ResolveCompleted
<1>5. Good(ResolveState(st, outcome))
  BY <1>1, <1>4 DEF ResolveState
<1> QED
  BY <1>5 DEF Good

\* What a restart restores from a log of kept Flow states is one of them.
LEMMA RestoredKept ==
    ASSUME NEW S, NEW s \in Seq(S), NEW n \in Nat,
           \A i \in DOMAIN s : s[i] # NoFlow /\ FlowKept(s[i], n)
    PROVE  FlowKept(Restored(s), n)
  BY DEF Restored, Last, FlowKept

------------------------------------------------------------------------------
\* The invariant holds initially and every action preserves it.

\* A Worker without a Flow and with an empty log satisfies the invariant.
LEMMA InitIInv == Init => IInv
<1> SUFFICES ASSUME Init PROVE IInv
  OBVIOUS
<1> USE DEF Init
<1>0. LogIsSequence
  <2>1. log \in Seq({})
    OBVIOUS
  <2> QED
    BY <2>1 DEF LogIsSequence
<1>1. ShapeInv
  <2>1. IdleCall.verifying = FALSE /\ DOMAIN IdleCall = {"verifying", "attempt", "slot"}
    BY DEF IdleCall
  <2>2. IdleCall.slot = NoSlot
    BY DEF IdleCall
  <2>3. /\ IdleTurn.running = FALSE /\ IdleTurn.rollbackable = FALSE /\ IdleTurn.apart = FALSE
        /\ DOMAIN IdleTurn = {"running", "rollbackable", "live", "entries", "apart"}
    BY DEF IdleTurn
  <2>4. \A c \in Calls : calls[c] = IdleCall
    OBVIOUS
  <2>5. \A c \in Calls :
        /\ DOMAIN calls[c] = {"verifying", "attempt", "slot"}
        /\ calls[c].verifying \in BOOLEAN
        /\ calls[c].slot = NoSlot \/ calls[c].slot.kind = "Completed"
    BY <2>1, <2>2, <2>4, Zenon
  <2>6. /\ turn.running \in BOOLEAN /\ turn.rollbackable \in BOOLEAN
        /\ turn.apart \in BOOLEAN /\ apart \in BOOLEAN
        /\ DOMAIN turn = {"running", "rollbackable", "live", "entries", "apart"}
        /\ up \in BOOLEAN /\ inFlight \in BOOLEAN
    BY <2>3
  <2>7. nextInst \in Nat \ {0} /\ nextAttempt \in Nat \ {0} /\ DOMAIN calls = Calls
    OBVIOUS
  <2> HIDE DEF Init
  <2> QED
    BY <2>5, <2>6, <2>7 DEF ShapeInv
<1>2. FlowsInv
  BY DEF FlowsInv, FlowKept, IdleTurn
<1>3. SnapshotInv
  BY DEF SnapshotInv, LiveIsDurable, SnapshotExact, IdleTurn, Restored
<1>4. CallsInv
  BY DEF CallsInv, IdleCall
<1> QED
  BY <1>0, <1>1, <1>2, <1>3, <1>4 DEF IInv

\* A commit that works makes the new state both live and durable, one that fails
\* leaves both alone.
LEMMA CommitStep ==
    ASSUME LogIsSequence, ShapeInv, FlowsInv, ~apart => live = Restored(log),
           NEW st, NEW appended \in BOOLEAN,
           Commit(st, appended), nextInst' \in Nat, nextInst <= nextInst',
           appended => st # NoFlow /\ FlowKept(st, nextInst')
    PROVE  /\ LogIsSequence'
           /\ apart' \in BOOLEAN /\ (~apart' => live' = Restored(log'))
           /\ FlowKept(live', nextInst')
           /\ \A i \in DOMAIN log' : log'[i] # NoFlow /\ FlowKept(log'[i], nextInst')
           /\ Len(log) \in Nat /\ Len(log') \in Nat /\ Len(log) <= Len(log')
           /\ SubSeq(log', 1, Len(log)) = log
<1>1. PICK S : log \in Seq(S)
  BY DEF LogIsSequence
<1>2. nextInst \in Nat
  BY DEF ShapeInv
<1>3. FlowKept(live, nextInst') /\ \A i \in DOMAIN log : log[i] # NoFlow /\ FlowKept(log[i], nextInst')
  BY <1>2, KeptLonger DEF FlowsInv
<1>4. CASE appended
  <2>1. log' = Append(log, st) /\ live' = st /\ apart' = FALSE
    BY <1>4 DEF Commit
  <2>2. /\ Append(log, st) \in Seq(S \cup {st})
        /\ Restored(Append(log, st)) = st
        /\ Len(Append(log, st)) = Len(log) + 1
        /\ SubSeq(Append(log, st), 1, Len(log)) = log
    BY <1>1, RestoredAppend
  <2>3. \A i \in DOMAIN log' : log'[i] = st \/ (i \in DOMAIN log /\ log'[i] = log[i])
    BY <1>1, <2>1, RestoredAppend
  <2>4. Len(log) \in Nat
    BY <1>1
  <2>5. LogIsSequence' /\ apart' \in BOOLEAN /\ (~apart' => live' = Restored(log'))
    BY <2>1, <2>2 DEF LogIsSequence
  <2>6. FlowKept(live', nextInst')
    BY <1>4, <2>1
  <2>7. Len(log') \in Nat /\ Len(log) <= Len(log') /\ SubSeq(log', 1, Len(log)) = log
    BY <2>1, <2>2, <2>4
  <2>8. \A i \in DOMAIN log' : log'[i] # NoFlow /\ FlowKept(log'[i], nextInst')
    BY <1>3, <1>4, <2>3
  <2> QED
    BY <2>4, <2>5, <2>6, <2>7, <2>8
<1>5. CASE ~appended
  <2>1. log' = log /\ live' = live /\ apart' = apart /\ apart \in BOOLEAN
    BY <1>5 DEF Commit, ShapeInv
  <2>2. Len(log) \in Nat /\ SubSeq(log, 1, Len(log)) = log
    BY <1>1
  <2> QED
    BY <1>1, <1>3, <2>1, <2>2 DEF LogIsSequence
<1> QED
  BY <1>4, <1>5

\* A plain Submit only takes the rollback snapshot.
LEMMA SubmitPlainStep ==
    ASSUME IInv, SubmitPlain
    PROVE  IInv'
<1> USE DEF IInv, SubmitPlain, OpenTurn
<1>1. PICK S : log \in Seq(S)
  BY DEF LogIsSequence
<1>t. /\ turn'.running = TRUE /\ turn'.rollbackable = TRUE
      /\ turn'.live = live /\ turn'.entries = Len(log) /\ turn'.apart = apart
      /\ DOMAIN turn' = {"running", "rollbackable", "live", "entries", "apart"}
  OBVIOUS
<1>2. ShapeInv' /\ LogIsSequence'
  BY <1>t DEF ShapeInv, LogIsSequence
<1>3. FlowsInv'
  BY <1>t DEF FlowsInv
<1>4. SnapshotInv'
  <2>1. Len(log) \in Nat /\ SubSeq(log, 1, Len(log)) = log
    BY <1>1
  <2>2. LiveIsDurable'
    BY DEF SnapshotInv, LiveIsDurable
  <2>3. /\ ~apart => live = Restored(SubSeq(log, 1, Len(log)))
        /\ Len(log) \in 0 .. Len(log)
    <3>1. ~apart => live = Restored(log)
      BY DEF SnapshotInv, LiveIsDurable
    <3>2. Len(log) \in 0 .. Len(log)
      BY <2>1
    <3> QED
      BY <2>1, <3>1, <3>2, Zenon
  <2>4. SnapshotExact'
    <3>1. up' = TRUE /\ log' = log
      BY DEF ShapeInv
    <3>2. inputs' \subseteq 0 .. Len(log)
      BY <2>3 DEF SnapshotInv, SnapshotExact
    <3> HIDE DEF SubmitPlain, IInv, OpenTurn
    <3> QED
      BY <1>t, <2>3, <3>1, <3>2 DEF SnapshotExact
  <2> QED
    BY <2>2, <2>4 DEF SnapshotInv
<1>5. CallsInv'
  BY DEF CallsInv, ShapeInv
<1> QED
  BY <1>2, <1>3, <1>4, <1>5

\* A Submit that starts a Flow appends it before it becomes live.
LEMMA SubmitFlowStep ==
    ASSUME IInv, NEW d \in Definitions, SubmitFlow(d)
    PROVE  IInv'
<1> USE DEF IInv
<1>1. PICK appended \in BOOLEAN :
        /\ Commit(StartState(nextInst, d), appended)
        /\ IF appended THEN OpenTurn ELSE UNCHANGED <<turn, inputs>>
        /\ nextInst' = IF appended THEN nextInst + 1 ELSE nextInst
  BY DEF SubmitFlow
<1>2. /\ up /\ ~turn.running /\ (~apart => live = Restored(log))
      /\ UNCHANGED <<up, inFlight, calls, nextAttempt>>
  BY DEF SubmitFlow, SnapshotInv, LiveIsDurable
<1>3. nextInst \in Nat \ {0} /\ nextInst' \in Nat \ {0} /\ nextInst <= nextInst'
  BY <1>1 DEF ShapeInv
<1>4. /\ LogIsSequence'
      /\ apart' \in BOOLEAN /\ (~apart' => live' = Restored(log'))
      /\ FlowKept(live', nextInst')
      /\ \A i \in DOMAIN log' : log'[i] # NoFlow /\ FlowKept(log'[i], nextInst')
      /\ Len(log) \in Nat /\ Len(log') \in Nat /\ Len(log) <= Len(log')
      /\ SubSeq(log', 1, Len(log)) = log
  <2>1. appended => StartState(nextInst, d) # NoFlow /\ FlowKept(StartState(nextInst, d), nextInst')
    BY <1>1, <1>3, StartKept
  <2> QED
    BY <1>1, <1>2, <1>3, <2>1, CommitStep
<1>t. \/ turn' = turn /\ inputs' = inputs
      \/ /\ turn'.running = TRUE /\ turn'.rollbackable = TRUE
         /\ turn'.live = live /\ turn'.entries = Len(log)
         /\ turn'.apart = apart /\ inputs' = inputs \cup {Len(log)}
         /\ DOMAIN turn' = {"running", "rollbackable", "live", "entries", "apart"}
  BY <1>1 DEF OpenTurn
<1>5. ShapeInv'
  BY <1>2, <1>3, <1>4, <1>t DEF ShapeInv
<1>6. FlowsInv'
  <2>1. FlowKept(live, nextInst') /\ FlowKept(turn.live, nextInst')
    BY <1>3, KeptLonger DEF FlowsInv
  <2>2. turn'.live = live \/ turn'.live = turn.live
    BY <1>t
  <2> QED
    BY <1>4, <2>1, <2>2 DEF FlowsInv
<1>7. SnapshotInv'
  <2>1. LiveIsDurable'
    BY <1>4 DEF LiveIsDurable
  <2>i. inputs \subseteq 0 .. Len(log) /\ 0 .. Len(log) \subseteq 0 .. Len(log')
    BY <1>4 DEF SnapshotInv, SnapshotExact
  <2>2. CASE turn' = turn /\ inputs' = inputs
    BY <1>2, <2>1, <2>2, <2>i DEF SnapshotInv, SnapshotExact, ShapeInv
  <2>3. CASE /\ turn'.running = TRUE /\ turn'.rollbackable = TRUE
             /\ turn'.live = live /\ turn'.entries = Len(log)
             /\ turn'.apart = apart /\ inputs' = inputs \cup {Len(log)}
    <3>1. ~apart => Restored(SubSeq(log', 1, Len(log))) = live
      BY <1>2, <1>4
    <3>2. turn'.entries \in 0 .. Len(log')
      BY <1>4, <2>3
    <3>3. inputs' \subseteq 0 .. turn'.entries /\ inputs' \subseteq 0 .. Len(log')
      <4>1. Len(log) \in 0 .. Len(log)
        BY <1>4
      <4>2. inputs' \subseteq 0 .. Len(log)
        BY <2>3, <2>i, <4>1, Zenon
      <4> QED
        BY <2>3, <2>i, <4>2, Zenon
    <3> QED
      BY <1>2, <2>1, <2>3, <3>1, <3>2, <3>3 DEF SnapshotInv, SnapshotExact
  <2> QED
    BY <1>t, <2>2, <2>3
<1>8. CallsInv'
  BY <1>2 DEF CallsInv
<1> QED
  BY <1>4, <1>5, <1>6, <1>7, <1>8

\* Output of the model only ends the time in which the turn may be undone.
LEMMA AiActivityStep ==
    ASSUME IInv, AiActivity
    PROVE  IInv'
<1> USE DEF IInv, AiActivity
<1>1. /\ DOMAIN turn' = DOMAIN turn /\ turn'.running = turn.running /\ turn'.live = turn.live
      /\ turn'.rollbackable = FALSE /\ turn'.apart = turn.apart
  BY DEF ShapeInv
<1>2. ShapeInv' /\ LogIsSequence'
  BY <1>1 DEF ShapeInv, LogIsSequence
<1>3. FlowsInv'
  BY <1>1 DEF FlowsInv
<1>4. SnapshotInv'
  BY <1>1 DEF SnapshotInv, LiveIsDurable, SnapshotExact
<1>5. CallsInv'
  BY <1>1 DEF CallsInv
<1> QED
  BY <1>2, <1>3, <1>4, <1>5

\* The attempt a verifier is started on is the durable one.
LEMMA BeginTransitionStep ==
    ASSUME IInv, NEW c \in Calls, BeginTransition(c)
    PROVE  IInv'
<1> USE DEF IInv
<1>1. /\ up /\ turn.running /\ ~turn.rollbackable
      /\ ~inFlight /\ live # NoFlow /\ (~apart => live = Restored(log))
      /\ UNCHANGED <<up, inputs, turn, nextInst>>
  BY DEF BeginTransition, SnapshotInv, LiveIsDurable
<1>2. \A e \in Calls : ~calls[e].verifying
  BY <1>1 DEF CallsInv
<1>3. /\ nextInst' = nextInst /\ nextInst \in Nat \ {0} /\ nextAttempt \in Nat \ {0}
      /\ FlowKept(live, nextInst)
  BY <1>1 DEF ShapeInv, FlowsInv
\* Both ways to begin leave the same facts behind.
<1>4. /\ LogIsSequence' /\ (~apart' => live' = Restored(log')) /\ live' # NoFlow
      /\ apart' \in BOOLEAN /\ Len(log) \in Nat /\ Len(log') \in Nat /\ Len(log) <= Len(log')
      /\ live'.attempt # NoAttempt /\ Verifying(c, live'.attempt)
      /\ FlowKept(live', nextInst)
      /\ \A i \in DOMAIN log' : log'[i] # NoFlow /\ FlowKept(log'[i], nextInst)
      /\ nextAttempt' \in Nat \ {0}
  <2>1. CASE /\ live.attempt # NoAttempt
             /\ Verifying(c, live.attempt)
             /\ UNCHANGED <<live, log, apart, nextAttempt>>
    <3>1. live' = live /\ log' = log /\ apart' = apart /\ nextAttempt' = nextAttempt
      BY <2>1
    <3>2. Len(log) \in Nat /\ apart \in BOOLEAN
      BY DEF LogIsSequence, ShapeInv
    <3> QED
      BY <1>1, <1>3, <2>1, <3>1, <3>2 DEF LogIsSequence, FlowsInv
  <2>2. CASE /\ CanBegin(live, nextAttempt)
             /\ Commit(BeginState(live, nextAttempt), TRUE)
             /\ Verifying(c, BeginState(live, nextAttempt).attempt)
             /\ nextAttempt' = nextAttempt + 1
    <3> DEFINE b == BeginState(live, nextAttempt)
    <3>1. FlowKept(b, nextInst) /\ b # NoFlow /\ b.attempt # NoAttempt
      BY <1>1, <1>3, <2>2, BeginKept
    <3>2. live' = b
      BY <2>2 DEF Commit
    <3> HIDE DEF b
    <3>3. Commit(b, TRUE) /\ Verifying(c, b.attempt)
      BY <2>2 DEF b
    <3>4. /\ LogIsSequence' /\ (~apart' => live' = Restored(log'))
          /\ apart' \in BOOLEAN /\ Len(log) \in Nat /\ Len(log') \in Nat /\ Len(log) <= Len(log')
          /\ \A i \in DOMAIN log' : log'[i] # NoFlow /\ FlowKept(log'[i], nextInst')
      <4>1. nextInst' \in Nat /\ nextInst <= nextInst' /\ TRUE \in BOOLEAN
        BY <1>3
      <4>2. TRUE => b # NoFlow /\ FlowKept(b, nextInst')
        BY <1>3, <3>1
      <4> QED
        BY <1>1, <3>3, <4>1, <4>2, CommitStep, Zenon
    <3> QED
      BY <1>3, <2>2, <3>1, <3>2, <3>3, <3>4
  <2> QED
    BY <2>1, <2>2 DEF BeginTransition
<1>5. /\ inFlight' = TRUE /\ DOMAIN calls' = Calls
      /\ calls'[c].verifying = TRUE /\ calls'[c].attempt = live'.attempt
      /\ calls'[c].slot = NoSlot /\ DOMAIN calls'[c] = {"verifying", "attempt", "slot"}
      /\ \A e \in Calls \ {c} : calls'[e] = calls[e]
  BY <1>4 DEF Verifying, ShapeInv
<1>6. ShapeInv'
  <2>1. \A e \in Calls :
        /\ DOMAIN calls'[e] = {"verifying", "attempt", "slot"}
        /\ calls'[e].verifying \in BOOLEAN
        /\ calls'[e].slot = NoSlot \/ calls'[e].slot.kind = "Completed"
    <3>1. /\ calls'[c].verifying \in BOOLEAN
          /\ \A e \in Calls \ {c} :
                /\ DOMAIN calls[e] = {"verifying", "attempt", "slot"}
                /\ calls[e].verifying \in BOOLEAN
                /\ calls[e].slot = NoSlot \/ calls[e].slot.kind = "Completed"
      BY <1>5 DEF ShapeInv
    <3> TAKE e \in Calls
    <3>2. CASE e = c
      BY <1>5, <3>1, <3>2
    <3>3. CASE e # c
      BY <1>5, <3>1, <3>3
    <3> QED
      BY <3>2, <3>3
  <2> QED
    BY <1>1, <1>3, <1>4, <1>5, <2>1 DEF ShapeInv
<1>7. FlowsInv'
  BY <1>1, <1>3, <1>4 DEF FlowsInv
<1>8. SnapshotInv'
  <2>1. inputs \subseteq 0 .. Len(log) /\ 0 .. Len(log) \subseteq 0 .. Len(log')
    BY <1>4 DEF SnapshotInv, SnapshotExact
  <2> QED
    BY <1>1, <1>4, <2>1 DEF SnapshotInv, LiveIsDurable, SnapshotExact
<1>9. CallsInv'
  <2>1. \A e \in Calls : calls'[e].verifying => e = c
    BY <1>2, <1>5
  <2> QED
    BY <1>1, <1>4, <1>5, <2>1 DEF CallsInv
<1> QED
  BY <1>4, <1>6, <1>7, <1>8, <1>9

\* A submission only fills the slot of its own call.
LEMMA FinishVerificationStep ==
    ASSUME IInv, NEW c \in Calls, FinishVerification(c)
    PROVE  IInv'
<1> USE DEF IInv
<1>1. UNCHANGED <<up, live, log, inputs, apart, turn, inFlight, nextInst, nextAttempt>>
  BY DEF FinishVerification
<1>2. PICK slot : slot.kind = "Completed" /\ calls' = [calls EXCEPT ![c].slot = slot]
  <2>1. PICK results \in [ExpectedIds(calls[c].attempt) -> Verdict], oversized \in BOOLEAN :
          calls' = [calls EXCEPT ![c].slot =
                      [kind |-> "Completed", results |-> results, oversized |-> oversized]]
    BY DEF FinishVerification
  <2> QED
    BY <2>1
<1>3. /\ DOMAIN calls' = Calls
      /\ \A e \in Calls : /\ calls'[e].verifying = calls[e].verifying
                          /\ calls'[e].attempt = calls[e].attempt
                          /\ DOMAIN calls'[e] = DOMAIN calls[e]
                          /\ calls'[e].slot = calls[e].slot \/ calls'[e].slot = slot
  BY <1>2 DEF ShapeInv
<1>4. LogIsSequence' /\ FlowsInv' /\ SnapshotInv'
  BY <1>1 DEF LogIsSequence, FlowsInv, SnapshotInv, LiveIsDurable, SnapshotExact
<1>5. ShapeInv'
  BY <1>1, <1>2, <1>3 DEF ShapeInv
<1>6. CallsInv'
  BY <1>1, <1>3 DEF CallsInv
<1> QED
  BY <1>4, <1>5, <1>6

\* However a tool call ends, no verification is left in progress.
LEMMA ReleaseStep ==
    ASSUME ShapeInv, CallsInv, NEW c \in Calls, calls[c].verifying,
           calls' = [calls EXCEPT ![c] = IdleCall], inFlight' = FALSE
    PROVE  /\ CallsInv'
           /\ DOMAIN calls' = Calls
           /\ \A e \in Calls :
                /\ DOMAIN calls'[e] = {"verifying", "attempt", "slot"}
                /\ calls'[e].verifying \in BOOLEAN
                /\ calls'[e].slot = NoSlot \/ calls'[e].slot.kind = "Completed"
<1>1. IdleCall.verifying = FALSE /\ IdleCall.slot = NoSlot
      /\ DOMAIN IdleCall = {"verifying", "attempt", "slot"}
  BY DEF IdleCall
<1>2. DOMAIN calls' = Calls /\ calls'[c] = IdleCall /\ \A e \in Calls \ {c} : calls'[e] = calls[e]
  BY DEF ShapeInv
<1>3. \A e \in Calls : ~calls'[e].verifying
  <2> TAKE e \in Calls
  <2>1. CASE e = c
    BY <1>1, <1>2, <2>1
  <2>2. CASE e # c
    BY <1>2, <2>2 DEF CallsInv
  <2> QED
    BY <2>1, <2>2
<1>4. \A e \in Calls :
        /\ DOMAIN calls'[e] = {"verifying", "attempt", "slot"}
        /\ calls'[e].verifying \in BOOLEAN
        /\ calls'[e].slot = NoSlot \/ calls'[e].slot.kind = "Completed"
  <2> TAKE e \in Calls
  <2>1. CASE e = c
    BY <1>1, <1>2, <2>1
  <2>2. CASE e # c
    BY <1>2, <2>2 DEF ShapeInv
  <2> QED
    BY <2>1, <2>2
<1>5. CallsInv'
  BY <1>3 DEF CallsInv
<1> QED
  BY <1>2, <1>4, <1>5

\* A verdict settles the attempt in the log and in memory together, or in neither.
LEMMA ResolveTransitionStep ==
    ASSUME IInv, NEW c \in Calls, ResolveTransition(c)
    PROVE  IInv'
<1> USE DEF IInv
<1>1. /\ up /\ calls[c].verifying
      /\ calls' = [calls EXCEPT ![c] = IdleCall] /\ inFlight' = FALSE
      /\ UNCHANGED <<up, inputs, turn, nextInst, nextAttempt>>
  BY DEF ResolveTransition
<1>2. /\ turn.running /\ ~turn.rollbackable
      /\ live # NoFlow /\ live.attempt # NoAttempt
      /\ (~apart => live = Restored(log))
  BY <1>1 DEF CallsInv, SnapshotInv, LiveIsDurable
<1>3. nextInst \in Nat \ {0} /\ nextInst' = nextInst /\ FlowKept(live, nextInst)
  BY <1>1 DEF ShapeInv, FlowsInv
<1>4. PICK outcome \in VerifierOutcomes(calls[c].slot), appended \in BOOLEAN :
        IF live # NoFlow /\ CanResolve(live, calls[c].attempt.id)
        THEN Commit(ResolveState(live, outcome), appended)
        ELSE UNCHANGED <<live, log, apart>>
  BY DEF ResolveTransition
<1>5. outcome.kind \in {"Cancelled", "Failed", "Completed"}
  <2>1. calls[c].slot = NoSlot \/ calls[c].slot.kind = "Completed"
    BY DEF ShapeInv
  <2>2. \/ outcome = [kind |-> "Failed"]
        \/ outcome = [kind |-> "Cancelled"]
        \/ outcome = calls[c].slot /\ calls[c].slot # NoSlot
    BY DEF VerifierOutcomes
  <2> QED
    BY <2>1, <2>2
<1>6. /\ LogIsSequence' /\ (~apart' => live' = Restored(log'))
      /\ apart' \in BOOLEAN /\ Len(log) \in Nat /\ Len(log') \in Nat /\ Len(log) <= Len(log')
      /\ FlowKept(live', nextInst)
      /\ \A i \in DOMAIN log' : log'[i] # NoFlow /\ FlowKept(log'[i], nextInst)
  <2>1. CASE CanResolve(live, calls[c].attempt.id)
    <3> DEFINE r == ResolveState(live, outcome)
    <3>1. FlowKept(r, nextInst) /\ r # NoFlow
      BY <1>2, <1>3, <1>5, ResolveKept
    <3>2. Commit(r, appended)
      BY <1>2, <1>4, <2>1
    <3> HIDE DEF r
    <3>3. nextInst' \in Nat /\ nextInst <= nextInst'
      BY <1>3
    <3>4. appended => r # NoFlow /\ FlowKept(r, nextInst')
      BY <1>3, <3>1
    <3>5. /\ LogIsSequence' /\ (~apart' => live' = Restored(log'))
          /\ apart' \in BOOLEAN /\ Len(log) \in Nat /\ Len(log') \in Nat /\ Len(log) <= Len(log')
          /\ FlowKept(live', nextInst')
          /\ \A i \in DOMAIN log' : log'[i] # NoFlow /\ FlowKept(log'[i], nextInst')
      BY <1>2, <3>2, <3>3, <3>4, CommitStep, Zenon
    <3> QED
      BY <1>3, <3>5
  <2>2. CASE ~CanResolve(live, calls[c].attempt.id)
    <3>1. live' = live /\ log' = log /\ apart' = apart
      BY <1>4, <2>2
    <3>2. Len(log) \in Nat /\ apart \in BOOLEAN
      BY DEF LogIsSequence, ShapeInv
    <3> QED
      BY <1>2, <1>3, <3>1, <3>2 DEF LogIsSequence, FlowsInv
  <2> QED
    BY <2>1, <2>2
<1>7. CallsInv' /\ ShapeInv'
  BY <1>1, <1>6, ReleaseStep DEF ShapeInv
<1>8. FlowsInv'
  BY <1>1, <1>3, <1>6 DEF FlowsInv
<1>9. SnapshotInv'
  <2>1. inputs \subseteq 0 .. Len(log) /\ 0 .. Len(log) \subseteq 0 .. Len(log')
    BY <1>6 DEF SnapshotInv, SnapshotExact
  <2> QED
    BY <1>1, <1>2, <1>6, <2>1 DEF SnapshotInv, LiveIsDurable, SnapshotExact
<1> QED
  BY <1>6, <1>7, <1>8, <1>9

\* A dropped call leaves its attempt open for the next one.
LEMMA DropCallStep ==
    ASSUME IInv, NEW c \in Calls, DropCall(c)
    PROVE  IInv'
<1> USE DEF IInv
<1>1. /\ calls[c].verifying /\ calls' = [calls EXCEPT ![c] = IdleCall] /\ inFlight' = FALSE
      /\ UNCHANGED <<up, live, log, inputs, apart, turn, nextInst, nextAttempt>>
  BY DEF DropCall
<1>2. CallsInv' /\ ShapeInv'
  BY <1>1, ReleaseStep DEF ShapeInv
<1>3. LogIsSequence' /\ FlowsInv' /\ SnapshotInv'
  BY <1>1 DEF LogIsSequence, FlowsInv, SnapshotInv, LiveIsDurable, SnapshotExact
<1> QED
  BY <1>2, <1>3

\* The fields of a turn that is over.
LEMMA IdleTurnFields ==
    /\ IdleTurn.running = FALSE /\ IdleTurn.rollbackable = FALSE /\ IdleTurn.live = NoFlow
    /\ IdleTurn.apart = FALSE
    /\ DOMAIN IdleTurn = {"running", "rollbackable", "live", "entries", "apart"}
    /\ FlowKept(IdleTurn.live, nextInst)
<1>1. /\ IdleTurn.running = FALSE /\ IdleTurn.rollbackable = FALSE /\ IdleTurn.live = NoFlow
      /\ IdleTurn.apart = FALSE
      /\ DOMAIN IdleTurn = {"running", "rollbackable", "live", "entries", "apart"}
  BY DEF IdleTurn
<1> QED
  BY <1>1 DEF FlowKept

\* The end of a run forgets its snapshot.
LEMMA EndTurnStep ==
    ASSUME IInv, EndTurn
    PROVE  IInv'
<1> USE DEF IInv
<1>1. /\ turn' = IdleTurn /\ \A c \in Calls : ~calls[c].verifying
      /\ UNCHANGED <<up, live, log, inputs, apart, inFlight, calls, nextInst, nextAttempt>>
  BY DEF EndTurn
<1>2. ShapeInv' /\ FlowsInv' /\ LogIsSequence'
  BY <1>1, IdleTurnFields DEF ShapeInv, FlowsInv, LogIsSequence
<1>3. SnapshotInv'
  BY <1>1, IdleTurnFields DEF SnapshotInv, LiveIsDurable, SnapshotExact
<1>4. CallsInv'
  BY <1>1 DEF CallsInv
<1> QED
  BY <1>2, <1>3, <1>4

\* The snapshot of an empty turn is what the cut log restores; a log that could
\* not be cut is apart from it.
LEMMA RollbackTurnStep ==
    ASSUME IInv, RollbackTurn
    PROVE  IInv'
<1> USE DEF IInv
<1>1. /\ turn.running /\ turn.rollbackable /\ turn' = IdleTurn /\ live' = turn.live
      /\ UNCHANGED <<up, inputs, inFlight, calls, nextInst, nextAttempt>>
      /\ \/ log' = SubSeq(log, 1, turn.entries) /\ apart' = turn.apart
         \/ log' = log /\ apart' = TRUE
  BY DEF RollbackTurn
<1>2. PICK S : log \in Seq(S)
  BY DEF LogIsSequence
<1>3. /\ turn.entries \in 0 .. Len(log) /\ inputs \subseteq 0 .. turn.entries
      /\ inputs \subseteq 0 .. Len(log)
      /\ ~turn.apart => turn.live = Restored(SubSeq(log, 1, turn.entries))
  BY <1>1 DEF SnapshotInv, SnapshotExact
<1>4. /\ log' \in Seq(S)
      /\ \A i \in DOMAIN log' : i \in DOMAIN log /\ log'[i] = log[i]
      /\ inputs' \subseteq 0 .. Len(log')
  <2>1. CASE log' = SubSeq(log, 1, turn.entries)
    BY <1>1, <1>2, <1>3, <2>1, RestoredCut
  <2>2. CASE log' = log
    BY <1>1, <1>2, <1>3, <2>2
  <2> QED
    BY <1>1, <2>1, <2>2
<1>5. ShapeInv' /\ LogIsSequence'
  BY <1>1, <1>4, IdleTurnFields DEF ShapeInv, LogIsSequence
<1>6. FlowsInv'
  BY <1>1, <1>4, IdleTurnFields DEF FlowsInv
<1>7. SnapshotInv'
  <2>1. LiveIsDurable'
    BY <1>1, <1>3 DEF LiveIsDurable
  <2> QED
    BY <1>1, <1>4, <2>1, IdleTurnFields DEF SnapshotInv, SnapshotExact
<1>8. CallsInv'
  BY <1>1 DEF CallsInv
<1> QED
  BY <1>5, <1>6, <1>7, <1>8

\* A rewind and a fork shorten the log between two turns and leave the rest.
LEMMA CutStep ==
    ASSUME IInv, ~turn.running, NEW n \in 0 .. Len(log),
           log' = SubSeq(log, 1, n), inputs' \subseteq 0 .. n,
           apart' = IF n < Len(log) THEN TRUE ELSE apart,
           UNCHANGED <<up, live, turn, inFlight, calls, nextInst, nextAttempt>>
    PROVE  IInv'
<1> USE DEF IInv
<1>1. PICK S : log \in Seq(S)
  BY DEF LogIsSequence
<1>2. /\ log' \in Seq(S) /\ Len(log') = n
      /\ \A i \in DOMAIN log' : i \in DOMAIN log /\ log'[i] = log[i]
  BY <1>1, RestoredCut
<1>3. ~turn.rollbackable
  BY DEF SnapshotInv, SnapshotExact, ShapeInv
<1>4. n = Len(log) => log' = log
  BY <1>1
<1>5. ShapeInv' /\ LogIsSequence'
  BY <1>2 DEF ShapeInv, LogIsSequence
<1>6. FlowsInv'
  BY <1>2 DEF FlowsInv
<1>7. SnapshotInv'
  <2>1. ~apart' => n = Len(log) /\ ~apart
    BY <1>1 DEF ShapeInv
  <2>2. LiveIsDurable'
    BY <1>4, <2>1 DEF LiveIsDurable, SnapshotInv
  <2> QED
    BY <1>2, <1>3, <2>2 DEF SnapshotInv, SnapshotExact
<1>8. CallsInv'
  BY DEF CallsInv
<1> QED
  BY <1>5, <1>6, <1>7, <1>8

\* A rewind keeps the part of the log before one of its inputs.
LEMMA RewindStep ==
    ASSUME IInv, NEW n \in inputs, Rewind(n)
    PROVE  IInv'
<1>1. n \in 0 .. Len(log) /\ inputs \subseteq 0 .. Len(log) /\ Len(log) \in Nat
  BY DEF IInv, SnapshotInv, SnapshotExact, LogIsSequence
<1>2. inputs' \subseteq 0 .. n
  <2>1. \A m \in inputs : m <= n => m \in 0 .. n
    BY <1>1
  <2> QED
    BY <2>1, Zenon DEF Rewind
<1> QED
  BY <1>1, <1>2, CutStep DEF Rewind

\* A fork starts a log without a Flow.
LEMMA ForkStep ==
    ASSUME IInv, Fork
    PROVE  IInv'
<1>1. PICK S : log \in Seq(S)
  BY DEF IInv, LogIsSequence
<1>2. /\ 0 \in 0 .. Len(log) /\ SubSeq(log, 1, 0) = <<>>
      /\ 0 < Len(log) <=> log # <<>>
  BY <1>1
<1> QED
  BY <1>2, CutStep DEF Fork

\* The new Segment restores the live Flow, and the snapshot is given up.
LEMMA CompactStep ==
    ASSUME IInv, Compact
    PROVE  IInv'
<1> USE DEF IInv
<1>1. /\ up /\ \A c \in Calls : ~calls[c].verifying
      /\ log' = (IF live = NoFlow THEN <<>> ELSE <<live>>)
      /\ turn' = [turn EXCEPT !.rollbackable = FALSE]
      /\ inputs' = {} /\ apart' = FALSE
      /\ UNCHANGED <<up, live, inFlight, calls, nextInst, nextAttempt>>
  BY DEF Compact
<1>2. /\ turn'.running = turn.running /\ turn'.rollbackable = FALSE /\ turn'.live = turn.live
      /\ turn'.apart = turn.apart
      /\ DOMAIN turn' = DOMAIN turn
  BY <1>1 DEF ShapeInv
<1>3. /\ log' \in Seq({live}) /\ live' = Restored(log')
      /\ \A i \in DOMAIN log' : log'[i] # NoFlow /\ log'[i] = live
  <2>1. CASE live = NoFlow
    <3>1. log' = <<>> /\ live' = NoFlow
      BY <1>1, <2>1
    <3> QED
      BY <3>1 DEF Restored
  <2>2. CASE live # NoFlow
    <3>1. log' = <<live>> /\ live' = live
      BY <1>1, <2>2
    <3>2. Len(log') = 1 /\ log'[1] = live /\ log' # <<>> /\ DOMAIN log' = 1 .. 1
      BY <3>1
    <3>3. Restored(log') = live
      BY <3>2 DEF Restored, Last
    <3> QED
      BY <2>2, <3>1, <3>2, <3>3
  <2> QED
    BY <2>1, <2>2
<1>4. ShapeInv' /\ LogIsSequence'
  BY <1>1, <1>2, <1>3 DEF ShapeInv, LogIsSequence
<1>5. FlowsInv'
  BY <1>1, <1>2, <1>3 DEF FlowsInv
<1>6. SnapshotInv'
  BY <1>1, <1>2, <1>3 DEF SnapshotInv, LiveIsDurable, SnapshotExact
<1>7. CallsInv'
  BY <1>1, <1>2 DEF CallsInv
<1> QED
  BY <1>4, <1>5, <1>6, <1>7

\* A crash leaves the log, which is all a stopped Worker has.
LEMMA CrashStep ==
    ASSUME IInv, Crash
    PROVE  IInv'
<1> USE DEF IInv
<1>1. /\ up' = FALSE /\ live' = NoFlow /\ turn' = IdleTurn /\ inFlight' = FALSE
      /\ calls' = [c \in Calls |-> IdleCall] /\ apart' = FALSE
      /\ UNCHANGED <<log, inputs, nextInst, nextAttempt>>
  BY DEF Crash
<1>2. IdleCall.verifying = FALSE /\ IdleCall.slot = NoSlot
      /\ DOMAIN IdleCall = {"verifying", "attempt", "slot"}
  BY DEF IdleCall
<1>3. DOMAIN calls' = Calls /\ \A c \in Calls : calls'[c] = IdleCall
  BY <1>1
<1>4. \A c \in Calls :
        /\ DOMAIN calls'[c] = {"verifying", "attempt", "slot"}
        /\ calls'[c].verifying = FALSE
        /\ calls'[c].slot = NoSlot \/ calls'[c].slot.kind = "Completed"
  BY <1>2, <1>3, Zenon
<1>5. ShapeInv' /\ LogIsSequence'
  BY <1>1, <1>3, <1>4, IdleTurnFields DEF ShapeInv, LogIsSequence
<1>6. FlowsInv'
  BY <1>1, IdleTurnFields DEF FlowsInv, FlowKept
<1>7. SnapshotInv'
  BY <1>1, IdleTurnFields DEF SnapshotInv, LiveIsDurable, SnapshotExact
<1>8. CallsInv'
  BY <1>1, <1>4 DEF CallsInv
<1> QED
  BY <1>5, <1>6, <1>7, <1>8

\* A restart makes the newest Flow of the log live.
LEMMA RestoreStep ==
    ASSUME IInv, Restore
    PROVE  IInv'
<1> USE DEF IInv
<1>1. /\ ~up /\ up' = TRUE /\ live' = Restored(log)
      /\ UNCHANGED <<log, inputs, apart, turn, inFlight, calls, nextInst, nextAttempt>>
  BY DEF Restore
<1>2. ~turn.running /\ ~turn.rollbackable /\ \A c \in Calls : ~calls[c].verifying
  BY <1>1 DEF SnapshotInv, SnapshotExact, CallsInv
<1>3. FlowKept(Restored(log), nextInst)
  BY RestoredKept DEF LogIsSequence, FlowsInv, ShapeInv
<1>4. ShapeInv' /\ LogIsSequence'
  BY <1>1 DEF ShapeInv, LogIsSequence
<1>5. FlowsInv'
  BY <1>1, <1>3 DEF FlowsInv
<1>6. SnapshotInv'
  BY <1>1, <1>2 DEF SnapshotInv, LiveIsDurable, SnapshotExact
<1>7. CallsInv'
  BY <1>1, <1>2 DEF CallsInv
<1> QED
  BY <1>4, <1>5, <1>6, <1>7

------------------------------------------------------------------------------
\* Theorems

\* Every step preserves the invariant.
LEMMA NextIInv ==
    ASSUME IInv, [Next]_vars
    PROVE  IInv'
<1>1. CASE SubmitPlain
  BY <1>1, SubmitPlainStep
<1>2. ASSUME NEW d \in Definitions, SubmitFlow(d) PROVE IInv'
  BY <1>2, SubmitFlowStep
<1>3. CASE AiActivity
  BY <1>3, AiActivityStep
<1>4. ASSUME NEW c \in Calls, BeginTransition(c) PROVE IInv'
  BY <1>4, BeginTransitionStep
<1>5. ASSUME NEW c \in Calls, FinishVerification(c) PROVE IInv'
  BY <1>5, FinishVerificationStep
<1>6. ASSUME NEW c \in Calls, ResolveTransition(c) PROVE IInv'
  BY <1>6, ResolveTransitionStep
<1>7. ASSUME NEW c \in Calls, DropCall(c) PROVE IInv'
  BY <1>7, DropCallStep
<1>8. CASE EndTurn
  BY <1>8, EndTurnStep
<1>9. CASE RollbackTurn
  BY <1>9, RollbackTurnStep
<1>10. CASE Compact
  BY <1>10, CompactStep
<1>11. CASE Crash
  BY <1>11, CrashStep
<1>12. CASE Restore
  BY <1>12, RestoreStep
<1>13. ASSUME NEW n \in inputs, Rewind(n) PROVE IInv'
  BY <1>13, RewindStep
<1>14. CASE Fork
  BY <1>14, ForkStep
<1>15. CASE UNCHANGED vars
  BY <1>15 DEF IInv, LogIsSequence, ShapeInv, FlowsInv, SnapshotInv, LiveIsDurable,
               SnapshotExact, CallsInv, vars
<1> QED
  BY <1>1, <1>2, <1>3, <1>4, <1>5, <1>6, <1>7, <1>8, <1>9, <1>10, <1>11, <1>12, <1>13,
     <1>14, <1>15 DEF Next

\* IInv is an invariant, whatever writes fail and whatever is rewound.
THEOREM FlowInvariant == Spec => []IInv
<1>1. Init => IInv
  BY InitIInv
<1>2. IInv /\ [Next]_vars => IInv'
  BY NextIInv
<1> QED
  BY <1>1, <1>2, PTL DEF Spec

\* A running Worker's Flow state is the one its Session log restores, after any
\* sequence of commits that fail or not, rollbacks, compactions and crashes, except
\* from a rewind, a fork or a failed truncation up to the next commit, compaction
\* or restart.
THEOREM LiveFlowIsDurable == Spec => []LiveIsDurable
<1>1. IInv => LiveIsDurable
  BY DEF IInv, SnapshotInv
<1> QED
  BY <1>1, FlowInvariant, PTL

\* There is one verification at a time and its verdict always meets the attempt
\* it was made for, on an instance that has not moved.
THEOREM VerdictsAlwaysFit == Spec => []VerdictsFitAttempt
<1>1. IInv => VerdictsFitAttempt
  BY DEF IInv, CallsInv, FlowsInv, FlowKept, VerdictsFitAttempt, CanResolve
<1> QED
  BY <1>1, FlowInvariant, PTL

------------------------------------------------------------------------------
\* Types.

\* The parts of TypeOK that IInv does not already say.
InRange(st) ==
    \/ st = NoFlow
    \/ /\ st.status \in {"Active", "Completed", "Cancelled"}
       /\ st.activeId \in 0 .. MaxAttempts

RangeInv ==
    /\ nextInst <= MaxInstances + 1 /\ nextAttempt <= MaxAttempts + 1
    /\ turn.entries \in Nat
    /\ InRange(live) /\ InRange(turn.live)
    /\ \A i \in DOMAIN log : InRange(log[i])

\* A fresh instance is in range.
LEMMA StartInRange ==
    ASSUME NEW d \in Definitions, NEW n
    PROVE  InRange(StartState(n, d))
  BY BoundsAssumption DEF InRange, StartState, InitialStatus, NoId

\* An attempt id that begin_transition may use keeps a Flow state in range.
LEMMA BeginInRange ==
    ASSUME NEW st, NEW n \in Nat, st # NoFlow, FlowKept(st, n), InRange(st),
           NEW id \in 1 .. MaxAttempts
    PROVE  InRange(BeginState(st, id))
<1>1. BeginState(st, id).status = st.status /\ BeginState(st, id).activeId = id
  BY DEF FlowKept, BeginState
<1> QED
  BY <1>1, BoundsAssumption DEF InRange

\* A settled Flow state has no active attempt.
LEMMA SettleInRange ==
    ASSUME NEW st, NEW n \in Nat, st # NoFlow, FlowKept(st, n), InRange(st), NEW es
    PROVE  InRange(Settle(st, es))
<1>1. Settle(st, es).status = st.status /\ Settle(st, es).activeId = NoId
  BY DEF FlowKept, Settle
<1> QED
  BY <1>1, BoundsAssumption DEF InRange, NoId

\* So has one that was moved by an accepted verdict.
LEMMA EnteredInRange ==
    ASSUME NEW st, NEW n \in Nat, st # NoFlow, FlowKept(st, n), NEW results
    PROVE  InRange(Entered(st, results))
<1> DEFINE r == Entered(st, results)
           t == TransitionOf(st.attempt, CHOOSE id \in MetIds(results) : TRUE)
           status == IF t.target = Cancelled THEN "Cancelled"
                     ELSE IF t.target \in st.def.terminal THEN "Completed" ELSE "Active"
           es == <<Event("TransitionCheckPassed", st.activeId,
                            [transition |-> t, results |-> results]),
                   Event("StateEntered", st.activeId,
                            [state |-> t.target, status |-> status])>>
           s == Settle(st, es)
<1>1. r = [s EXCEPT !.cur = t.target, !.status = status]
  BY Zenon DEF Entered
<1>2. DOMAIN s = DOMAIN st /\ s.activeId = NoId
  <2> HIDE DEF es
  <2> QED
    BY DEF FlowKept, Settle
<1>3. r.status = status /\ r.activeId = NoId
  <2> HIDE DEF s, r, t, status, es
  <2> QED
    BY <1>1, <1>2 DEF FlowKept
<1>4. status \in {"Active", "Completed", "Cancelled"}
  <2> HIDE DEF t
  <2> QED
    OBVIOUS
<1>5. InRange(r)
  <2> HIDE DEF r, status
  <2> QED
    BY <1>3, <1>4, BoundsAssumption DEF InRange, NoId
<1> QED
  BY <1>5

\* Every outcome of a verification leaves a Flow state in range.
LEMMA ResolveInRange ==
    ASSUME NEW st, NEW n \in Nat, st # NoFlow, FlowKept(st, n), InRange(st),
           NEW outcome, outcome.kind \in {"Cancelled", "Failed", "Completed"}
    PROVE  InRange(ResolveState(st, outcome))
<1>1. ASSUME NEW es PROVE InRange(Settle(st, es))
  BY SettleInRange
<1>2. ASSUME NEW code PROVE InRange(Rejected(st, code))
  BY <1>1 DEF Rejected
<1>3. ASSUME NEW results PROVE InRange(Entered(st, results))
  BY EnteredInRange
<1>4. InRange(ResolveCompleted(st, outcome))
  BY <1>2, <1>3 DEF ResolveCompleted
<1> QED
  BY <1>1, <1>4 DEF ResolveState

\* A commit adds at most the given state to what is live and durable.
LEMMA CommitInRange ==
    ASSUME LogIsSequence, RangeInv, NEW st, NEW appended \in BOOLEAN, InRange(st),
           Commit(st, appended)
    PROVE  InRange(live') /\ \A i \in DOMAIN log' : InRange(log'[i])
<1>1. PICK S : log \in Seq(S)
  BY DEF LogIsSequence
<1>2. \A i \in DOMAIN Append(log, st) : \/ Append(log, st)[i] = st
                                        \/ i \in DOMAIN log /\ Append(log, st)[i] = log[i]
  BY <1>1, RestoredAppend
<1> QED
  BY <1>2 DEF Commit, RangeInv

\* Every step keeps the ranges.
LEMMA NextInRange ==
    ASSUME IInv, RangeInv, [Next]_vars
    PROVE  RangeInv'
<1> USE DEF IInv
<1>s. PICK S : log \in Seq(S)
  BY DEF LogIsSequence
<1>n. /\ nextInst \in Nat \ {0} /\ nextAttempt \in Nat \ {0} /\ Len(log) \in Nat
      /\ FlowKept(live, nextInst)
  BY <1>s DEF ShapeInv, FlowsInv
<1>i. InRange(NoFlow) /\ InRange(IdleTurn.live) /\ IdleTurn.entries \in Nat
  BY DEF InRange, IdleTurn
<1>1. CASE SubmitPlain
  BY <1>1, <1>n DEF SubmitPlain, OpenTurn, RangeInv
<1>2. ASSUME NEW d \in Definitions, SubmitFlow(d) PROVE RangeInv'
  <2>1. PICK appended \in BOOLEAN :
          /\ Commit(StartState(nextInst, d), appended)
          /\ IF appended THEN OpenTurn ELSE UNCHANGED <<turn, inputs>>
          /\ nextInst' = IF appended THEN nextInst + 1 ELSE nextInst
    BY <1>2 DEF SubmitFlow
  <2>2. InRange(live') /\ \A i \in DOMAIN log' : InRange(log'[i])
    BY <2>1, StartInRange, CommitInRange
  <2>3. nextInst <= MaxInstances /\ nextAttempt' = nextAttempt
    BY <1>2 DEF SubmitFlow
  <2>4. nextInst' <= MaxInstances + 1
    BY <1>n, <2>1, <2>3, BoundsAssumption DEF RangeInv
  <2>5. turn'.entries \in Nat /\ InRange(turn'.live)
    BY <1>n, <2>1 DEF OpenTurn, RangeInv
  <2> QED
    BY <2>2, <2>3, <2>4, <2>5 DEF RangeInv
<1>3. CASE AiActivity
  <2>1. turn'.entries = turn.entries /\ turn'.live = turn.live
    BY <1>3 DEF AiActivity, ShapeInv
  <2> QED
    BY <1>3, <2>1 DEF AiActivity, RangeInv
<1>4. ASSUME NEW c \in Calls, BeginTransition(c) PROVE RangeInv'
  <2>1. CASE UNCHANGED <<live, log, nextAttempt>>
    BY <1>4, <2>1 DEF BeginTransition, RangeInv
  <2>2. CASE /\ nextAttempt <= MaxAttempts
             /\ Commit(BeginState(live, nextAttempt), TRUE)
             /\ nextAttempt' = nextAttempt + 1
    <3>1. live # NoFlow /\ UNCHANGED <<turn, nextInst>>
      BY <1>4 DEF BeginTransition
    <3>2. nextAttempt \in 1 .. MaxAttempts
      BY <1>n, <2>2, BoundsAssumption
    <3>3. InRange(BeginState(live, nextAttempt))
      BY <1>n, <3>1, <3>2, BeginInRange DEF RangeInv
    <3>4. InRange(live') /\ \A i \in DOMAIN log' : InRange(log'[i])
      BY <2>2, <3>3, CommitInRange
    <3> QED
      BY <1>n, <2>2, <3>1, <3>4, BoundsAssumption DEF RangeInv
  <2> QED
    BY <1>4, <2>1, <2>2 DEF BeginTransition
<1>5. ASSUME NEW c \in Calls, FinishVerification(c) PROVE RangeInv'
  BY <1>5 DEF FinishVerification, RangeInv
<1>6. ASSUME NEW c \in Calls, ResolveTransition(c) PROVE RangeInv'
  <2>1. UNCHANGED <<turn, nextInst, nextAttempt>>
    BY <1>6 DEF ResolveTransition
  <2>2. PICK outcome \in VerifierOutcomes(calls[c].slot), appended \in BOOLEAN :
          IF live # NoFlow /\ CanResolve(live, calls[c].attempt.id)
          THEN Commit(ResolveState(live, outcome), appended)
          ELSE UNCHANGED <<live, log, apart>>
    BY <1>6 DEF ResolveTransition
  <2>3. outcome.kind \in {"Cancelled", "Failed", "Completed"}
    <3>1. calls[c].slot = NoSlot \/ calls[c].slot.kind = "Completed"
      BY DEF ShapeInv
    <3>2. \/ outcome = [kind |-> "Failed"]
          \/ outcome = [kind |-> "Cancelled"]
          \/ outcome = calls[c].slot /\ calls[c].slot # NoSlot
      BY DEF VerifierOutcomes
    <3> QED
      BY <3>1, <3>2
  <2>4. live # NoFlow => InRange(ResolveState(live, outcome))
    BY <1>n, <2>3, ResolveInRange DEF RangeInv
  <2>5. InRange(live') /\ \A i \in DOMAIN log' : InRange(log'[i])
    BY <2>2, <2>4, CommitInRange DEF RangeInv
  <2> QED
    BY <2>1, <2>5 DEF RangeInv
<1>7. ASSUME NEW c \in Calls, DropCall(c) PROVE RangeInv'
  BY <1>7 DEF DropCall, RangeInv
<1>8. CASE EndTurn
  BY <1>8, <1>i DEF EndTurn, RangeInv
<1>9. CASE RollbackTurn
  <2>1. /\ turn.rollbackable /\ turn' = IdleTurn /\ live' = turn.live
        /\ log' = SubSeq(log, 1, turn.entries) \/ log' = log
        /\ UNCHANGED <<nextInst, nextAttempt>>
    BY <1>9 DEF RollbackTurn
  <2>2. turn.entries \in 0 .. Len(log)
    BY <2>1 DEF SnapshotInv, SnapshotExact
  <2>3. \A i \in DOMAIN log' : i \in DOMAIN log /\ log'[i] = log[i]
    <3>1. LET cut == SubSeq(log, 1, turn.entries)
          IN  \A i \in DOMAIN cut : i \in DOMAIN log /\ cut[i] = log[i]
      BY <1>s, <2>2, RestoredCut
    <3> QED
      BY <2>1, <3>1, Zenon
  <2>4. \A i \in DOMAIN log' : InRange(log'[i])
    BY <2>3, Zenon DEF RangeInv
  <2>5. turn'.entries \in Nat /\ InRange(turn'.live) /\ InRange(live')
    BY <1>i, <2>1 DEF RangeInv
  <2> QED
    BY <2>1, <2>4, <2>5 DEF RangeInv
<1>10. CASE Compact
  <2>1. turn'.entries = turn.entries /\ turn'.live = turn.live
    BY <1>10 DEF Compact, ShapeInv
  <2>2. \A i \in DOMAIN log' : log'[i] = live
    BY <1>10 DEF Compact
  <2> QED
    BY <1>10, <2>1, <2>2 DEF Compact, RangeInv
<1>11. CASE Crash
  BY <1>11, <1>i DEF Crash, RangeInv
<1>12. CASE Restore
  <2>1. InRange(Restored(log))
    BY <1>s, <1>i DEF Restored, Last, RangeInv
  <2> QED
    BY <1>12, <2>1 DEF Restore, RangeInv
<1>13. ASSUME NEW n \in inputs, Rewind(n) PROVE RangeInv'
  <2>1. log' = SubSeq(log, 1, n) /\ n \in 0 .. Len(log)
    BY <1>13 DEF Rewind, SnapshotInv, SnapshotExact
  <2>2. \A i \in DOMAIN log' : i \in DOMAIN log /\ log'[i] = log[i]
    BY <1>s, <2>1, RestoredCut
  <2> QED
    BY <1>13, <2>2 DEF Rewind, RangeInv
<1>14. CASE Fork
  BY <1>14 DEF Fork, RangeInv
<1>15. CASE UNCHANGED vars
  BY <1>15 DEF RangeInv, vars
<1> QED
  BY <1>1, <1>2, <1>3, <1>4, <1>5, <1>6, <1>7, <1>8, <1>9, <1>10, <1>11, <1>12, <1>13,
     <1>14, <1>15 DEF Next

\* Every field the Worker keeps about its Flow, in memory, in the Session log and
\* in the rollback snapshot, stays in its range, for any bounds.
THEOREM FlowTyped == Spec => []TypeOK
<1>1. Init => RangeInv
  BY BoundsAssumption DEF Init, RangeInv, InRange, IdleTurn
<1>2. IInv /\ RangeInv /\ [Next]_vars => RangeInv'
  BY NextInRange
<1>3. IInv /\ RangeInv => TypeOK
  <2> SUFFICES ASSUME IInv, RangeInv PROVE TypeOK
    OBVIOUS
  <2>1. nextInst \in 1 .. MaxInstances + 1 /\ nextAttempt \in 1 .. MaxAttempts + 1
    BY BoundsAssumption DEF IInv, ShapeInv, RangeInv
  <2>2. ASSUME NEW st, FlowKept(st, nextInst), InRange(st) PROVE TypedFlow(st)
    BY <2>1, <2>2, BoundsAssumption DEF FlowKept, InRange, TypedFlow
  <2>3. TypedFlow(live) /\ TypedFlow(turn.live)
    BY <2>2 DEF IInv, FlowsInv, RangeInv
  <2>4. \A i \in DOMAIN log : log[i] # NoFlow /\ TypedFlow(log[i])
    BY <2>2 DEF IInv, FlowsInv, RangeInv
  <2>5. /\ turn.rollbackable => turn.running /\ turn.entries <= Len(log)
        /\ inputs \subseteq 0 .. Len(log)
    BY DEF IInv, SnapshotInv, SnapshotExact
  <2> QED
    BY <2>1, <2>3, <2>4, <2>5 DEF TypeOK, IInv, ShapeInv, RangeInv
<1> QED
  BY <1>1, <1>2, <1>3, FlowInvariant, PTL DEF Spec

------------------------------------------------------------------------------
\* The Flow a Worker goes on with keeps the contract.

\* The contract's variables, as the refinement mapping computes them; its "loose"
\* is apart.
CFlow == Projection(Current)
CUndo == IF turn.running /\ turn.rollbackable THEN <<Projection(turn.live)>> ELSE <<>>
CKept == {Projection(st) : st \in ToSet(log) \cup {NoFlow}}

\* A step that the contract does not see.
LEMMA Unseen ==
    ASSUME CFlow' = CFlow, CUndo' = CUndo, CKept' = CKept, apart' = apart
    PROVE  [Contract!CNext]_(Contract!cvars)
  BY DEF CFlow, CUndo, CKept, Contract!cvars

\* A turn is opened.
LEMMA OpenSeen ==
    ASSUME CFlow' = CFlow, CUndo' = <<CFlow>>, CKept' \subseteq CKept \cup {CFlow'}, apart' = apart
    PROVE  [Contract!CNext]_(Contract!cvars)
  BY DEF CFlow, CUndo, CKept, Contract!CNext, Contract!Open

\* A turn can no longer be undone, or the Flow was written to the log.
LEMMA KeepSeen ==
    ASSUME CFlow' = CFlow, CUndo' = <<>>, CKept' \subseteq CKept \cup {CFlow'}, apart' => apart
    PROVE  [Contract!CNext]_(Contract!cvars)
  BY DEF CFlow, CUndo, CKept, Contract!CNext, Contract!Keep

\* The log is shortened between two turns.
LEMMA LoosenSeen ==
    ASSUME CFlow' = CFlow, CUndo = <<>>, CUndo' = <<>>, CKept' \subseteq CKept
    PROVE  [Contract!CNext]_(Contract!cvars)
<1>1. CKept' \subseteq CKept \cup {CFlow'}
  OBVIOUS
<1>2. Contract!Loosen
  BY DEF CFlow, CUndo, CKept, Contract!Loosen
<1> QED
  BY <1>1, <1>2, Zenon DEF CFlow, CKept, Contract!CNext

\* The contract sees id, definition, state and status of an instance unchanged.
LEMMA ProjectionFields ==
    ASSUME NEW st, NEW n \in Nat, st # NoFlow, FlowKept(st, n)
    PROVE  /\ Projection(st) # NoFlow
           /\ Projection(st).inst = st.inst /\ Projection(st).def = st.def
           /\ Projection(st).cur = st.cur /\ Projection(st).status = st.status
<1>1. /\ Projection(st).inst = st.inst /\ Projection(st).def = st.def
      /\ Projection(st).cur = st.cur /\ Projection(st).status = st.status
  BY DEF Projection
<1>2. st.inst # 0
  BY DEF FlowKept
<1> QED
  BY <1>1, <1>2 DEF NoFlow

\* What a commit appends is all that it adds to the flows a restart may find.
LEMMA CommitKeeps ==
    ASSUME LogIsSequence, NEW st, log' = Append(log, st)
    PROVE  CKept' \subseteq CKept \cup {Projection(st)}
<1>1. PICK S : log \in Seq(S)
  BY DEF LogIsSequence
<1>2. \A i \in DOMAIN log' : log'[i] = st \/ (i \in DOMAIN log /\ log'[i] = log[i])
  BY <1>1, RestoredAppend
<1>3. ToSet(log') \subseteq ToSet(log) \cup {st}
  BY <1>2, Zenon DEF ToSet
<1> QED
  BY <1>3, Zenon DEF CKept

\* A cut log holds nothing new.
LEMMA CutKeeps ==
    ASSUME LogIsSequence, NEW n \in 0 .. Len(log), log' = SubSeq(log, 1, n)
    PROVE  CKept' \subseteq CKept
<1>1. PICK S : log \in Seq(S)
  BY DEF LogIsSequence
<1>2. \A i \in DOMAIN log' : i \in DOMAIN log /\ log'[i] = log[i]
  BY <1>1, RestoredCut
<1>3. ToSet(log') \subseteq ToSet(log)
  BY <1>2, Zenon DEF ToSet
<1> QED
  BY <1>3, Zenon DEF CKept

\* A log that stays gives the same choice to a restart.
LEMMA SameKept ==
    ASSUME log' = log
    PROVE  CKept' = CKept
  BY Zenon DEF CKept

\* What a restart restores is one of the flows it may find.
LEMMA RestoredIsKept ==
    ASSUME LogIsSequence
    PROVE  Projection(Restored(log)) \in CKept
<1>1. PICK S : log \in Seq(S)
  BY DEF LogIsSequence
<1>2. Restored(log) = NoFlow \/ Restored(log) \in ToSet(log)
  BY <1>1 DEF Restored, Last, ToSet
<1> QED
  BY <1>2, Zenon DEF CKept

\* A Submit that starts a Flow is a Start of the contract.
LEMMA SubmitFlowKeepsContract ==
    ASSUME IInv, IInv', NEW d \in Definitions, SubmitFlow(d)
    PROVE  [Contract!CNext]_(Contract!cvars)
<1>1. PICK appended \in BOOLEAN :
        /\ Commit(StartState(nextInst, d), appended)
        /\ IF appended THEN OpenTurn ELSE UNCHANGED <<turn, inputs>>
  BY DEF SubmitFlow
<1>0. up = TRUE /\ up' = TRUE
  BY DEF SubmitFlow, IInv, ShapeInv
<1>2. CASE ~appended
  <2>1. log' = log /\ turn' = turn /\ live' = live /\ apart' = apart
    BY <1>1, <1>2 DEF Commit
  <2>2. CFlow' = CFlow /\ CUndo' = CUndo /\ CKept' = CKept
    BY <1>0, <2>1, Zenon DEF CFlow, CUndo, CKept, Current
  <2> QED
    BY <2>1, <2>2, Unseen
<1>3. CASE appended
  <2> DEFINE st == StartState(nextInst, d)
  <2>1. /\ log' = Append(log, st) /\ live' = st /\ apart' = FALSE
        /\ turn'.running = TRUE /\ turn'.rollbackable = TRUE /\ turn'.live = live
        /\ ~HasActiveFlow(live) /\ nextInst <= MaxInstances
    BY <1>1, <1>3 DEF Commit, OpenTurn, SubmitFlow
  <2>2. nextInst \in Nat \ {0} /\ FlowKept(live, nextInst)
    BY DEF IInv, ShapeInv, FlowsInv
  <2>3. CFlow = Projection(live) /\ CFlow' = Projection(st)
    BY <1>0, <2>1, Zenon DEF CFlow, Current
  <2>4. CUndo' = <<CFlow>>
    BY <2>1, <2>3, Zenon DEF CUndo
  <2>5. CKept' \subseteq CKept \cup {CFlow'}
    BY <2>1, <2>3, CommitKeeps DEF IInv
  <2>6. Projection(st) = [inst |-> nextInst, def |-> d, cur |-> d.initial,
                          status |-> Contract!StatusOf(d, d.initial)]
    <3>1. /\ st # NoFlow /\ st.inst = nextInst /\ st.def = d /\ st.cur = d.initial
          /\ st.status = IF d.initial \in d.terminal THEN "Completed" ELSE "Active"
      BY <2>2, StartKept
    <3>2. d.initial # Cancelled
      BY DefinitionsAssumption DEF WellFormedDefinition
    <3>3. st.status = Contract!StatusOf(d, d.initial)
      BY <3>1, <3>2 DEF Contract!StatusOf
    <3> QED
      BY <3>1, <3>3, Zenon DEF Projection
  <2> HIDE DEF st
  <2>7. CFlow # NoFlow => CFlow.status # "Active"
    <3>1. live = NoFlow => CFlow = NoFlow
      BY <2>3 DEF Projection
    <3>2. live # NoFlow => CFlow.status = live.status
      BY <2>2, <2>3, ProjectionFields
    <3> QED
      BY <2>1, <3>1, <3>2 DEF HasActiveFlow
  <2>8. \A f \in CKept \cup {CFlow} : f # NoFlow => nextInst > f.inst
    <3>1. ASSUME NEW s, FlowKept(s, nextInst), Projection(s) # NoFlow
          PROVE  nextInst > Projection(s).inst
      <4>1. s # NoFlow
        BY <3>1 DEF Projection
      <4> QED
        BY <2>2, <3>1, <4>1, ProjectionFields DEF FlowKept
    <3>2. \A s \in ToSet(log) \cup {NoFlow, live} : FlowKept(s, nextInst)
      BY DEF IInv, FlowsInv, ToSet, FlowKept
    <3>3. \A f \in CKept \cup {CFlow} : \E s \in ToSet(log) \cup {NoFlow, live} : f = Projection(s)
      BY <2>3, Zenon DEF CKept
    <3> QED
      BY <3>1, <3>2, <3>3, Zenon
  <2>9. nextInst \in 1 .. MaxInstances
    BY <2>1, <2>2, BoundsAssumption
  <2>10. Contract!Start(d, nextInst)
    BY <2>1, <2>3, <2>4, <2>6, <2>7, <2>8, Zenon DEF Contract!Start, CFlow, CUndo, CKept
  <2> QED
    BY <2>5, <2>9, <2>10, Zenon DEF Contract!CNext, CFlow, CKept
<1> QED
  BY <1>2, <1>3

\* Opening an attempt is invisible to the contract.
LEMMA BeginKeepsContract ==
    ASSUME IInv, IInv', NEW c \in Calls, BeginTransition(c)
    PROVE  [Contract!CNext]_(Contract!cvars)
<1>1. up = TRUE /\ up' = TRUE /\ turn.rollbackable = FALSE /\ turn' = turn /\ live # NoFlow
  BY DEF BeginTransition, IInv, ShapeInv
<1>2. nextInst \in Nat /\ nextAttempt \in Nat \ {0} /\ FlowKept(live, nextInst)
  BY DEF IInv, ShapeInv, FlowsInv
<1>3. CUndo = <<>> /\ CUndo' = <<>> /\ CFlow = Projection(live) /\ CFlow' = Projection(live')
  BY <1>1, Zenon DEF CUndo, CFlow, Current
<1>4. CASE UNCHANGED <<live, log, apart, nextAttempt>>
  <2>1. live' = live /\ CKept' = CKept /\ apart' = apart
    BY <1>4, SameKept
  <2> QED
    BY <1>3, <2>1, Unseen
<1>5. CASE /\ CanBegin(live, nextAttempt)
           /\ Commit(BeginState(live, nextAttempt), TRUE)
  <2> DEFINE b == BeginState(live, nextAttempt)
  <2>1. /\ b # NoFlow
        /\ b.inst = live.inst /\ b.def = live.def /\ b.cur = live.cur /\ b.status = live.status
    BY <1>1, <1>2, <1>5, BeginKept
  <2>2. live' = b /\ log' = Append(log, b) /\ apart' = FALSE
    BY <1>5 DEF Commit
  <2> HIDE DEF b
  <2>3. CFlow' = CFlow
    BY <1>1, <1>3, <2>1, <2>2, Zenon DEF Projection
  <2>4. CKept' \subseteq CKept \cup {CFlow'}
    BY <1>3, <2>2, CommitKeeps DEF IInv
  <2> QED
    BY <1>3, <2>2, <2>3, <2>4, KeepSeen
<1> QED
  BY <1>4, <1>5 DEF BeginTransition

\* A verdict is a Move of the contract, or invisible.
LEMMA ResolveKeepsContract ==
    ASSUME IInv, IInv', NEW c \in Calls, ResolveTransition(c)
    PROVE  [Contract!CNext]_(Contract!cvars)
<1>1. up = TRUE /\ up' = TRUE /\ turn' = turn /\ calls[c].verifying
  BY DEF ResolveTransition, IInv, ShapeInv
<1>2. /\ nextInst \in Nat /\ FlowKept(live, nextInst)
      /\ turn.rollbackable = FALSE /\ live # NoFlow /\ live.attempt # NoAttempt
  BY <1>1 DEF IInv, ShapeInv, FlowsInv, CallsInv
<1>3. CUndo = <<>> /\ CUndo' = <<>> /\ CFlow = Projection(live) /\ CFlow' = Projection(live')
  BY <1>1, <1>2, Zenon DEF CUndo, CFlow, Current
<1>6. PICK outcome \in VerifierOutcomes(calls[c].slot), appended \in BOOLEAN :
        IF live # NoFlow /\ CanResolve(live, calls[c].attempt.id)
        THEN Commit(ResolveState(live, outcome), appended)
        ELSE UNCHANGED <<live, log, apart>>
  BY DEF ResolveTransition
<1>7. CASE UNCHANGED <<live, log, apart>>
  <2>1. live' = live /\ CKept' = CKept /\ apart' = apart
    BY <1>7, SameKept
  <2> QED
    BY <1>3, <2>1, Unseen
<1>8. CASE Commit(ResolveState(live, outcome), TRUE)
  <2>0. live' = ResolveState(live, outcome) /\ log' = Append(log, live') /\ apart' = FALSE
    BY <1>8 DEF Commit
  <2>1. outcome.kind \in {"Cancelled", "Failed", "Completed"}
    <3>1. calls[c].slot = NoSlot \/ calls[c].slot.kind = "Completed"
      BY DEF IInv, ShapeInv
    <3>2. \/ outcome = [kind |-> "Failed"]
          \/ outcome = [kind |-> "Cancelled"]
          \/ outcome = calls[c].slot /\ calls[c].slot # NoSlot
      BY DEF VerifierOutcomes
    <3> QED
      BY <3>1, <3>2
  <2>2. /\ live' # NoFlow /\ live'.inst = live.inst /\ live'.def = live.def
        /\ Follows(live', live)
    BY <1>2, <2>0, <2>1, ResolveKept
  <2>k. CKept' \subseteq CKept \cup {CFlow'}
    BY <1>3, <2>0, CommitKeeps DEF IInv
  <2>3. CASE live'.cur = live.cur /\ live'.status = live.status
    <3>1. CFlow' = CFlow
      BY <1>2, <1>3, <2>2, <2>3, Zenon DEF Projection
    <3> QED
      BY <1>3, <2>0, <2>k, <3>1, KeepSeen
  <2>4. ASSUME NEW t \in Outgoing(live.def, live.cur), live'.cur = t.target,
               live'.status = IF t.target = Cancelled THEN "Cancelled"
                      ELSE IF t.target \in live.def.terminal THEN "Completed" ELSE "Active"
        PROVE  [Contract!CNext]_(Contract!cvars)
    <3>1. live'.status = Contract!StatusOf(live.def, t.target)
      BY <2>4 DEF Contract!StatusOf
    <3>2. /\ CFlow # NoFlow /\ CFlow.inst = live.inst /\ CFlow.def = live.def
          /\ CFlow.cur = live.cur /\ CFlow.status = "Active"
      <4>1. live.status = "Active"
        BY <1>2 DEF FlowKept
      <4> QED
        BY <1>2, <1>3, <4>1, ProjectionFields
    <3>3. CFlow' = [inst |-> CFlow.inst, def |-> CFlow.def, cur |-> t.target,
                    status |-> Contract!StatusOf(CFlow.def, t.target)]
      <4>1. CFlow' = [inst |-> live'.inst, def |-> live'.def, cur |-> live'.cur,
                      status |-> live'.status]
        BY <1>3, <2>2, Zenon DEF Projection
      <4> HIDE DEF CFlow
      <4> QED
        BY <2>2, <2>4, <3>1, <3>2, <4>1
    <3>4. Contract!Move(t)
      BY <1>3, <2>0, <3>2, <3>3, Zenon DEF Contract!Move, CFlow, CUndo
    <3>5. t \in Outgoing(CFlow.def, CFlow.cur)
      BY <2>4, <3>2
    <3>6. CFlow # NoFlow /\ \E u \in Outgoing(CFlow.def, CFlow.cur) : Contract!Move(u)
      BY <3>2, <3>4, <3>5, Zenon
    <3>7. Contract!CNext
      BY <2>k, <3>6, Zenon DEF Contract!CNext, Contract!Outgoing, Outgoing, CFlow, CKept
    <3> QED
      BY <3>7
  <2> QED
    BY <2>2, <2>3, <2>4 DEF Follows
<1> QED
  BY <1>6, <1>7, <1>8 DEF Commit

\* Undoing an empty turn is the Undo of the contract.
LEMMA RollbackKeepsContract ==
    ASSUME IInv, IInv', RollbackTurn
    PROVE  [Contract!CNext]_(Contract!cvars)
<1>1. /\ turn.running = TRUE /\ turn.rollbackable = TRUE /\ turn' = IdleTurn
      /\ live' = turn.live /\ up' = TRUE
      /\ log' = SubSeq(log, 1, turn.entries) \/ log' = log
      /\ turn.entries \in 0 .. Len(log)
  BY DEF RollbackTurn, IInv, ShapeInv, SnapshotInv, SnapshotExact
<1>2. CUndo' = <<>>
  BY <1>1, IdleTurnFields DEF CUndo
<1>3. CUndo = <<CFlow'>>
  BY <1>1, Zenon DEF CUndo, CFlow, Current
<1>4. CUndo # <<>> /\ CFlow' = CUndo[1]
  <2> HIDE DEF CUndo, CFlow
  <2> QED
    BY <1>3
<1>5. Contract!Undo
  BY <1>2, <1>4, Zenon DEF Contract!Undo, CFlow, CUndo
<1>6. CKept' \subseteq CKept \cup {CFlow'}
  BY <1>1, CutKeeps, SameKept DEF IInv
<1> QED
  BY <1>5, <1>6, Zenon DEF Contract!CNext, CFlow, CKept

\* A process that stops leaves what its log restores: the Flow it had, or after
\* the two came apart one of those before it.
LEMMA CrashKeepsContract ==
    ASSUME IInv, Crash
    PROVE  [Contract!CNext]_(Contract!cvars)
<1>1. up = TRUE /\ up' = FALSE /\ log' = log /\ turn' = IdleTurn /\ apart' = FALSE
  BY DEF Crash, IInv, ShapeInv
<1>2. CUndo' = <<>>
  BY <1>1, IdleTurnFields DEF CUndo
<1>3. CKept' = CKept
  BY <1>1, SameKept
<1>4. CFlow = Projection(live) /\ CFlow' = Projection(Restored(log))
  BY <1>1, Zenon DEF CFlow, Current
<1>5. CASE ~apart
  <2>1. live = Restored(log)
    BY <1>1, <1>5 DEF IInv, SnapshotInv, LiveIsDurable
  <2> QED
    BY <1>1, <1>2, <1>3, <1>4, <2>1, KeepSeen
<1>6. CASE apart
  <2>1. CFlow' \in CKept
    BY <1>4, RestoredIsKept DEF IInv
  <2>2. Contract!Recall
    BY <1>1, <1>2, <1>3, <1>6, <2>1, Zenon DEF Contract!Recall, CFlow, CUndo, CKept
  <2>3. CKept' \subseteq CKept \cup {CFlow'}
    BY <1>3, Zenon
  <2> QED
    BY <2>2, <2>3, Zenon DEF Contract!CNext, CFlow, CKept
<1> QED
  BY <1>5, <1>6

\* Every step is a step of the contract or leaves its variables alone.
LEMMA NextKeepsContract ==
    ASSUME IInv, IInv', [Next]_vars
    PROVE  [Contract!CNext]_(Contract!cvars)
<1>1. CASE SubmitPlain
  <2>1. /\ up = TRUE /\ up' = TRUE /\ live' = live /\ log' = log /\ apart' = apart
        /\ turn'.running = TRUE /\ turn'.rollbackable = TRUE /\ turn'.live = live
    BY <1>1 DEF SubmitPlain, OpenTurn, IInv, ShapeInv
  <2>2. CFlow' = CFlow /\ CUndo' = <<CFlow>> /\ CKept' = CKept
    BY <2>1, Zenon DEF CFlow, CUndo, CKept, Current
  <2> QED
    BY <2>1, <2>2, OpenSeen
<1>2. ASSUME NEW d \in Definitions, SubmitFlow(d) PROVE [Contract!CNext]_(Contract!cvars)
  BY <1>2, SubmitFlowKeepsContract
<1>3. CASE AiActivity \/ EndTurn
  <2>1. log' = log /\ live' = live /\ up' = up /\ apart' = apart /\ turn'.rollbackable = FALSE
    BY <1>3, IdleTurnFields DEF AiActivity, EndTurn, IInv, ShapeInv
  <2>2. CFlow' = CFlow /\ CUndo' = <<>> /\ CKept' = CKept
    BY <2>1, Zenon DEF CFlow, CUndo, CKept, Current
  <2> QED
    BY <2>1, <2>2, KeepSeen
<1>4. ASSUME NEW c \in Calls, BeginTransition(c) PROVE [Contract!CNext]_(Contract!cvars)
  BY <1>4, BeginKeepsContract
<1>5. ASSUME NEW c \in Calls, FinishVerification(c) \/ DropCall(c)
      PROVE  [Contract!CNext]_(Contract!cvars)
  <2>1. log' = log /\ turn' = turn /\ live' = live /\ up' = up /\ apart' = apart
    BY <1>5 DEF FinishVerification, DropCall
  <2>2. CFlow' = CFlow /\ CUndo' = CUndo /\ CKept' = CKept
    BY <2>1, Zenon DEF CFlow, CUndo, CKept, Current
  <2> QED
    BY <2>1, <2>2, Unseen
<1>6. ASSUME NEW c \in Calls, ResolveTransition(c) PROVE [Contract!CNext]_(Contract!cvars)
  BY <1>6, ResolveKeepsContract
<1>7. CASE Crash
  BY <1>7, CrashKeepsContract
<1>8. CASE RollbackTurn
  BY <1>8, RollbackKeepsContract
<1>9. CASE Compact
  <2>1. /\ up = TRUE /\ up' = TRUE /\ live' = live /\ turn'.rollbackable = FALSE
        /\ apart' = FALSE /\ \A i \in DOMAIN log' : log'[i] = live
    BY <1>9 DEF Compact, IInv, ShapeInv
  <2>2. CFlow' = CFlow /\ CUndo' = <<>> /\ CFlow' = Projection(live)
    BY <2>1, Zenon DEF CFlow, CUndo, Current
  <2>3. CKept' \subseteq CKept \cup {CFlow'}
    <3>1. \A st \in ToSet(log') : st = live
      BY <2>1, Zenon DEF ToSet
    <3>2. Projection(NoFlow) \in CKept
      BY Zenon DEF CKept
    <3> QED
      BY <2>2, <3>1, <3>2, Zenon DEF CKept
  <2> QED
    BY <2>1, <2>2, <2>3, KeepSeen
<1>10. CASE Restore
  <2>1. /\ log' = log /\ turn' = turn /\ up = FALSE /\ up' = TRUE /\ live' = Restored(log)
        /\ apart' = apart
    BY <1>10 DEF Restore, IInv, ShapeInv
  <2>2. CFlow' = CFlow /\ CUndo' = CUndo /\ CKept' = CKept
    BY <2>1, Zenon DEF CFlow, CUndo, CKept, Current
  <2> QED
    BY <2>1, <2>2, Unseen
<1>11. ASSUME up, ~turn.running, UNCHANGED <<up, live, turn>>, CKept' \subseteq CKept
       PROVE  [Contract!CNext]_(Contract!cvars)
  <2>1. /\ up = TRUE /\ up' = TRUE /\ live' = live
        /\ turn.running = FALSE /\ turn'.running = FALSE
    BY <1>11 DEF IInv, ShapeInv
  <2>2. CFlow' = CFlow /\ CUndo = <<>> /\ CUndo' = <<>>
    BY <2>1, Zenon DEF CFlow, CUndo, Current
  <2> QED
    BY <1>11, <2>2, LoosenSeen
<1>12. ASSUME NEW n \in inputs, Rewind(n) PROVE [Contract!CNext]_(Contract!cvars)
  <2>1. n \in 0 .. Len(log) /\ log' = SubSeq(log, 1, n)
    BY <1>12 DEF Rewind, IInv, SnapshotInv, SnapshotExact
  <2>2. CKept' \subseteq CKept
    BY <2>1, CutKeeps DEF IInv
  <2> QED
    BY <1>11, <1>12, <2>2 DEF Rewind
<1>13. CASE Fork
  <2>1. ToSet(log') = {}
    BY <1>13 DEF Fork, ToSet
  <2>2. CKept' \subseteq CKept
    BY <2>1, Zenon DEF CKept
  <2> QED
    BY <1>11, <1>13, <2>2 DEF Fork
<1>14. CASE UNCHANGED vars
  <2>1. log' = log /\ turn' = turn /\ live' = live /\ up' = up /\ apart' = apart
    BY <1>14 DEF vars
  <2>2. CFlow' = CFlow /\ CUndo' = CUndo /\ CKept' = CKept
    BY <2>1, Zenon DEF CFlow, CUndo, CKept, Current
  <2> QED
    BY <2>1, <2>2, Unseen
<1> QED
  BY <1>1, <1>2, <1>3, <1>4, <1>5, <1>6, <1>7, <1>8, <1>9, <1>10, <1>12, <1>13, <1>14 DEF Next

\* The Flow a Worker goes on with implements the contract: one instance at a time,
\* moves only along its pinned transitions, nothing taken back but an empty turn
\* or, by a restart after a rewind, a fork or a failed truncation, to a Flow the
\* Worker had before.
THEOREM FlowKeepsContract == Spec => KeepsContract
<1>1. Init => Contract!CInit
  <2> SUFFICES ASSUME Init PROVE Contract!CInit
    OBVIOUS
  <2>1. Current = NoFlow /\ ToSet(log) = {} /\ apart = FALSE
    BY DEF Init, Current, ToSet
  <2>2. turn.rollbackable = FALSE
    BY IdleTurnFields DEF Init
  <2>3. Projection(NoFlow) = NoFlow
    BY DEF Projection
  <2>4. {Projection(st) : st \in ToSet(log) \cup {NoFlow}} = {NoFlow}
    BY <2>1, <2>3, Zenon
  <2> QED
    BY <2>1, <2>2, <2>3, <2>4 DEF Contract!CInit
<1>2. IInv /\ IInv' /\ [Next]_vars => [Contract!CNext]_(Contract!cvars)
  BY NextKeepsContract
<1> QED
  BY <1>1, <1>2, FlowInvariant, PTL DEF Spec, KeepsContract, Contract!CSpec


------------------------------------------------------------------------------
\* The trail of events.

\* What begin_transition and resolve_transition do to a trail: they add events at
\* its end, and everything before them stays where it is.
LEMMA AddedEvents ==
    ASSUME NEW S, NEW s \in Seq(S), NEW T, NEW es \in Seq(T)
    PROVE  /\ s \o es \in Seq(S \cup T)
           /\ Len(s \o es) = Len(s) + Len(es)
           /\ Len(s) \in Nat /\ Len(es) \in Nat
           /\ \A i \in 1 .. Len(s) : (s \o es)[i] = s[i]
           /\ \A i \in 1 .. Len(es) : (s \o es)[Len(s) + i] = es[i]
           /\ \A i \in 1 .. Len(s) + Len(es) :
                i \in 1 .. Len(s) \/ (i - Len(s) \in 1 .. Len(es) /\ (s \o es)[i] = es[i - Len(s)])
           /\ \A k \in 0 .. Len(s) : SubSeq(s \o es, 1, k) = SubSeq(s, 1, k)
           /\ SubSeq(s \o es, 1, Len(s)) = s
<1> DEFINE t == s \o es
<1>1. s \in Seq(S \cup T) /\ es \in Seq(S \cup T)
  OBVIOUS
<1>2. t \in Seq(S \cup T) /\ Len(t) = Len(s) + Len(es) /\ Len(s) \in Nat /\ Len(es) \in Nat
  BY <1>1
<1>3. \A i \in 1 .. Len(s) : t[i] = s[i]
  BY <1>1, <1>2
<1>4. \A i \in 1 .. Len(es) : t[Len(s) + i] = es[i]
  BY <1>1, <1>2
<1>5. \A i \in 1 .. Len(s) + Len(es) :
        i \in 1 .. Len(s) \/ (i - Len(s) \in 1 .. Len(es) /\ t[i] = es[i - Len(s)])
  BY <1>1, <1>2
<1> HIDE DEF t
<1>6. ASSUME NEW k \in 0 .. Len(s) PROVE SubSeq(t, 1, k) = SubSeq(s, 1, k)
  BY <1>1, <1>2, <1>3
<1>7. SubSeq(s, 1, Len(s)) = s
  OBVIOUS
<1>8. SubSeq(t, 1, Len(s)) = s
  <2>1. Len(s) \in 0 .. Len(s)
    BY <1>2
  <2> QED BY <1>6, <1>7, <2>1
<1> QED BY <1>2, <1>3, <1>4, <1>5, <1>6, <1>8 DEF t

\* The largest member of a set of numbers, when there is one.
LEMMA LargestIs ==
    ASSUME NEW S \in SUBSET Nat, NEW m \in S, \A j \in S : j <= m
    PROVE  Max(S) = m
<1>1. \A y \in S : m >= y
  OBVIOUS
<1>2. \A x \in S : (\A y \in S : x >= y) => x = m
  OBVIOUS
<1> QED BY <1>1, <1>2 DEF Max

\* An entry after which no other state is entered is the last one.
LEMMA LastEnteredIs ==
    ASSUME NEW S, NEW s \in Seq(S), NEW m \in DOMAIN s, s[m].kind = "StateEntered",
           \A j \in DOMAIN s : s[j].kind = "StateEntered" => j <= m
    PROVE  LastEntered(s) = s[m].arg
<1> DEFINE I == {i \in DOMAIN s : s[i].kind = "StateEntered"}
<1>1. I \in SUBSET Nat /\ m \in I /\ \A j \in I : j <= m
  OBVIOUS
<1> HIDE DEF I
<1>2. Max(I) = m
  BY <1>1, LargestIs
<1> QED BY <1>2 DEF LastEntered, I

\* Whether an entry is justified depends on the events up to it only.
LEMMA EntryStaysJustified ==
    ASSUME NEW S, NEW s \in Seq(S), NEW T, NEW es \in Seq(T), NEW def,
           NEW i \in 2 .. Len(s), JustifiedEntry(def, s, i)
    PROVE  JustifiedEntry(def, s \o es, i)
<1> DEFINE t == s \o es
<1>1. t[i] = s[i] /\ t[i - 1] = s[i - 1] /\ SubSeq(t, 1, i - 2) = SubSeq(s, 1, i - 2)
  <2>1. i \in 1 .. Len(s) /\ i - 1 \in 1 .. Len(s) /\ i - 2 \in 0 .. Len(s)
    OBVIOUS
  <2> QED BY <2>1, AddedEvents
<1> HIDE DEF t
<1> QED BY <1>1, Zenon DEF JustifiedEntry, t

\* What Justified leaves open: the trail is a sequence that begins with the initial
\* state, the last entry stands in it, and an open attempt was its last event.
Trail(st) ==
    /\ \E S : st.events \in Seq(S)
    /\ \E m \in DOMAIN st.events :
        /\ st.events[m] = Event("StateEntered", st.events[m].id,
                                [state |-> st.cur, status |-> st.status])
        /\ \A j \in DOMAIN st.events : st.events[j].kind = "StateEntered" => j <= m
    /\ st.events[1].kind = "StateEntered"
    /\ st.attempt # NoAttempt =>
        Last(st.events) = Event("TransitionVerifying", st.attempt.id, st.cur)
    /\ Justified(st)

\* The fields of an event.
LEMMA EventFields ==
    ASSUME NEW k, NEW id, NEW arg
    PROVE  Event(k, id, arg).kind = k /\ Event(k, id, arg).id = id /\ Event(k, id, arg).arg = arg
  BY DEF Event

\* FlowRuntimeState::start leaves a trail of one entry.
LEMMA StartTrail ==
    ASSUME NEW d, NEW n
    PROVE  Trail(StartState(n, d))
<1> DEFINE st == StartState(n, d)
           e == Event("StateEntered", NoId, [state |-> d.initial, status |-> InitialStatus(d)])
<1>1. /\ st.events = <<e>> /\ st.cur = d.initial /\ st.status = InitialStatus(d)
      /\ st.attempt = NoAttempt
  BY DEF StartState
<1>2. /\ st.events \in Seq({e}) /\ Len(st.events) = 1 /\ DOMAIN st.events = {1}
      /\ st.events[1] = e
  BY <1>1
<1>3. e.kind = "StateEntered" /\ e.id = NoId /\ e.arg = [state |-> st.cur, status |-> st.status]
  BY <1>1, EventFields
<1>4. e = Event("StateEntered", e.id, [state |-> st.cur, status |-> st.status])
  BY <1>1, <1>3
<1> HIDE DEF st, e
<1>5. LastEntered(st.events) = [state |-> st.cur, status |-> st.status]
  BY <1>2, <1>3, LastEnteredIs
<1>6. Last(st.events) = e
  BY <1>2 DEF Last
<1>7. Justified(st)
  BY <1>1, <1>2, <1>3, <1>5, <1>6 DEF Justified
<1>8. /\ 1 \in DOMAIN st.events
      /\ st.events[1] = Event("StateEntered", st.events[1].id,
                              [state |-> st.cur, status |-> st.status])
      /\ \A j \in DOMAIN st.events : st.events[j].kind = "StateEntered" => j <= 1
  BY <1>2, <1>4
<1>9. Trail(st)
  BY <1>1, <1>2, <1>3, <1>7, <1>8 DEF Trail
<1> QED BY <1>9 DEF st

\* The same for the two events that begin an attempt or accept a verdict.
LEMMA TwoEvents ==
    ASSUME NEW S, NEW s \in Seq(S), NEW x, NEW y
    PROVE  LET t == s \o <<x, y>> IN
           /\ t \in Seq(S \cup {x, y}) /\ Len(t) = Len(s) + 2 /\ Len(s) \in Nat
           /\ DOMAIN s = 1 .. Len(s) /\ SubSeq(t, 1, Len(s)) = s
           /\ \A i \in 1 .. Len(s) : t[i] = s[i]
           /\ t[Len(s) + 1] = x /\ t[Len(s) + 2] = y
<1> DEFINE es == <<x, y>>
           t == s \o es
<1>1. es \in Seq({x, y}) /\ Len(es) = 2 /\ es[1] = x /\ es[2] = y
  OBVIOUS
<1> HIDE DEF es
<1>a. ASSUME NEW T, es \in Seq(T)
      PROVE  /\ t \in Seq(S \cup T) /\ Len(t) = Len(s) + Len(es) /\ Len(s) \in Nat
             /\ SubSeq(t, 1, Len(s)) = s
             /\ \A i \in 1 .. Len(s) : t[i] = s[i]
             /\ \A i \in 1 .. Len(es) : t[Len(s) + i] = es[i]
  BY <1>a, AddedEvents
<1>2. /\ t \in Seq(S \cup {x, y}) /\ Len(t) = Len(s) + Len(es) /\ Len(s) \in Nat
      /\ SubSeq(t, 1, Len(s)) = s
      /\ \A i \in 1 .. Len(s) : t[i] = s[i]
      /\ \A i \in 1 .. Len(es) : t[Len(s) + i] = es[i]
  BY <1>1, <1>a, Zenon
<1> HIDE DEF t
<1>3. t[Len(s) + 1] = x /\ t[Len(s) + 2] = y /\ DOMAIN s = 1 .. Len(s)
  BY <1>1, <1>2
<1> QED BY <1>1, <1>2, <1>3 DEF t, es

\* Events that enter no state and request no attempt keep what the trail says of
\* the entries and the attempt ids.
LEMMA OtherEvents ==
    ASSUME NEW st, Trail(st), NEW T, NEW es \in Seq(T),
           \A i \in 1 .. Len(es) : es[i].kind # "StateEntered"
    PROVE  LET t == st.events \o es IN
           /\ t[1].kind = "StateEntered"
           /\ \E m \in DOMAIN t :
                /\ t[m] = Event("StateEntered", t[m].id, [state |-> st.cur, status |-> st.status])
                /\ \A j \in DOMAIN t : t[j].kind = "StateEntered" => j <= m
           /\ LastEntered(t) = [state |-> st.cur, status |-> st.status]
           /\ \A j \in DOMAIN t \ {1} : t[j].kind = "StateEntered" => JustifiedEntry(st.def, t, j)
<1> DEFINE s == st.events
           t == s \o es
<1>1. PICK S : s \in Seq(S)
  BY DEF Trail
<1>2. PICK m \in DOMAIN s :
        /\ s[m] = Event("StateEntered", s[m].id, [state |-> st.cur, status |-> st.status])
        /\ \A j \in DOMAIN s : s[j].kind = "StateEntered" => j <= m
  BY DEF Trail
<1>3. s[1].kind = "StateEntered"
      /\ \A j \in DOMAIN s \ {1} : s[j].kind = "StateEntered" => JustifiedEntry(st.def, s, j)
  BY DEF Trail, Justified
<1> HIDE DEF s
<1>4. /\ t \in Seq(S \cup T) /\ Len(t) = Len(s) + Len(es) /\ Len(s) \in Nat /\ Len(es) \in Nat
      /\ DOMAIN s = 1 .. Len(s)
      /\ \A i \in 1 .. Len(s) : t[i] = s[i]
      /\ \A i \in 1 .. Len(s) + Len(es) :
            i \in 1 .. Len(s) \/ (i - Len(s) \in 1 .. Len(es) /\ t[i] = es[i - Len(s)])
  BY <1>1, AddedEvents
<1>5. DOMAIN t = 1 .. Len(s) + Len(es)
  BY <1>4
<1>e. \A j \in 2 .. Len(s) : JustifiedEntry(st.def, s, j) => JustifiedEntry(st.def, t, j)
  BY <1>1, EntryStaysJustified
<1> HIDE DEF t
<1>6. \A j \in DOMAIN t : t[j].kind = "StateEntered" => j \in DOMAIN s /\ t[j] = s[j]
  BY <1>4, <1>5
<1>7. m \in DOMAIN t /\ t[m] = s[m] /\ \A j \in DOMAIN t : t[j].kind = "StateEntered" => j <= m
  BY <1>2, <1>4, <1>5, <1>6
<1>8. /\ s[m].kind = "StateEntered" /\ s[m].arg = [state |-> st.cur, status |-> st.status]
  BY <1>2, EventFields
<1>9. LastEntered(t) = [state |-> st.cur, status |-> st.status]
  BY <1>4, <1>7, <1>8, LastEnteredIs, ZenonT(30)
<1>10. t[1].kind = "StateEntered"
  BY <1>2, <1>3, <1>4
<1>11. ASSUME NEW j \in DOMAIN t \ {1}, t[j].kind = "StateEntered"
       PROVE  JustifiedEntry(st.def, t, j)
  <2>1. j \in DOMAIN s \ {1} /\ s[j].kind = "StateEntered"
    BY <1>6, <1>11
  <2>2. j \in 2 .. Len(s)
    BY <1>4, <2>1
  <2> QED BY <1>3, <1>e, <2>1, <2>2
<1>12. \E k \in DOMAIN t :
        /\ t[k] = Event("StateEntered", t[k].id, [state |-> st.cur, status |-> st.status])
        /\ \A j \in DOMAIN t : t[j].kind = "StateEntered" => j <= k
  BY <1>2, <1>7
<1> QED BY <1>9, <1>10, <1>11, <1>12 DEF t, s

\* begin_transition adds the request and the verification of an attempt whose id
\* the trail does not know.
LEMMA BeginTrail ==
    ASSUME NEW st, NEW n \in Nat, NEW id \in Nat \ {0},
           st # NoFlow, FlowKept(st, n), CanBegin(st, id), Trail(st)
    PROVE  Trail(BeginState(st, id)) /\ IsPrefix(st.events, BeginState(st, id).events)
<1> DEFINE b == BeginState(st, id)
           s == st.events
           e1 == Event("TransitionRequested", id, st.cur)
           e2 == Event("TransitionVerifying", id, st.cur)
           W == {e1, e2}
           es == <<e1, e2>>
           t == s \o es
<1>1. /\ b.events = t /\ b.def = st.def /\ b.cur = st.cur /\ b.status = st.status
      /\ b.activeId = id
      /\ b.attempt = [id |-> id, from |-> st.cur, transitions |-> Outgoing(st.def, st.cur)]
  BY DEF FlowKept, BeginState
<1>2. /\ b.attempt # NoAttempt /\ b.attempt.id = id
      /\ b.attempt.transitions = Outgoing(st.def, st.cur)
  BY <1>1 DEF NoAttempt, NoId
<1>3. PICK S : s \in Seq(S)
  BY DEF Trail
<1>4. e1.kind = "TransitionRequested" /\ e1.id = id /\ e2.kind = "TransitionVerifying" /\ e2.id = id
  BY EventFields
<1> HIDE DEF e1, e2
<1>5. es \in Seq(W) /\ Len(es) = 2 /\ es[1] = e1 /\ es[2] = e2
  OBVIOUS
<1>6. \A i \in 1 .. Len(es) : es[i].kind # "StateEntered"
  BY <1>4, <1>5
<1>7. /\ t[1].kind = "StateEntered"
      /\ \E m \in DOMAIN t :
            /\ t[m] = Event("StateEntered", t[m].id, [state |-> st.cur, status |-> st.status])
            /\ \A j \in DOMAIN t : t[j].kind = "StateEntered" => j <= m
      /\ LastEntered(t) = [state |-> st.cur, status |-> st.status]
      /\ \A j \in DOMAIN t \ {1} : t[j].kind = "StateEntered" => JustifiedEntry(st.def, t, j)
  BY <1>5, <1>6, OtherEvents
<1>8. /\ t \in Seq(S \cup W) /\ Len(t) = Len(s) + 2 /\ Len(s) \in Nat
      /\ DOMAIN s = 1 .. Len(s) /\ SubSeq(t, 1, Len(s)) = s
      /\ \A i \in 1 .. Len(s) : t[i] = s[i]
      /\ t[Len(s) + 1] = e1 /\ t[Len(s) + 2] = e2
  BY <1>3, TwoEvents
<1> HIDE DEF t, es, W
<1>9. Last(t) = e2
  BY <1>8 DEF Last
<1>10. \A j \in DOMAIN s : s[j].kind = "TransitionRequested" => s[j].id # id
  <2>1. id \notin UsedIds(st)
    BY DEF CanBegin
  <2> QED BY <2>1, <1>8 DEF UsedIds, ToSet, s
<1>11. ASSUME NEW j \in DOMAIN t, NEW k \in DOMAIN t, t[j].kind = "TransitionRequested",
              t[k].kind = "TransitionRequested", t[j].id = t[k].id
       PROVE  j = k
  <2>1. \A i \in DOMAIN t : t[i].kind = "TransitionRequested" =>
            i = Len(s) + 1 \/ (i \in DOMAIN s /\ t[i] = s[i])
    <3> HIDE DEF s
    <3>1. DOMAIN t = 1 .. Len(s) + 2
      BY <1>8
    <3>2. \A i \in 1 .. Len(s) + 2 : i \in 1 .. Len(s) \/ i = Len(s) + 1 \/ i = Len(s) + 2
      BY <1>8
    <3>3. t[Len(s) + 2].kind # "TransitionRequested"
      BY <1>4, <1>8
    <3> QED BY <1>8, <3>1, <3>2, <3>3
  <2>2. \A i \in DOMAIN s, l \in DOMAIN s :
            s[i].kind = "TransitionRequested" /\ s[l].kind = "TransitionRequested"
                /\ s[i].id = s[l].id => i = l
    BY DEF Trail, Justified
  <2>3. t[Len(s) + 1].id = id
    BY <1>4, <1>8
  <2> HIDE DEF s
  <2> QED BY <1>10, <1>11, <2>1, <2>2, <2>3
<1>12. st.status = "Active"
  BY DEF CanBegin
<1> HIDE DEF b, s
<1>13. Justified(b)
  BY <1>1, <1>2, <1>4, <1>7, <1>9, <1>11, <1>12 DEF Justified
<1>14. Trail(b)
  BY <1>1, <1>2, <1>7, <1>8, <1>9, <1>13 DEF Trail, e2
<1>15. IsPrefix(s, t)
  BY <1>3, <1>8 DEF IsPrefix
<1> QED BY <1>1, <1>14, <1>15 DEF b, s

\* A refused, failed or cancelled verification adds only events that say so.
LEMMA SettleTrail ==
    ASSUME NEW st, NEW n \in Nat, st # NoFlow, FlowKept(st, n), Trail(st),
           NEW T, NEW es \in Seq(T), Len(es) > 0,
           \A i \in 1 .. Len(es) :
              es[i].kind \notin {"StateEntered", "TransitionRequested", "TransitionVerifying"}
    PROVE  Trail(Settle(st, es)) /\ IsPrefix(st.events, Settle(st, es).events)
<1> DEFINE r == Settle(st, es)
           s == st.events
           t == s \o es
<1>1. /\ r.events = t /\ r.def = st.def /\ r.cur = st.cur /\ r.status = st.status
      /\ r.attempt = NoAttempt
  BY DEF FlowKept, Settle
<1>2. PICK S : s \in Seq(S)
  BY DEF Trail
<1>3. /\ t[1].kind = "StateEntered"
      /\ \E m \in DOMAIN t :
            /\ t[m] = Event("StateEntered", t[m].id, [state |-> st.cur, status |-> st.status])
            /\ \A j \in DOMAIN t : t[j].kind = "StateEntered" => j <= m
      /\ LastEntered(t) = [state |-> st.cur, status |-> st.status]
      /\ \A j \in DOMAIN t \ {1} : t[j].kind = "StateEntered" => JustifiedEntry(st.def, t, j)
  <2>1. \A i \in 1 .. Len(es) : es[i].kind # "StateEntered"
    OBVIOUS
  <2> QED BY <2>1, OtherEvents
<1>4. \A j \in DOMAIN s, k \in DOMAIN s :
          s[j].kind = "TransitionRequested" /\ s[k].kind = "TransitionRequested"
              /\ s[j].id = s[k].id => j = k
  BY DEF Trail, Justified
<1> HIDE DEF r, s
<1>5. /\ t \in Seq(S \cup T) /\ Len(t) = Len(s) + Len(es) /\ Len(s) \in Nat /\ Len(es) \in Nat
      /\ DOMAIN s = 1 .. Len(s)
      /\ \A i \in 1 .. Len(s) : t[i] = s[i]
      /\ \A i \in 1 .. Len(s) + Len(es) :
            i \in 1 .. Len(s) \/ (i - Len(s) \in 1 .. Len(es) /\ t[i] = es[i - Len(s)])
  BY <1>2, AddedEvents
<1>6. SubSeq(t, 1, Len(s)) = s
  BY <1>2, AddedEvents
<1> HIDE DEF t
<1>7. DOMAIN t = 1 .. Len(s) + Len(es)
  BY <1>5
<1>8. \A i \in DOMAIN t :
        t[i].kind = "TransitionRequested" => i \in DOMAIN s /\ t[i] = s[i]
  BY <1>5, <1>7
<1>9. \A j, k \in {i \in DOMAIN t : t[i].kind = "TransitionRequested"} : t[j].id = t[k].id => j = k
  BY <1>4, <1>8
<1>10. Last(t).kind # "TransitionVerifying"
  <2>1. Len(t) \in 1 .. Len(s) + Len(es) /\ Len(t) \notin 1 .. Len(s)
    BY <1>5
  <2> QED BY <1>5, <2>1 DEF Last
<1>11. Justified(r)
  BY <1>1, <1>3, <1>9, <1>10 DEF Justified
<1>12. Trail(r)
  BY <1>1, <1>3, <1>5, <1>11 DEF Trail
<1>13. IsPrefix(s, t)
  BY <1>2, <1>5, <1>6 DEF IsPrefix
<1> QED BY <1>1, <1>12, <1>13 DEF r, s

\* A rejection adds one event.
LEMMA RejectedTrail ==
    ASSUME NEW st, NEW n \in Nat, st # NoFlow, FlowKept(st, n), Trail(st), NEW code
    PROVE  Trail(Rejected(st, code)) /\ IsPrefix(st.events, Rejected(st, code).events)
<1> DEFINE e == Event("TransitionCheckRejected", st.activeId, code)
           es == <<e>>
<1>1. e.kind = "TransitionCheckRejected"
  BY EventFields
<1> HIDE DEF e
<1>2. es \in Seq({e}) /\ Len(es) = 1 /\ es[1] = e
  OBVIOUS
<1> HIDE DEF es
<1>3. Len(es) > 0
      /\ \A i \in 1 .. Len(es) :
            es[i].kind \notin {"StateEntered", "TransitionRequested", "TransitionVerifying"}
  BY <1>1, <1>2
<1>4. Trail(Settle(st, es)) /\ IsPrefix(st.events, Settle(st, es).events)
  BY <1>2, <1>3, SettleTrail, Zenon
<1> QED BY <1>4 DEF Rejected, es, e

\* A verification that ended without a verdict adds two.
LEMMA EndedTrail ==
    ASSUME NEW st, NEW n \in Nat, st # NoFlow, FlowKept(st, n), Trail(st), NEW arg,
           NEW kind \in {"TransitionVerificationCancelled", "TransitionVerificationFailed"}
    PROVE  LET r == Settle(st, <<Event(kind, st.activeId, ""),
                                 Event("TransitionCheckRejected", st.activeId, arg)>>)
           IN  Trail(r) /\ IsPrefix(st.events, r.events)
<1> DEFINE e1 == Event(kind, st.activeId, "")
           e2 == Event("TransitionCheckRejected", st.activeId, arg)
           es == <<e1, e2>>
<1>1. e1.kind = kind /\ e2.kind = "TransitionCheckRejected"
  BY Zenon DEF Event
<1> HIDE DEF e1, e2
<1>2. es \in Seq({e1, e2}) /\ Len(es) = 2 /\ es[1] = e1 /\ es[2] = e2
  OBVIOUS
<1> HIDE DEF es
<1>3. Len(es) > 0
      /\ \A i \in 1 .. Len(es) :
            es[i].kind \notin {"StateEntered", "TransitionRequested", "TransitionVerifying"}
  BY <1>1, <1>2
<1>4. Trail(Settle(st, es)) /\ IsPrefix(st.events, Settle(st, es).events)
  BY <1>2, <1>3, SettleTrail, Zenon
<1> QED BY <1>4, Zenon DEF es, e1, e2

\* When not more than one of finitely many conditions was met, and one was, the
\* chosen one is the only one.
LEMMA OneMet ==
    ASSUME NEW st, NEW n \in Nat, st # NoFlow, FlowKept(st, n), st.attempt # NoAttempt,
           NEW results, DOMAIN results = ExpectedIds(st.attempt), MetIds(results) # {},
           ~(Cardinality(MetIds(results)) > 1)
    PROVE  LET t == TransitionOf(st.attempt, CHOOSE id \in MetIds(results) : TRUE)
           IN  /\ t \in Outgoing(st.def, st.cur)
               /\ MetIds(results) = {t.id}
               /\ DOMAIN results = {u.id : u \in Outgoing(st.def, st.cur)}
<1> DEFINE id == CHOOSE id \in MetIds(results) : TRUE
           t == TransitionOf(st.attempt, id)
           out == Outgoing(st.def, st.cur)
           ids == {u.id : u \in out}
           met == MetIds(results)
<1>1. st.attempt.transitions = out /\ st.def \in Definitions /\ st.cur \in st.def.states
  BY DEF FlowKept
<1>2. ExpectedIds(st.attempt) = ids
  BY <1>1 DEF ExpectedIds
<1>3. id \in met /\ met \subseteq ids
  BY <1>2 DEF MetIds
<1>4. t \in out /\ t.id = id
  <2>1. \E u \in st.attempt.transitions : u.id = id
    BY <1>1, <1>3
  <2> HIDE DEF id
  <2> QED BY <1>1, <2>1 DEF TransitionOf
<1>5. IsFiniteSet(ids)
  <2>1. IsFiniteSet(out)
    BY <1>1, FiniteAssumption
  <2> HIDE DEF out
  <2> DEFINE f == [u \in out |-> u.id]
  <2>2. f \in Surjection(out, ids)
    BY DEF Surjection
  <2> HIDE DEF f, ids
  <2> QED BY <2>1, <2>2, FS_Surjection
<1> HIDE DEF id, t, out, ids, met
<1>6. IsFiniteSet(met)
  BY <1>3, <1>5, FS_Subset
<1>7. Cardinality(met) \in Nat /\ Cardinality(met) # 0
  BY <1>3, <1>6, FS_CardinalityType, FS_EmptySet
<1>8. Cardinality(met) = 1
  BY <1>7 DEF met
<1>9. PICK x : met = {x}
  BY <1>6, <1>8, FS_Singleton
<1>10. met = {t.id}
  BY <1>3, <1>4, <1>9
<1> QED BY <1>2, <1>4, <1>10 DEF t, id, met, ids, out

\* An accepted verdict adds the verdicts and the entry they justify.
LEMMA EnteredTrail ==
    ASSUME NEW st, NEW n \in Nat, st # NoFlow, FlowKept(st, n), Trail(st),
           st.attempt # NoAttempt,
           NEW results, DOMAIN results = ExpectedIds(st.attempt), MetIds(results) # {},
           ~(Cardinality(MetIds(results)) > 1)
    PROVE  Trail(Entered(st, results)) /\ IsPrefix(st.events, Entered(st, results).events)
<1> DEFINE r == Entered(st, results)
           c == TransitionOf(st.attempt, CHOOSE id \in MetIds(results) : TRUE)
           status == IF c.target = Cancelled THEN "Cancelled"
                     ELSE IF c.target \in st.def.terminal THEN "Completed" ELSE "Active"
           p == [transition |-> c, results |-> results]
           e1 == Event("TransitionCheckPassed", st.activeId, p)
           e2 == Event("StateEntered", st.activeId, [state |-> c.target, status |-> status])
           es == <<e1, e2>>
           s == st.events
           t == s \o es
           u == Settle(st, es)
<1>1. /\ c \in Outgoing(st.def, st.cur) /\ MetIds(results) = {c.id}
      /\ DOMAIN results = {x.id : x \in Outgoing(st.def, st.cur)}
  BY OneMet
<1>2. r = [u EXCEPT !.cur = c.target, !.status = status]
  BY Zenon DEF Entered
<1>3. /\ DOMAIN u = DOMAIN st /\ u.attempt = NoAttempt /\ u.def = st.def /\ u.events = t
  <2> HIDE DEF es
  <2> QED BY DEF FlowKept, Settle
<1>4. /\ r.attempt = NoAttempt /\ r.def = st.def /\ r.cur = c.target /\ r.status = status
      /\ r.events = t
  <2> HIDE DEF t, u, r, c, status, es
  <2> QED BY <1>2, <1>3 DEF FlowKept
<1>5. PICK S : s \in Seq(S)
  BY DEF Trail
<1>6. PICK m \in DOMAIN s :
        /\ s[m] = Event("StateEntered", s[m].id, [state |-> st.cur, status |-> st.status])
        /\ \A j \in DOMAIN s : s[j].kind = "StateEntered" => j <= m
  BY DEF Trail
<1>7. /\ s[1].kind = "StateEntered"
      /\ \A j \in DOMAIN s \ {1} : s[j].kind = "StateEntered" => JustifiedEntry(st.def, s, j)
      /\ \A j \in DOMAIN s, k \in DOMAIN s :
            s[j].kind = "TransitionRequested" /\ s[k].kind = "TransitionRequested"
                /\ s[j].id = s[k].id => j = k
      /\ Last(s) = Event("TransitionVerifying", st.attempt.id, st.cur)
      /\ st.activeId = st.attempt.id
      /\ LastEntered(s) = [state |-> st.cur, status |-> st.status]
  BY DEF Trail, Justified
<1>8. /\ p.transition = c /\ p.results = results
      /\ e1.kind = "TransitionCheckPassed" /\ e1.id = st.activeId /\ e1.arg = p
      /\ e2.kind = "StateEntered" /\ e2.id = st.activeId
      /\ e2.arg = [state |-> c.target, status |-> status]
  <2>1. p.transition = c /\ p.results = results
    OBVIOUS
  <2> HIDE DEF p, c, status
  <2> QED BY <2>1, EventFields
<1>9. e2 = Event("StateEntered", e2.id, [state |-> r.cur, status |-> r.status])
  <2> HIDE DEF r, c, status
  <2> QED BY <1>4, <1>8
<1> HIDE DEF r, c, status, p, e1, e2, s, u
<1>10. /\ t \in Seq(S \cup {e1, e2}) /\ Len(t) = Len(s) + 2 /\ Len(s) \in Nat
       /\ DOMAIN s = 1 .. Len(s) /\ SubSeq(t, 1, Len(s)) = s
       /\ \A i \in 1 .. Len(s) : t[i] = s[i]
       /\ t[Len(s) + 1] = e1 /\ t[Len(s) + 2] = e2
  BY <1>5, TwoEvents
<1>e. ASSUME NEW j \in 2 .. Len(s), JustifiedEntry(st.def, s, j)
      PROVE  JustifiedEntry(st.def, t, j)
  <2>1. es \in Seq({e1, e2})
    OBVIOUS
  <2> HIDE DEF es
  <2> QED BY <1>5, <1>e, <2>1, EntryStaysJustified, Zenon
<1> HIDE DEF t, es
<1>11. /\ DOMAIN t = 1 .. Len(s) + 2
       /\ \A i \in 1 .. Len(s) + 2 : i \in 1 .. Len(s) \/ i = Len(s) + 1 \/ i = Len(s) + 2
       /\ Len(s) + 2 \in DOMAIN t
  BY <1>10
\* The trail had at least the initial entry and the open verification.
<1>12. Len(s) > 1
  <2>1. Len(s) # 1
    BY <1>7, EventFields DEF Last
  <2> QED BY <1>6, <1>10, <2>1
<1>13. LastEntered(t) = [state |-> r.cur, status |-> r.status]
  <2>1. \A j \in DOMAIN t : t[j].kind = "StateEntered" => j <= Len(s) + 2
    BY <1>10, <1>11
  <2>2. t[Len(s) + 2].kind = "StateEntered"
    BY <1>8, <1>10
  <2>3. LastEntered(t) = t[Len(s) + 2].arg
    BY <1>10, <1>11, <2>1, <2>2, LastEnteredIs
  <2> QED BY <1>4, <1>8, <1>10, <2>3
<1>14. JustifiedEntry(st.def, t, Len(s) + 2)
  <2> DEFINE i == Len(s) + 2
  <2>1. i > 3 /\ i - 1 = Len(s) + 1 /\ i - 2 = Len(s)
    BY <1>10, <1>12
  <2>2. SubSeq(t, 1, i - 2) = s /\ t[i - 1] = e1 /\ t[i] = e2
    BY <1>10, <2>1
  <2>3. LastEntered(s).state = st.cur
    BY <1>7
  <2>4. {id \in DOMAIN results : results[id] = "Met"} = {c.id}
    BY <1>1 DEF MetIds
  <2>5. e2.arg.state = c.target
    BY <1>8
  <2> HIDE DEF i
  <2>6. JustifiedEntry(st.def, t, i)
    <3>1. /\ e1.kind = "TransitionCheckPassed" /\ e1.id = e2.id
          /\ Last(s) = Event("TransitionVerifying", e2.id, LastEntered(s).state)
          /\ e1.arg.transition = c /\ e1.arg.results = results
      BY <1>7, <1>8, <2>3
    <3>2. /\ e1.arg.transition \in Outgoing(st.def, LastEntered(s).state)
          /\ DOMAIN e1.arg.results = {x.id : x \in Outgoing(st.def, LastEntered(s).state)}
          /\ {id \in DOMAIN e1.arg.results : e1.arg.results[id] = "Met"} = {e1.arg.transition.id}
          /\ e2.arg.state = e1.arg.transition.target
      BY <1>1, <2>3, <2>4, <2>5, <3>1
    <3> QED BY <2>1, <2>2, <3>1, <3>2, Zenon DEF JustifiedEntry
  <2> QED BY <2>6 DEF i
<1>15. ASSUME NEW j \in DOMAIN t \ {1}, t[j].kind = "StateEntered"
       PROVE  JustifiedEntry(st.def, t, j)
  <2>1. CASE j \in 1 .. Len(s)
    <3>1. j \in 2 .. Len(s) /\ j \in DOMAIN s \ {1} /\ s[j].kind = "StateEntered"
      BY <1>10, <1>15, <2>1
    <3> QED BY <1>7, <1>e, <3>1
  <2>2. CASE j = Len(s) + 1
    BY <1>8, <1>10, <1>15, <2>2
  <2>3. CASE j = Len(s) + 2
    BY <1>14, <2>3
  <2> QED BY <1>11, <1>15, <2>1, <2>2, <2>3
<1>16. \A j, k \in {i \in DOMAIN t : t[i].kind = "TransitionRequested"} :
          t[j].id = t[k].id => j = k
  <2>1. \A i \in DOMAIN t : t[i].kind = "TransitionRequested" => i \in DOMAIN s /\ t[i] = s[i]
    BY <1>8, <1>10, <1>11
  <2> QED BY <1>7, <2>1
<1>17. Last(t) = e2
  BY <1>10 DEF Last
<1>18. Justified(r)
  BY <1>4, <1>8, <1>13, <1>15, <1>16, <1>17 DEF Justified
<1>19. Trail(r)
  <2>1. t[1].kind = "StateEntered"
    BY <1>7, <1>10, <1>12
  <2>2. /\ t[Len(s) + 2] = Event("StateEntered", t[Len(s) + 2].id,
                                 [state |-> r.cur, status |-> r.status])
        /\ \A j \in DOMAIN t : t[j].kind = "StateEntered" => j <= Len(s) + 2
    BY <1>9, <1>10, <1>11
  <2> QED BY <1>4, <1>10, <1>11, <1>18, <2>1, <2>2 DEF Trail
<1>20. IsPrefix(s, t)
  BY <1>5, <1>10 DEF IsPrefix
<1> QED BY <1>4, <1>19, <1>20 DEF r, s

\* Every outcome of a verification leaves a justified trail, longer than before.
LEMMA ResolveTrail ==
    ASSUME NEW st, NEW n \in Nat, st # NoFlow, FlowKept(st, n), Trail(st),
           st.attempt # NoAttempt,
           NEW outcome, outcome.kind \in {"Cancelled", "Failed", "Completed"}
    PROVE  Trail(ResolveState(st, outcome)) /\ IsPrefix(st.events, ResolveState(st, outcome).events)
<1> DEFINE Good(r) == Trail(r) /\ IsPrefix(st.events, r.events)
<1>1. ASSUME NEW arg,
             NEW kind \in {"TransitionVerificationCancelled", "TransitionVerificationFailed"}
      PROVE  Good(Settle(st, <<Event(kind, st.activeId, ""),
                               Event("TransitionCheckRejected", st.activeId, arg)>>))
  BY EndedTrail
<1>2. ASSUME NEW code PROVE Good(Rejected(st, code))
  BY RejectedTrail
<1>3. ASSUME NEW results, DOMAIN results = ExpectedIds(st.attempt), MetIds(results) # {},
             ~(Cardinality(MetIds(results)) > 1)
      PROVE  Good(Entered(st, results))
  BY <1>3, EnteredTrail
<1> HIDE DEF Good
<1>4. Good(ResolveCompleted(st, outcome))
  BY <1>2, <1>3 DEF ResolveCompleted
<1>5. Good(ResolveState(st, outcome))
  BY <1>1, <1>4 DEF ResolveState
<1> QED BY <1>5 DEF Good

------------------------------------------------------------------------------
\* Trails over a behaviour.

\* Every Flow state the Worker holds, durably or not, has a trail.
TrailInv ==
    /\ \A i \in DOMAIN log : Trail(log[i])
    /\ live # NoFlow => Trail(live)
    /\ turn.live # NoFlow => Trail(turn.live)

\* What undoing an empty turn takes back: nothing, or the start of an instance.
UndoInv ==
    turn.rollbackable =>
        \/ turn.live = live \/ turn.live = NoFlow \/ live = NoFlow
        \/ turn.live.inst # live.inst

\* The two states belong to different instances, or the second goes on from the
\* first.
Earlier(a, b) == a.inst = b.inst => IsPrefix(a.events, b.events)

\* The Session log never runs ahead of itself, of the live Flow or of what an undone
\* turn would make live: a restart falls back to an earlier point, if at all.
LogOrdered == \A i, j \in DOMAIN log : i <= j => Earlier(log[i], log[j])
Behind(st) == \A i \in DOMAIN log : Earlier(log[i], st)
OrderInv ==
    /\ LogOrdered
    /\ up => Behind(live)
    /\ turn.rollbackable => Behind(turn.live)

TrailsInv == TrailInv /\ UndoInv /\ OrderInv

\* What TrailOnlyGrows says of the Flow before and after most steps.
Grows(old, new) ==
    (old # NoFlow /\ new # NoFlow /\ old.inst = new.inst) =>
        /\ IsPrefix(old.events, new.events)
        /\ old.status # "Active" => new = old

\* What a restart restores is one of the log's Flow states, or none.
LEMMA RestoredTrail ==
    ASSUME LogIsSequence, TrailInv, Restored(log) # NoFlow
    PROVE  Trail(Restored(log))
<1>1. PICK S : log \in Seq(S)
  BY DEF LogIsSequence
<1>2. log # <<>>
  BY DEF Restored
<1>3. Len(log) \in DOMAIN log
  BY <1>1, <1>2
<1> QED BY <1>2, <1>3, Zenon DEF Restored, Last, TrailInv

\* A trail is a prefix of itself.
LEMMA GrowsNot ==
    ASSUME NEW st, st # NoFlow => Trail(st)
    PROVE  Grows(st, st)
<1> SUFFICES ASSUME st # NoFlow PROVE IsPrefix(st.events, st.events)
  BY DEF Grows
<1>1. PICK S : st.events \in Seq(S)
  BY DEF Trail
<1>2. Len(st.events) \in Nat
  BY <1>1
<1> QED BY <1>2 DEF IsPrefix

\* What was earlier than a state is earlier than what goes on from it.
LEMMA PrefixTransitive ==
    ASSUME NEW S, NEW r \in Seq(S), NEW T, NEW s \in Seq(T), NEW U, NEW u \in Seq(U),
           IsPrefix(r, s), IsPrefix(s, u)
    PROVE  IsPrefix(r, u)
<1>1. Len(r) \in Nat /\ Len(s) \in Nat /\ Len(u) \in Nat
  OBVIOUS
<1>2. Len(r) <= Len(s) /\ \A i \in 1 .. Len(r) : r[i] = s[i]
  BY <1>1 DEF IsPrefix
<1>3. Len(s) <= Len(u) /\ \A i \in 1 .. Len(s) : s[i] = u[i]
  BY <1>1 DEF IsPrefix
<1>4. Len(r) <= Len(u) /\ \A i \in 1 .. Len(r) : r[i] = u[i]
  BY <1>1, <1>2, <1>3
<1> QED BY <1>1, <1>4 DEF IsPrefix

LEMMA EarlierThrough ==
    ASSUME NEW a, NEW b, NEW c, Trail(a), Trail(b), Trail(c),
           Earlier(a, b), b.inst = c.inst, IsPrefix(b.events, c.events)
    PROVE  Earlier(a, c)
<1> SUFFICES ASSUME a.inst = c.inst PROVE IsPrefix(a.events, c.events)
  BY DEF Earlier
<1>1. IsPrefix(a.events, b.events)
  BY DEF Earlier
<1>2. PICK S : a.events \in Seq(S)
  BY DEF Trail
<1>3. PICK T : b.events \in Seq(T)
  BY DEF Trail
<1>4. PICK U : c.events \in Seq(U)
  BY DEF Trail
<1> QED BY <1>1, <1>2, <1>3, <1>4, PrefixTransitive

\* A log stays in order when it is extended with a state all of it is behind.
LEMMA AppendOrdered ==
    ASSUME NEW S, NEW s \in Seq(S), NEW st, Earlier(st, st),
           \A i \in DOMAIN s : Earlier(s[i], st),
           \A i, j \in DOMAIN s : i <= j => Earlier(s[i], s[j])
    PROVE  LET t == Append(s, st)
           IN  /\ \A i \in DOMAIN t : Earlier(t[i], st)
               /\ \A i, j \in DOMAIN t : i <= j => Earlier(t[i], t[j])
<1> DEFINE t == Append(s, st)
<1>1. s \in Seq(S \cup {st}) /\ Len(s) \in Nat
  OBVIOUS
<1>2. /\ DOMAIN t = 1 .. Len(s) + 1 /\ DOMAIN s = 1 .. Len(s)
      /\ t[Len(s) + 1] = st /\ \A i \in 1 .. Len(s) : t[i] = s[i]
  BY <1>1
<1> HIDE DEF t
<1>3. ASSUME NEW i \in DOMAIN t PROVE i = Len(s) + 1 \/ i \in DOMAIN s
  BY <1>1, <1>2
<1>4. ASSUME NEW i \in DOMAIN t PROVE Earlier(t[i], st)
  BY <1>2, <1>3
<1>5. ASSUME NEW i \in DOMAIN t, NEW j \in DOMAIN t, i <= j PROVE Earlier(t[i], t[j])
  <2>1. CASE j = Len(s) + 1
    BY <1>2, <1>4, <2>1
  <2>2. CASE j \in DOMAIN s
    <3>1. i \in DOMAIN s
      BY <1>1, <1>2, <1>5, <2>2
    <3> QED BY <1>2, <1>5, <2>2, <3>1
  <2> QED BY <1>3, <2>1, <2>2
<1> QED BY <1>4, <1>5 DEF t

\* A state that follows the live one follows the log; so does one of a new instance.
LEMMA BehindNext ==
    ASSUME TrailInv, Behind(live), live # NoFlow, NEW st, Trail(st),
           st.inst = live.inst, IsPrefix(live.events, st.events)
    PROVE  Behind(st)
<1> SUFFICES ASSUME NEW i \in DOMAIN log PROVE Earlier(log[i], st)
  BY DEF Behind
<1>1. Trail(log[i]) /\ Trail(live)
  BY DEF TrailInv
<1>2. Earlier(log[i], live)
  BY DEF Behind
<1> QED BY <1>1, <1>2, EarlierThrough

LEMMA BehindFresh ==
    ASSUME FlowsInv, NEW st, st.inst = nextInst, nextInst \in Nat
    PROVE  Behind(st)
<1> SUFFICES ASSUME NEW i \in DOMAIN log PROVE log[i].inst # st.inst
  BY DEF Behind, Earlier
<1>1. log[i] # NoFlow /\ FlowKept(log[i], nextInst)
  BY DEF FlowsInv
<1> QED BY <1>1 DEF FlowKept

\* A commit adds at most a Flow state that has a trail and that the log is behind.
LEMMA CommitTrails ==
    ASSUME LogIsSequence, TrailInv, LogOrdered, Behind(live),
           NEW st, st # NoFlow, Trail(st), Behind(st),
           NEW appended \in BOOLEAN, Commit(st, appended)
    PROVE  /\ (\A i \in DOMAIN log : Trail(log[i]))' /\ (live # NoFlow => Trail(live))'
           /\ LogOrdered' /\ Behind(live)'
<1>1. PICK S : log \in Seq(S)
  BY DEF LogIsSequence
<1>2. CASE appended
  <2>1. log' = Append(log, st) /\ live' = st
    BY <1>2 DEF Commit
  <2>2. \A i \in DOMAIN Append(log, st) : \/ Append(log, st)[i] = st
                                          \/ i \in DOMAIN log /\ Append(log, st)[i] = log[i]
    BY <1>1, RestoredAppend
  <2>3. \A i \in DOMAIN log' : Trail(log'[i])
    BY <2>1, <2>2 DEF TrailInv
  <2>4. Earlier(st, st)
    BY GrowsNot DEF Grows, Earlier
  <2>5. LET t == Append(log, st)
        IN  /\ \A i \in DOMAIN t : Earlier(t[i], st)
            /\ \A i, j \in DOMAIN t : i <= j => Earlier(t[i], t[j])
    BY <1>1, <2>4, AppendOrdered DEF LogOrdered, Behind
  <2>6. LogOrdered' /\ Behind(live)'
    BY <2>1, <2>5 DEF LogOrdered, Behind
  <2> QED BY <2>1, <2>3, <2>6
<1>3. CASE ~appended
  BY <1>3 DEF Commit, TrailInv, LogOrdered, Behind
<1> QED BY <1>2, <1>3

\* What TrailOnlyGrows says of a step.
GrowStep ==
    IF apart /\ ~up'
    THEN (Current # NoFlow /\ Current' # NoFlow /\ Current.inst = Current'.inst) =>
            IsPrefix(Current'.events, Current.events)
    ELSE Grows(Current, Current')

\* A running Worker's Flow is its live one.
LEMMA LiveStep ==
    ASSUME up, up', Grows(live, live')
    PROVE  GrowStep
  BY DEF GrowStep, Current

\* Steps that leave the Flow alone, live and in the log.
LEMMA SameFlow ==
    ASSUME TrailsInv, up, up' = up, live' = live, log' = log,
           \/ turn'.live = live
           \/ turn'.live = turn.live /\ (turn'.rollbackable => turn.rollbackable)
           \/ turn'.live = NoFlow /\ ~turn'.rollbackable
    PROVE  TrailsInv' /\ GrowStep
<1>1. TrailInv'
  BY DEF TrailsInv, TrailInv
<1>2. UndoInv'
  BY DEF TrailsInv, UndoInv
<1>3. OrderInv'
  BY DEF TrailsInv, OrderInv, LogOrdered, Behind
<1>4. Grows(live, live')
  BY GrowsNot DEF TrailsInv, TrailInv
<1> QED BY <1>1, <1>2, <1>3, <1>4, LiveStep DEF TrailsInv

\* A log that was cut off is in order.
LEMMA CutOrdered ==
    ASSUME TrailInv, LogOrdered, NEW st, Behind(st),
           \A i \in DOMAIN log' : i \in DOMAIN log /\ log'[i] = log[i]
    PROVE  /\ \A i \in DOMAIN log' : Trail(log'[i])
           /\ LogOrdered'
           /\ \A i \in DOMAIN log' : Earlier(log'[i], st)
<1>1. \A i \in DOMAIN log' : Trail(log'[i])
  BY Zenon DEF TrailInv
<1>2. LogOrdered'
  BY ZenonT(30) DEF LogOrdered
<1>3. \A i \in DOMAIN log' : Earlier(log'[i], st)
  BY Zenon DEF Behind
<1> QED BY <1>1, <1>2, <1>3

\* A new instance has an id of its own, so it continues no trail.
LEMMA SubmitFlowTrail ==
    ASSUME IInv, TrailsInv, NEW d \in Definitions, SubmitFlow(d)
    PROVE  TrailsInv' /\ GrowStep
<1> DEFINE st == StartState(nextInst, d)
<1>1. PICK appended \in BOOLEAN :
        /\ Commit(st, appended)
        /\ IF appended THEN OpenTurn ELSE UNCHANGED <<turn, inputs>>
  BY DEF SubmitFlow
<1>2. LogIsSequence /\ nextInst \in Nat \ {0} /\ FlowKept(live, nextInst) /\ FlowsInv
  BY DEF IInv, ShapeInv, FlowsInv
<1>3. up /\ up' = up
  BY DEF SubmitFlow
<1>4. TrailInv /\ LogOrdered /\ Behind(live)
  BY <1>3 DEF TrailsInv, OrderInv
<1>5. st # NoFlow /\ Trail(st) /\ st.inst = nextInst
  BY <1>2, StartTrail, StartKept
<1> HIDE DEF st
<1>6. Behind(st)
  BY <1>2, <1>5, BehindFresh
<1>7. /\ (\A i \in DOMAIN log : Trail(log[i]))' /\ (live # NoFlow => Trail(live))'
      /\ LogOrdered' /\ Behind(live)'
  BY <1>1, <1>2, <1>4, <1>5, <1>6, CommitTrails
<1>8. CASE ~appended
  <2>1. log' = log /\ live' = live /\ turn' = turn
    BY <1>1, <1>8 DEF Commit
  <2> QED BY <1>3, <2>1, SameFlow
<1>9. CASE appended
  <2>1. live' = st /\ turn'.live = live /\ log' = Append(log, st)
    BY <1>1, <1>9 DEF Commit, OpenTurn
  <2>2. live.inst # st.inst
    BY <1>2, <1>5 DEF FlowKept, NoFlow
  <2>3. TrailInv'
    BY <1>4, <1>7, <2>1 DEF TrailInv
  <2>4. UndoInv'
    BY <2>1, <2>2 DEF UndoInv
  <2>5. Behind(turn.live)'
    <3>1. PICK S : log \in Seq(S)
      BY <1>2 DEF LogIsSequence
    <3>2. \A i \in DOMAIN log' : log'[i] = st \/ (i \in DOMAIN log /\ log'[i] = log[i])
      BY <2>1, <3>1, RestoredAppend
    <3>3. Earlier(st, live)
      BY <2>2 DEF Earlier
    <3>4. \A i \in DOMAIN log' : Earlier(log'[i], live)
      BY <1>4, <3>2, <3>3, Zenon DEF Behind
    <3> QED BY <2>1, <3>4 DEF Behind
  <2>6. OrderInv'
    BY <1>7, <2>5 DEF OrderInv
  <2>7. Grows(live, live')
    BY <2>1, <2>2 DEF Grows
  <2> QED BY <1>3, <2>3, <2>4, <2>6, <2>7, LiveStep DEF TrailsInv
<1> QED BY <1>8, <1>9

\* Beginning or ending an attempt commits a state that goes on from the live one,
\* which is active, in a turn that is not undone any more.
LEMMA AdvanceTrail ==
    ASSUME LogIsSequence, TrailsInv, up, up' = up, turn' = turn, ~turn.rollbackable,
           live # NoFlow, live.status = "Active",
           NEW st, st # NoFlow, Trail(st), st.inst = live.inst,
           IsPrefix(live.events, st.events),
           NEW appended \in BOOLEAN, Commit(st, appended)
    PROVE  TrailsInv' /\ GrowStep
<1>1. TrailInv /\ LogOrdered /\ Behind(live)
  BY DEF TrailsInv, OrderInv
<1>2. Behind(st)
  BY <1>1, BehindNext
<1>3. /\ (\A i \in DOMAIN log : Trail(log[i]))' /\ (live # NoFlow => Trail(live))'
      /\ LogOrdered' /\ Behind(live)'
  BY <1>1, <1>2, CommitTrails
<1>4. TrailInv' /\ UndoInv' /\ OrderInv'
  BY <1>1, <1>3 DEF TrailInv, UndoInv, OrderInv
<1>5. CASE appended
  <2>1. live' = st
    BY <1>5 DEF Commit
  <2>2. Grows(live, live')
    BY <2>1 DEF Grows
  <2> QED BY <1>4, <2>2, LiveStep DEF TrailsInv
<1>6. CASE ~appended
  <2>1. live' = live /\ log' = log
    BY <1>6 DEF Commit
  <2> QED BY <2>1, SameFlow
<1> QED BY <1>5, <1>6

\* Beginning an attempt extends the trail of an active instance.
LEMMA BeginTransitionTrail ==
    ASSUME IInv, TrailsInv, NEW c \in Calls, BeginTransition(c)
    PROVE  TrailsInv' /\ GrowStep
<1>1. /\ up /\ up' = up /\ ~turn.rollbackable /\ turn' = turn /\ live # NoFlow
  BY DEF BeginTransition
<1>2. /\ LogIsSequence /\ nextInst \in Nat /\ nextAttempt \in Nat \ {0}
      /\ FlowKept(live, nextInst)
  BY DEF IInv, ShapeInv, FlowsInv
<1>3. CASE UNCHANGED <<live, log>>
  BY <1>1, <1>3, SameFlow
<1>4. CASE CanBegin(live, nextAttempt) /\ Commit(BeginState(live, nextAttempt), TRUE)
  <2> DEFINE b == BeginState(live, nextAttempt)
  <2>1. Trail(live)
    BY <1>1 DEF TrailsInv, TrailInv
  <2>2. Trail(b) /\ IsPrefix(live.events, b.events)
    BY <1>1, <1>2, <1>4, <2>1, BeginTrail
  <2>3. b # NoFlow /\ b.inst = live.inst
    BY <1>1, <1>2, <1>4, BeginKept
  <2>4. live.status = "Active" /\ Commit(b, TRUE)
    BY <1>4 DEF CanBegin
  <2> HIDE DEF b
  <2> QED BY <1>1, <1>2, <2>2, <2>3, <2>4, AdvanceTrail
<1> QED BY <1>3, <1>4 DEF BeginTransition

\* So does its end, whatever the verdict.
LEMMA ResolveTransitionTrail ==
    ASSUME IInv, TrailsInv, NEW c \in Calls, ResolveTransition(c)
    PROVE  TrailsInv' /\ GrowStep
<1>1. up /\ up' = up /\ turn' = turn /\ calls[c].verifying
  BY DEF ResolveTransition
<1>2. /\ LogIsSequence /\ nextInst \in Nat /\ FlowKept(live, nextInst)
      /\ ~turn.rollbackable /\ live # NoFlow /\ live.attempt # NoAttempt
      /\ calls[c].slot = NoSlot \/ calls[c].slot.kind = "Completed"
  BY <1>1 DEF IInv, ShapeInv, FlowsInv, CallsInv
<1>3. PICK outcome \in VerifierOutcomes(calls[c].slot), appended \in BOOLEAN :
        IF live # NoFlow /\ CanResolve(live, calls[c].attempt.id)
        THEN Commit(ResolveState(live, outcome), appended)
        ELSE UNCHANGED <<live, log, apart>>
  BY DEF ResolveTransition
<1>4. outcome.kind \in {"Cancelled", "Failed", "Completed"}
  <2>1. \/ outcome = [kind |-> "Failed"]
        \/ outcome = [kind |-> "Cancelled"]
        \/ outcome = calls[c].slot /\ calls[c].slot # NoSlot
    BY DEF VerifierOutcomes
  <2> QED BY <1>2, <2>1
<1>5. CASE UNCHANGED <<live, log>>
  BY <1>1, <1>5, SameFlow
<1>6. CASE Commit(ResolveState(live, outcome), appended)
  <2> DEFINE r == ResolveState(live, outcome)
  <2>1. Trail(live)
    BY <1>2 DEF TrailsInv, TrailInv
  <2>2. Trail(r) /\ IsPrefix(live.events, r.events)
    BY <1>2, <1>4, <2>1, ResolveTrail
  <2>3. r # NoFlow /\ r.inst = live.inst
    BY <1>2, <1>4, ResolveKept
  <2>4. live.status = "Active" /\ Commit(r, appended)
    BY <1>2, <1>6 DEF FlowKept
  <2> HIDE DEF r
  <2> QED BY <1>1, <1>2, <2>2, <2>3, <2>4, AdvanceTrail
<1> QED BY <1>3, <1>5, <1>6

\* Undoing an empty turn goes back to the same state or to another instance.
LEMMA RollbackTrail ==
    ASSUME IInv, TrailsInv, RollbackTurn
    PROVE  TrailsInv' /\ GrowStep
<1>1. /\ up /\ up' = up /\ turn.rollbackable /\ turn' = IdleTurn /\ live' = turn.live
      /\ log' = SubSeq(log, 1, turn.entries) \/ log' = log
  BY DEF RollbackTurn
<1>2. PICK S : log \in Seq(S)
  BY DEF IInv, LogIsSequence
<1>3. turn.entries \in 0 .. Len(log)
  BY <1>1 DEF IInv, SnapshotInv, SnapshotExact
<1>4. \A i \in DOMAIN log' : i \in DOMAIN log /\ log'[i] = log[i]
  <2>1. LET cut == SubSeq(log, 1, turn.entries)
        IN  \A i \in DOMAIN cut : i \in DOMAIN log /\ cut[i] = log[i]
    BY <1>2, <1>3, RestoredCut
  <2> QED BY <1>1, <2>1, Zenon
<1>5. TrailInv /\ LogOrdered /\ Behind(turn.live)
  BY <1>1 DEF TrailsInv, OrderInv
<1>6. /\ \A i \in DOMAIN log' : Trail(log'[i])
      /\ LogOrdered'
      /\ \A i \in DOMAIN log' : Earlier(log'[i], turn.live)
  BY <1>4, <1>5, CutOrdered
<1>7. TrailInv'
  BY <1>1, <1>5, <1>6, IdleTurnFields DEF TrailInv
<1>8. UndoInv' /\ OrderInv'
  BY <1>1, <1>6, IdleTurnFields DEF UndoInv, OrderInv, Behind
<1>9. Grows(live, live)
  BY <1>5, GrowsNot DEF TrailInv
<1>10. Grows(live, turn.live)
  BY <1>1, <1>9 DEF TrailsInv, UndoInv, Grows
<1> QED BY <1>1, <1>7, <1>8, <1>10, LiveStep DEF TrailsInv

\* A rewind and an automatic fork shorten the log, behind a live Flow that stays.
LEMMA ShortenTrail ==
    ASSUME TrailsInv, up, up' = up, live' = live, turn' = turn,
           \A i \in DOMAIN log' : i \in DOMAIN log /\ log'[i] = log[i],
           ~turn.rollbackable
    PROVE  TrailsInv' /\ GrowStep
<1>1. TrailInv /\ LogOrdered /\ Behind(live)
  BY DEF TrailsInv, OrderInv
<1>2. /\ \A i \in DOMAIN log' : Trail(log'[i])
      /\ LogOrdered'
      /\ \A i \in DOMAIN log' : Earlier(log'[i], live)
  BY <1>1, CutOrdered
<1>3. TrailInv' /\ UndoInv' /\ OrderInv'
  BY <1>1, <1>2 DEF TrailInv, UndoInv, OrderInv, Behind
<1>4. Grows(live, live')
  BY <1>1, GrowsNot DEF TrailInv
<1> QED BY <1>3, <1>4, LiveStep DEF TrailsInv

\* A new Segment starts with the live Flow state, trail included.
LEMMA CompactTrail ==
    ASSUME IInv, TrailsInv, Compact
    PROVE  TrailsInv' /\ GrowStep
<1>1. /\ up /\ up' = up /\ live' = live /\ log' = IF live = NoFlow THEN <<>> ELSE <<live>>
      /\ turn'.rollbackable = FALSE /\ turn'.live = turn.live
  BY DEF Compact, IInv, ShapeInv
<1>2. live # NoFlow => Trail(live)
  BY DEF TrailsInv, TrailInv
<1>3. \A i \in DOMAIN log' : log'[i] = live /\ live # NoFlow
  BY <1>1
<1>4. Grows(live, live)
  BY <1>2, GrowsNot
<1>5. live # NoFlow => Earlier(live, live)
  BY <1>4 DEF Grows, Earlier
<1>6. TrailInv'
  BY <1>1, <1>2, <1>3, Zenon DEF TrailsInv, TrailInv
<1>7. UndoInv'
  BY <1>1 DEF UndoInv
<1>8. OrderInv'
  BY <1>1, <1>3, <1>5 DEF OrderInv, LogOrdered, Behind
<1> QED BY <1>1, <1>4, <1>6, <1>7, <1>8, LiveStep DEF TrailsInv

\* A process that stops leaves the log, which is not ahead of what it had.
LEMMA CrashTrail ==
    ASSUME IInv, TrailsInv, Crash
    PROVE  TrailsInv' /\ GrowStep
<1>1. up /\ ~up' /\ log' = log /\ live' = NoFlow /\ turn' = IdleTurn
  BY DEF Crash
<1>2. TrailInv' /\ UndoInv' /\ OrderInv'
  BY <1>1, IdleTurnFields DEF TrailsInv, TrailInv, UndoInv, OrderInv, LogOrdered
<1>3. Current = live /\ Current' = Restored(log)
  BY <1>1 DEF Current
<1>4. CASE apart
  <2> SUFFICES ASSUME live # NoFlow, Restored(log) # NoFlow, live.inst = Restored(log).inst
               PROVE  IsPrefix(Restored(log).events, live.events)
    BY <1>1, <1>2, <1>3, <1>4 DEF GrowStep, TrailsInv
  <2>1. PICK S : log \in Seq(S)
    BY DEF IInv, LogIsSequence
  <2>2. log # <<>> /\ Restored(log) = log[Len(log)]
    BY DEF Restored, Last
  <2>3. Len(log) \in DOMAIN log
    BY <2>1, <2>2
  <2>4. Earlier(log[Len(log)], live)
    BY <1>1, <2>3 DEF TrailsInv, OrderInv, Behind
  <2> QED BY <2>2, <2>4 DEF Earlier
<1>5. CASE ~apart
  <2>1. live = Restored(log)
    BY <1>1, <1>5 DEF IInv, SnapshotInv, LiveIsDurable
  <2>2. Grows(live, live)
    BY GrowsNot DEF TrailsInv, TrailInv
  <2> QED BY <1>2, <1>3, <1>5, <2>1, <2>2 DEF GrowStep, TrailsInv
<1> QED BY <1>4, <1>5

\* A restart takes up the newest Flow state of the log.
LEMMA RestoreTrail ==
    ASSUME IInv, TrailsInv, Restore
    PROVE  TrailsInv' /\ GrowStep
<1>1. ~up /\ up' /\ log' = log /\ turn' = turn /\ live' = Restored(log)
  BY DEF Restore
<1>2. PICK S : log \in Seq(S)
  BY DEF IInv, LogIsSequence
<1>3. ~turn.rollbackable
  BY <1>1 DEF IInv, SnapshotInv, SnapshotExact
<1>4. live' # NoFlow => Trail(live')
  BY <1>1, RestoredTrail DEF TrailsInv, IInv
<1>5. TrailInv' /\ UndoInv' /\ LogOrdered'
  BY <1>1, <1>3, <1>4 DEF TrailsInv, TrailInv, UndoInv, OrderInv, LogOrdered
<1>6. Behind(live)'
  <2> SUFFICES ASSUME NEW i \in DOMAIN log PROVE Earlier(log[i], Restored(log))
    BY <1>1 DEF Behind
  <2>1. log # <<>> /\ Len(log) \in DOMAIN log /\ i <= Len(log)
    BY <1>2
  <2>2. Restored(log) = log[Len(log)]
    BY <2>1 DEF Restored, Last
  <2> QED BY <2>1, <2>2 DEF TrailsInv, OrderInv, LogOrdered
<1>7. Current = Restored(log) /\ Current' = Restored(log)
  BY <1>1 DEF Current
<1>8. Grows(Restored(log), Restored(log))
  BY <1>1, <1>4, GrowsNot
<1>9. GrowStep
  BY <1>1, <1>7, <1>8 DEF GrowStep
<1>10. OrderInv'
  BY <1>1, <1>3, <1>5, <1>6 DEF OrderInv
<1> QED BY <1>5, <1>9, <1>10 DEF TrailsInv

\* Every step keeps the trails justified and in order.
LEMMA NextTrail ==
    ASSUME IInv, TrailsInv, Next
    PROVE  TrailsInv' /\ GrowStep
<1>1. CASE SubmitPlain
  <2>1. up /\ up' = up /\ log' = log /\ live' = live /\ turn'.live = live
    BY <1>1 DEF SubmitPlain, OpenTurn
  <2> QED BY <2>1, SameFlow
<1>2. ASSUME NEW d \in Definitions, SubmitFlow(d) PROVE TrailsInv' /\ GrowStep
  BY <1>2, SubmitFlowTrail
<1>3. CASE AiActivity
  <2>1. /\ up /\ up' = up /\ log' = log /\ live' = live
        /\ turn'.rollbackable = FALSE /\ turn'.live = turn.live
    BY <1>3 DEF AiActivity, IInv, ShapeInv
  <2> QED BY <2>1, SameFlow
<1>4. ASSUME NEW c \in Calls, BeginTransition(c) PROVE TrailsInv' /\ GrowStep
  BY <1>4, BeginTransitionTrail
<1>5. ASSUME NEW c \in Calls, FinishVerification(c) \/ DropCall(c)
      PROVE  TrailsInv' /\ GrowStep
  <2>1. up /\ up' = up /\ log' = log /\ live' = live /\ turn' = turn
    BY <1>5 DEF FinishVerification, DropCall
  <2> QED BY <2>1, SameFlow
<1>6. ASSUME NEW c \in Calls, ResolveTransition(c) PROVE TrailsInv' /\ GrowStep
  BY <1>6, ResolveTransitionTrail
<1>7. CASE EndTurn
  <2>1. up /\ up' = up /\ log' = log /\ live' = live /\ turn' = IdleTurn
    BY <1>7 DEF EndTurn
  <2> QED BY <2>1, IdleTurnFields, SameFlow
<1>8. CASE RollbackTurn
  BY <1>8, RollbackTrail
<1>9. CASE Compact
  BY <1>9, CompactTrail
<1>10. CASE Fork
  <2>1. up /\ up' = up /\ log' = <<>> /\ live' = live /\ turn' = turn /\ ~turn.running
    BY <1>10 DEF Fork
  <2>2. ~turn.rollbackable
    BY <2>1 DEF IInv, SnapshotInv, SnapshotExact
  <2> QED BY <2>1, <2>2, ShortenTrail
<1>11. ASSUME NEW n \in inputs, Rewind(n) PROVE TrailsInv' /\ GrowStep
  <2>1. /\ up /\ up' = up /\ log' = SubSeq(log, 1, n) /\ live' = live /\ turn' = turn
        /\ ~turn.running
    BY <1>11 DEF Rewind
  <2>2. ~turn.rollbackable /\ n \in 0 .. Len(log)
    BY <2>1 DEF IInv, SnapshotInv, SnapshotExact
  <2>3. PICK S : log \in Seq(S)
    BY DEF IInv, LogIsSequence
  <2>4. \A i \in DOMAIN log' : i \in DOMAIN log /\ log'[i] = log[i]
    BY <2>1, <2>2, <2>3, RestoredCut
  <2> QED BY <2>1, <2>2, <2>4, ShortenTrail
<1>12. CASE Crash
  BY <1>12, CrashTrail
<1>13. CASE Restore
  BY <1>13, RestoreTrail
<1> QED
  BY <1>1, <1>2, <1>3, <1>4, <1>5, <1>6, <1>7, <1>8, <1>9, <1>10, <1>11, <1>12, <1>13
  DEF Next

\* The trails of all Flow states the Worker holds are justified, the log is never
\* ahead of the live Flow, and a turn that can be undone changed nothing but the
\* instance it started.
THEOREM FlowTrails == Spec => []TrailsInv
<1>1. Init => TrailsInv
  <2> SUFFICES ASSUME Init PROVE TrailsInv
    OBVIOUS
  <2>1. DOMAIN log = {} /\ turn.rollbackable = FALSE /\ live = NoFlow /\ turn.live = NoFlow
    BY IdleTurnFields DEF Init
  <2> QED BY <2>1 DEF TrailsInv, TrailInv, UndoInv, OrderInv, LogOrdered, Behind
<1>2. IInv /\ TrailsInv /\ [Next]_vars => TrailsInv'
  <2> SUFFICES ASSUME IInv, TrailsInv, [Next]_vars PROVE TrailsInv'
    OBVIOUS
  <2>1. CASE UNCHANGED vars
    BY <2>1 DEF vars, TrailsInv, TrailInv, UndoInv, OrderInv, LogOrdered, Behind
  <2> QED BY <2>1, NextTrail
<1> QED
  BY <1>1, <1>2, FlowInvariant, PTL DEF Spec

\* Every Flow state in the Session log, in the Worker and in its rollback snapshot is
\* explained by its own events: each state after the first was entered through the
\* one transition that a complete set of verdicts met, attempt ids are used once, and
\* an attempt is open exactly when the trail ends with its verification
\* (begin_transition, resolve_transition).
THEOREM TrailAlwaysJustifies == Spec => []TrailJustifiesState
<1>1. LogIsSequence /\ TrailInv => TrailJustifiesState
  <2> SUFFICES ASSUME LogIsSequence, TrailInv,
                      NEW st \in ToSet(log) \cup {live, turn.live}, st # NoFlow
               PROVE  Justified(st)
    BY DEF TrailJustifiesState
  <2>1. CASE st \in ToSet(log)
    <3>1. PICK i \in DOMAIN log : st = log[i]
      BY <2>1 DEF ToSet
    <3> QED BY <3>1 DEF TrailInv, Trail
  <2>2. CASE st \in {live, turn.live}
    BY <2>2 DEF TrailInv, Trail
  <2> QED BY <2>1, <2>2
<1>2. IInv => LogIsSequence
  BY DEF IInv
<1>3. TrailsInv => TrailInv
  BY DEF TrailsInv
<1> QED
  BY <1>1, <1>2, <1>3, FlowInvariant, FlowTrails, PTL

\* An instance only gains events, and none once it is completed or cancelled,
\* whatever is undone, compacted, rewound or lost in between; a process that stops
\* after a rewind, an automatic fork or a failed truncation falls back to an earlier
\* point of the same trail.
THEOREM TrailsOnlyGrow == Spec => TrailOnlyGrows
<1>1. IInv /\ TrailsInv /\ [Next]_vars =>
        [LET old == Current
             new == Current'
         IN  (old # NoFlow /\ new # NoFlow /\ old.inst = new.inst) =>
                IF apart /\ ~up'
                THEN IsPrefix(new.events, old.events)
                ELSE /\ IsPrefix(old.events, new.events)
                     /\ old.status # "Active" => new = old]_vars
  BY NextTrail DEF GrowStep, Grows
<1> QED
  BY <1>1, FlowInvariant, FlowTrails, PTL DEF Spec, TrailOnlyGrows
==============================================================================
