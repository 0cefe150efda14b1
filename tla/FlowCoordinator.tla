---------------------------- MODULE FlowCoordinator ----------------------------
(***************************************************************************)
(* The Flow instance owned by one Worker.                                   *)
(*                                                                          *)
(*   crates/flow/src/coordinator.rs          begin and resolve a transition *)
(*   crates/worker/src/feature/builtin/      the RequestFlowTransition tool *)
(*       flow_transition.rs                  and the internal verifier      *)
(*   crates/worker/src/worker.rs             Submit, rollback of an empty   *)
(*                                           turn, compaction, rewind,      *)
(*                                           automatic fork, restore        *)
(*                                                                          *)
(* "live" is Worker.flow_runtime_state; "log" holds, oldest first, the Flow *)
(* states the active Segment's Session log contains (other entries of the   *)
(* log are left out: nothing here depends on them).  A Session append is    *)
(* atomic (FsStore::append_line cuts a torn record off), so a commit either *)
(* extends "log" or fails without an effect.  A rewind, an automatic fork   *)
(* and a rollback whose truncation fails change one of the two alone: the   *)
(* auxiliary variable "apart" says that this happened since both were last  *)
(* written together.  No action reads it.                                   *)
(***************************************************************************)
EXTENDS FlowTypes, Naturals, Sequences, SequencesExt

CONSTANTS
    Definitions,    \* the compiled definitions Workspace sources resolve to
    Calls,          \* RequestFlowTransition executions that may overlap
    MaxInstances,   \* bound on Flow instances started in one behaviour
    MaxAttempts,    \* bound on transition attempts recorded in one behaviour
    MaxInputs       \* bound on the places in one Segment with a user input

ASSUME DefinitionsAssumption == \A d \in Definitions : WellFormedDefinition(d)
\* CompiledFlowState.transitions is a Vec.
ASSUME FiniteAssumption == \A d \in Definitions : \A s \in d.states : IsFiniteSet(Outgoing(d, s))
ASSUME BoundsAssumption ==
    MaxInstances \in Nat /\ MaxAttempts \in Nat /\ MaxInputs \in Nat

VARIABLES
    up,             \* the Worker process runs (a restore has completed)
    live,           \* Worker.flow_runtime_state
    log,            \* Flow states in the active Segment, oldest first
    inputs,         \* how much of log precedes each user input of the Segment
    apart,          \* auxiliary: live or log was changed without the other
    turn,           \* the run in progress and what undoing it would restore
    inFlight,       \* FlowTransitionState.in_flight
    calls,          \* per tool execution: its attempt and the verifier's slot
    nextInst,       \* the next instance's id: a fresh UUID
    nextAttempt     \* the next attempt's id: a fresh UUID

vars == <<up, live, log, inputs, apart, turn, inFlight, calls, nextInst, nextAttempt>>

------------------------------------------------------------------------------
\* coordinator.rs

NoFlow == [inst |-> 0]
NoId == 0
NoAttempt == [id |-> NoId]

Verdict == {"Met", "NotMet", "Indeterminate"}

Event(kind, id, arg) == [kind |-> kind, id |-> id, arg |-> arg]

\* FlowInstance::start.
InitialStatus(d) == IF d.initial \in d.terminal THEN "Completed" ELSE "Active"

\* FlowRuntimeState::start; the source's digest and selector match its
\* definition, which the Workspace compiled itself.
StartState(inst, d) ==
    [inst |-> inst, def |-> d, cur |-> d.initial, status |-> InitialStatus(d),
     activeId |-> NoId, attempt |-> NoAttempt,
     events |-> <<Event("StateEntered", NoId,
                        [state |-> d.initial, status |-> InitialStatus(d)])>>]

\* "The event log is the identity authority: an attempt ID is used once."
UsedIds(st) ==
    {e.id : e \in {x \in ToSet(st.events) : x.kind = "TransitionRequested"}}

\* The early returns of begin_or_recover_transition and begin_transition.
CanBegin(st, id) ==
    /\ st.attempt = NoAttempt
    /\ id \notin UsedIds(st)
    /\ st.status = "Active"
    /\ st.activeId = NoId
    /\ st.cur \notin st.def.terminal /\ Outgoing(st.def, st.cur) # {}

\* begin_transition: every outgoing condition of the current state is pinned.
BeginState(st, id) ==
    [st EXCEPT
        !.activeId = id,
        !.attempt = [id |-> id, from |-> st.cur,
                     transitions |-> Outgoing(st.def, st.cur)],
        !.events = @ \o <<Event("TransitionRequested", id, st.cur),
                          Event("TransitionVerifying", id, st.cur)>>]

\* The conditions of resolve_active_transition and resolve_transition.
CanResolve(st, id) ==
    /\ st.attempt # NoAttempt
    /\ st.attempt.id = id
    /\ st.activeId = st.attempt.id

\* The reservation is released whatever the outcome.
Settle(st, newEvents) ==
    [st EXCEPT !.activeId = NoId, !.attempt = NoAttempt, !.events = @ \o newEvents]

Rejected(st, code) ==
    Settle(st, <<Event("TransitionCheckRejected", st.activeId, code)>>)

TransitionOf(attempt, id) == CHOOSE t \in attempt.transitions : t.id = id

ExpectedIds(attempt) == {t.id : t \in attempt.transitions}

MetIds(results) == {id \in DOMAIN results : results[id] = "Met"}

\* The accepting end of resolve_completed_results.
Entered(st, results) ==
    LET chosen == TransitionOf(st.attempt, CHOOSE id \in MetIds(results) : TRUE)
        status == IF chosen.target = Cancelled THEN "Cancelled"
                  ELSE IF chosen.target \in st.def.terminal THEN "Completed"
                  ELSE "Active"
    IN  [Settle(st, <<Event("TransitionCheckPassed", st.activeId,
                            [transition |-> chosen, results |-> results]),
                      Event("StateEntered", st.activeId,
                            [state |-> chosen.target, status |-> status])>>)
            EXCEPT !.cur = chosen.target, !.status = status]

\* Mutant: the first Met verdict wins although others were met too.
ResolveFirstMet(st, outcome) ==
    IF MetIds(outcome.results) = {} THEN Rejected(st, "NoConditionMet")
    ELSE Entered(st, outcome.results)

\* The Completed arm of resolve_transition and resolve_completed_results.
ResolveCompleted(st, outcome) ==
    LET results == outcome.results IN
    CASE st.status # "Active" \/ st.cur # st.attempt.from ->
            Rejected(st, "StaleState")
      [] outcome.oversized \/ DOMAIN results # ExpectedIds(st.attempt) ->
            Rejected(st, "InvalidVerifierOutput")
      [] MetIds(results) = {} ->
            Rejected(st, IF \E id \in DOMAIN results : results[id] = "Indeterminate"
                         THEN "Indeterminate" ELSE "NoConditionMet")
      [] Cardinality(MetIds(results)) > 1 ->
            Rejected(st, "MultipleConditionsMet")
      [] OTHER -> Entered(st, results)

\* resolve_transition.
ResolveState(st, outcome) ==
    CASE outcome.kind = "Cancelled" ->
            Settle(st, <<Event("TransitionVerificationCancelled", st.activeId, ""),
                         Event("TransitionCheckRejected", st.activeId, "VerifierCancelled")>>)
      [] outcome.kind = "Failed" ->
            Settle(st, <<Event("TransitionVerificationFailed", st.activeId, ""),
                         Event("TransitionCheckRejected", st.activeId, "VerifierFailed")>>)
      [] outcome.kind = "Completed" ->
            ResolveCompleted(st, outcome)

------------------------------------------------------------------------------
\* worker.rs and flow_transition.rs

\* restored_flow_runtime_state: the newest Flow state of the log.
Restored(entries) == IF entries = <<>> THEN NoFlow ELSE Last(entries)

NoSlot == [kind |-> "none"]
IdleTurn == [running |-> FALSE, rollbackable |-> FALSE, live |-> NoFlow, entries |-> 0,
             apart |-> FALSE]
IdleCall == [verifying |-> FALSE, attempt |-> NoAttempt, slot |-> NoSlot]

\* Mutant: the live state is replaced although the append failed.
CommitLiveAnyway(st, appended) ==
    /\ log' = IF appended THEN Append(log, st) ELSE log
    /\ live' = st
    /\ apart' = IF appended THEN FALSE ELSE apart

\* Append to the Session log first, replace the live state only if that worked.
Commit(st, appended) ==
    /\ log' = IF appended THEN Append(log, st) ELSE log
    /\ live' = IF appended THEN st ELSE live
    /\ apart' = IF appended THEN FALSE ELSE apart

Init ==
    /\ up = TRUE
    /\ live = NoFlow /\ log = <<>>
    /\ inputs = {} /\ apart = FALSE
    /\ turn = IdleTurn
    /\ inFlight = FALSE
    /\ calls = [c \in Calls |-> IdleCall]
    /\ nextInst = 1 /\ nextAttempt = 1

\* run_with_input_extensions_and_commit_hook: the rollback snapshot is taken
\* before the input is committed.
OpenTurn ==
    /\ turn' = [running |-> TRUE, rollbackable |-> TRUE, live |-> live,
                entries |-> Len(log), apart |-> apart]
    /\ inputs' = inputs \cup {Len(log)}
    /\ Cardinality(inputs') <= MaxInputs

\* Submit whose input has no Flow segment.
SubmitPlain ==
    /\ up /\ ~turn.running
    /\ OpenTurn
    /\ UNCHANGED <<up, live, log, apart, inFlight, calls, nextInst, nextAttempt>>

\* Mutant: a Submit does not look at the instance it would replace.
NeverActive(st) == FALSE

HasActiveFlow(st) == st # NoFlow /\ st.status = "Active"

\* Submit with a Flow segment: prepare_flow_input refuses a second active
\* instance; a failed commit of the input ends the run without an effect.
SubmitFlow(d) ==
    /\ up /\ ~turn.running
    /\ ~HasActiveFlow(live)
    /\ nextInst <= MaxInstances
    /\ \E appended \in BOOLEAN :
        /\ Commit(StartState(nextInst, d), appended)
        /\ IF appended THEN OpenTurn ELSE UNCHANGED <<turn, inputs>>
        /\ nextInst' = IF appended THEN nextInst + 1 ELSE nextInst
    /\ UNCHANGED <<up, inFlight, calls, nextAttempt>>

\* The model produced output: the turn is no longer empty.
AiActivity ==
    /\ up /\ turn.running /\ turn.rollbackable
    /\ turn' = [turn EXCEPT !.rollbackable = FALSE]
    /\ UNCHANGED <<up, live, log, inputs, apart, inFlight, calls, nextInst, nextAttempt>>

\* Mutant: in_flight is read but not set.
VerifyingUnguarded(c, attempt) ==
    /\ inFlight' = inFlight
    /\ calls' = [calls EXCEPT ![c] =
                    [verifying |-> TRUE, attempt |-> attempt, slot |-> NoSlot]]

\* The verifier starts on an attempt that is durable.
Verifying(c, attempt) ==
    /\ inFlight' = TRUE
    /\ calls' = [calls EXCEPT ![c] =
                    [verifying |-> TRUE, attempt |-> attempt, slot |-> NoSlot]]

\* RequestFlowTransitionTool::execute up to the verifier: swap in_flight, then
\* begin_transition.  A restored or abandoned attempt is taken up again under
\* its own id; a refused or failed begin drops the guard and has no effect.
BeginTransition(c) ==
    /\ up /\ turn.running /\ ~turn.rollbackable
    /\ ~calls[c].verifying
    /\ ~inFlight
    /\ live # NoFlow
    /\ \/ /\ live.attempt # NoAttempt
          /\ Verifying(c, live.attempt)
          /\ UNCHANGED <<live, log, apart, nextAttempt>>
       \/ /\ CanBegin(live, nextAttempt)
          /\ nextAttempt <= MaxAttempts
          /\ Commit(BeginState(live, nextAttempt), TRUE)
          /\ Verifying(c, BeginState(live, nextAttempt).attempt)
          /\ nextAttempt' = nextAttempt + 1
    /\ UNCHANGED <<up, inputs, turn, nextInst>>

\* FinishFlowVerificationTool::execute accepts the first submission that has
\* exactly one verdict for each captured transition and refuses all others.
FinishVerification(c) ==
    /\ up /\ calls[c].verifying
    /\ calls[c].slot = NoSlot
    /\ \E results \in [ExpectedIds(calls[c].attempt) -> Verdict], oversized \in BOOLEAN :
        calls' = [calls EXCEPT ![c].slot =
                    [kind |-> "Completed", results |-> results, oversized |-> oversized]]
    /\ UNCHANGED <<up, live, log, inputs, apart, turn, inFlight, nextInst, nextAttempt>>

\* How WorkerBackedFlowVerifier::verify ends: with the slot's verdicts, with an
\* error although verdicts were recorded, without any, or rolled back empty.
VerifierOutcomes(slot) ==
    {[kind |-> "Failed"]}
        \cup IF slot = NoSlot THEN {[kind |-> "Cancelled"]} ELSE {slot}

\* The rest of RequestFlowTransitionTool::execute; InFlightGuard drops at its end.
ResolveTransition(c) ==
    /\ up /\ calls[c].verifying
    /\ \E outcome \in VerifierOutcomes(calls[c].slot), appended \in BOOLEAN :
        IF live # NoFlow /\ CanResolve(live, calls[c].attempt.id)
        THEN Commit(ResolveState(live, outcome), appended)
        ELSE UNCHANGED <<live, log, apart>>
    /\ calls' = [calls EXCEPT ![c] = IdleCall]
    /\ inFlight' = FALSE
    /\ UNCHANGED <<up, inputs, turn, nextInst, nextAttempt>>

\* Mutant: in_flight is cleared at the end of execute only, not by a guard.
DropCallNoGuard(c) ==
    /\ up /\ calls[c].verifying
    /\ calls' = [calls EXCEPT ![c] = IdleCall]
    /\ UNCHANGED <<up, live, log, inputs, apart, turn, inFlight, nextInst, nextAttempt>>

\* The run is cancelled or paused while the verifier works: the tool's future is
\* dropped, the guard with it, and the attempt stays active.
DropCall(c) ==
    /\ up /\ calls[c].verifying
    /\ calls' = [calls EXCEPT ![c] = IdleCall]
    /\ inFlight' = FALSE
    /\ UNCHANGED <<up, live, log, inputs, apart, turn, nextInst, nextAttempt>>

EndTurn ==
    /\ up /\ turn.running
    /\ \A c \in Calls : ~calls[c].verifying
    /\ turn' = IdleTurn
    /\ UNCHANGED <<up, live, log, inputs, apart, inFlight, calls, nextInst, nextAttempt>>

\* Mutant: an interrupted turn is rolled back although the model had acted.
RollbackAnyTurn ==
    /\ up /\ turn.running
    /\ \A c \in Calls : ~calls[c].verifying
    /\ turn.entries <= Len(log)
    /\ live' = turn.live
    /\ log' = SubSeq(log, 1, turn.entries)
    /\ apart' = turn.apart
    /\ turn' = IdleTurn
    /\ UNCHANGED <<up, inputs, inFlight, calls, nextInst, nextAttempt>>

\* rollback_empty_turn: the live state goes back first, then the log is cut,
\* which may fail.
RollbackTurn ==
    /\ up /\ turn.running /\ turn.rollbackable
    /\ live' = turn.live
    /\ \E truncated \in BOOLEAN :
        /\ log' = IF truncated THEN SubSeq(log, 1, turn.entries) ELSE log
        /\ apart' = IF truncated THEN turn.apart ELSE TRUE
    /\ turn' = IdleTurn
    /\ UNCHANGED <<up, inputs, inFlight, calls, nextInst, nextAttempt>>

\* rewind_to, while the Worker is idle: the Segment is replaced by the part
\* before one of its user inputs.  flow_runtime_state is left as it is.  (An
\* input that was rolled back may stay in "inputs": nothing follows it, so
\* rewinding to it changes nothing.)
Rewind(n) ==
    /\ up /\ ~turn.running
    /\ n \in inputs
    /\ log' = SubSeq(log, 1, n)
    /\ inputs' = {m \in inputs : m <= n}
    /\ apart' = IF n < Len(log) THEN TRUE ELSE apart
    /\ UNCHANGED <<up, live, turn, inFlight, calls, nextInst, nextAttempt>>

\* ensure_segment_head, before a run whose Segment has not the length this
\* process wrote: it goes on in a new Segment, which gets no Flow state.
Fork ==
    /\ up /\ ~turn.running
    /\ log' = <<>> /\ inputs' = {}
    /\ apart' = IF log # <<>> THEN TRUE ELSE apart
    /\ UNCHANGED <<up, live, turn, inFlight, calls, nextInst, nextAttempt>>

\* Compaction moves to a new Segment that starts with the live Flow state; it
\* takes effect when the Worker metadata points at that Segment.  A run it
\* interrupts is resumed without the rollback snapshot.
Compact ==
    /\ up
    /\ \A c \in Calls : ~calls[c].verifying
    /\ log' = IF live = NoFlow THEN <<>> ELSE <<live>>
    /\ inputs' = {} /\ apart' = FALSE
    /\ turn' = [turn EXCEPT !.rollbackable = FALSE]
    /\ UNCHANGED <<up, live, inFlight, calls, nextInst, nextAttempt>>

\* The process stops: only the Session log is left.
Crash ==
    /\ up
    /\ up' = FALSE
    /\ live' = NoFlow /\ apart' = FALSE
    /\ turn' = IdleTurn
    /\ inFlight' = FALSE
    /\ calls' = [c \in Calls |-> IdleCall]
    /\ UNCHANGED <<log, inputs, nextInst, nextAttempt>>

Restore ==
    /\ ~up
    /\ up' = TRUE
    /\ live' = Restored(log)
    /\ UNCHANGED <<log, inputs, apart, turn, inFlight, calls, nextInst, nextAttempt>>

Next ==
    \/ SubmitPlain
    \/ \E d \in Definitions : SubmitFlow(d)
    \/ AiActivity
    \/ \E c \in Calls : \/ BeginTransition(c) \/ FinishVerification(c)
                      \/ ResolveTransition(c) \/ DropCall(c)
    \/ EndTurn \/ RollbackTurn \/ Compact
    \/ Fork \/ \E n \in inputs : Rewind(n)
    \/ Crash \/ Restore

\* The verifier's run is bounded (max_turns) and its result is applied in the
\* same poll, so a call that verifies goes on to its end unless it is dropped.
Fairness == \A c \in Calls : WF_vars(ResolveTransition(c))

Spec == Init /\ [][Next]_vars /\ Fairness

------------------------------------------------------------------------------
\* Properties

TypedFlow(st) ==
    \/ st = NoFlow
    \/ /\ st.inst \in 1 .. MaxInstances
       /\ st.def \in Definitions
       /\ st.cur \in st.def.states
       /\ st.status \in {"Active", "Completed", "Cancelled"}
       /\ st.activeId \in 0 .. MaxAttempts

\* Every field the Worker keeps about its Flow, in memory, in the Session log
\* and in the rollback snapshot, stays in its range.
TypeOK ==
    /\ up \in BOOLEAN /\ inFlight \in BOOLEAN
    /\ TypedFlow(live) /\ TypedFlow(turn.live)
    /\ \A i \in DOMAIN log : log[i] # NoFlow /\ TypedFlow(log[i])
    /\ turn.running \in BOOLEAN /\ turn.rollbackable \in BOOLEAN
    /\ turn.entries \in Nat /\ turn.apart \in BOOLEAN
    /\ inputs \subseteq 0 .. Len(log) /\ apart \in BOOLEAN
    /\ turn.rollbackable => turn.running /\ turn.entries <= Len(log)
    /\ \A c \in Calls : calls[c].verifying \in BOOLEAN
    /\ nextInst \in 1 .. MaxInstances + 1
    /\ nextAttempt \in 1 .. MaxAttempts + 1

\* FlowRuntimeState: "replace live state only after a successful Session write".
\* Whatever commits, failed appends, rollbacks, compactions and restarts happened,
\* a running Worker's Flow state is what a restart at this moment would restore,
\* unless a rewind, an automatic fork or a failed truncation changed one of the two
\* since they were last written together: those operations leave them different,
\* and the next commit, compaction or restart makes them agree again.
LiveIsDurable == up /\ ~apart => live = Restored(log)

\* in_flight admits one verification; while it runs, the attempt it judges is
\* the live one and the instance has not moved, so neither the "not the
\* active/latest attempt" error nor a StaleState rejection can meet its verdict.
VerdictsFitAttempt ==
    /\ inFlight <=> \E c \in Calls : calls[c].verifying
    /\ \A c, e \in Calls : calls[c].verifying /\ calls[e].verifying => c = e
    /\ \A c \in Calls : calls[c].verifying =>
        /\ live # NoFlow /\ CanResolve(live, calls[c].attempt.id)
        /\ live.attempt = calls[c].attempt
        /\ live.status = "Active" /\ live.cur = live.attempt.from

\* The state a trail of events leads to: the last one entered.
LastEntered(events) ==
    events[Max({i \in DOMAIN events : events[i].kind = "StateEntered"})].arg

\* One state entry of a trail is the outcome of the attempt requested last, from
\* the state entered before it, by a transition of the pinned definition whose
\* condition alone was met in a complete set of verdicts.  The other verdicts may
\* be NotMet or Indeterminate: resolve_completed_results looks at an Indeterminate
\* one only when none is Met, although the head of coordinator.rs says that entry
\* requires "no Indeterminate results".
JustifiedEntry(def, events, i) ==
    LET before == SubSeq(events, 1, i - 2)
        passed == events[i - 1]
        from == LastEntered(before).state
        met == {id \in DOMAIN passed.arg.results : passed.arg.results[id] = "Met"}
    IN  /\ i > 3
        /\ passed.kind = "TransitionCheckPassed" /\ passed.id = events[i].id
        /\ Last(before) = Event("TransitionVerifying", events[i].id, from)
        /\ passed.arg.transition \in Outgoing(def, from)
        /\ DOMAIN passed.arg.results = {t.id : t \in Outgoing(def, from)}
        /\ met = {passed.arg.transition.id}
        /\ events[i].arg.state = passed.arg.transition.target

\* A Flow state's events account for where the instance is: each state after the
\* first was entered by a justified transition, the last entry gives the current
\* state and status, no attempt id was requested twice, and an attempt is open
\* exactly when the trail ends with its verification.
Justified(st) ==
    LET requests == {j \in DOMAIN st.events : st.events[j].kind = "TransitionRequested"}
    IN  /\ LastEntered(st.events) = [state |-> st.cur, status |-> st.status]
        /\ \A j \in DOMAIN st.events \ {1} :
            st.events[j].kind = "StateEntered" => JustifiedEntry(st.def, st.events, j)
        /\ \A j, k \in requests : st.events[j].id = st.events[k].id => j = k
        /\ (st.attempt # NoAttempt) <=> (Last(st.events).kind = "TransitionVerifying")
        /\ st.attempt # NoAttempt =>
            /\ st.activeId = st.attempt.id /\ Last(st.events).id = st.attempt.id
            /\ st.attempt.transitions = Outgoing(st.def, st.cur)
            /\ st.status = "Active"

\* Every Flow state that the Session log, the Worker or its rollback snapshot holds
\* is justified by its own events, whatever attempts, verdicts, failed writes,
\* rollbacks, rewinds and restarts led to it: begin_transition and
\* resolve_transition never leave a state their trail does not explain.
TrailJustifiesState ==
    \A st \in ToSet(log) \cup {live, turn.live} : st # NoFlow => Justified(st)

\* The Flow a Worker goes on with: its live one, or what a restart restores.
Current == IF up THEN live ELSE Restored(log)

\* Events are only ever added to an instance's trail, and none once the instance
\* is completed or cancelled.  A process that stops while live and log are apart
\* may fall back, and then only to an earlier point of the same trail.
TrailOnlyGrows ==
    [][LET old == Current
           new == Current'
       IN  (old # NoFlow /\ new # NoFlow /\ old.inst = new.inst) =>
              IF apart /\ ~up'
              THEN IsPrefix(new.events, old.events)
              ELSE /\ IsPrefix(old.events, new.events)
                   /\ old.status # "Active" => new = old]_vars

\* InFlightGuard: a verification never blocks later ones for good, however its
\* tool call ends.
InFlightReleased == inFlight ~> ~inFlight

\* A Flow as the contract sees it.
Projection(st) ==
    IF st = NoFlow THEN NoFlow
    ELSE [inst |-> st.inst, def |-> st.def, cur |-> st.cur, status |-> st.status]

Contract == INSTANCE FlowContract
    WITH flow <- Projection(Current),
         undo <- IF turn.running /\ turn.rollbackable
                 THEN <<Projection(turn.live)>> ELSE <<>>,
         kept <- {Projection(st) : st \in ToSet(log) \cup {NoFlow}},
         loose <- apart,
         InstanceIds <- 1 .. MaxInstances,
         None <- NoFlow

\* The Flow a Worker goes on with keeps the contract of FlowContract: one instance
\* at a time under an id that nothing a restart may bring back has, moves only
\* along the pinned definition's transitions, nothing taken back but an empty
\* turn, or by a restart after live and log came apart, which brings back a Flow
\* the Worker had before.
KeepsContract == Contract!CSpec
==============================================================================
