---------------------------- MODULE FlowDefinition ----------------------------
(***************************************************************************)
(* crates/flow/src/definition.rs: compile_typed_source and validate_graph.  *)
(*                                                                          *)
(* A source document is checked field by field (schema, identifiers, texts, *)
(* targets), then, only if nothing was wrong, its graph is searched forward *)
(* from the initial state and backward from the terminal states.  A run of  *)
(* this specification compiles one document.  The code's two VecDeque       *)
(* worklists are sets here, so that every order of visiting is covered; a   *)
(* duplicate in the queue is skipped by the code and vanishes in the set.   *)
(***************************************************************************)
EXTENDS FlowTypes, Naturals

CONSTANTS
    Names,          \* every string that may stand where a state id is expected
    TransitionIds,  \* every string that may stand where a transition id is
    WellFormed,     \* the strings validate_identifier accepts
    Reserved,       \* the strings that begin with '$'
    MaxStates,      \* MAX_STATES
    MaxTransitions, \* MAX_TRANSITIONS_PER_STATE
    Sources         \* the documents to compile

\* The three things validate_text tells apart in an instruction or condition.
Text == {"ok", "blank", "too_large"}

\* A decoded FlowSource.  "states" is the key set of its map; each state has its
\* instructions, and its transitions with their target and condition.
Document ==
    [versionOk : BOOLEAN, nameOk : BOOLEAN, initial : Names,
     states : SUBSET Names, terminal : SUBSET Names,
     text : [Names -> Text],
     trans : [Names -> SUBSET [id : TransitionIds, target : Names, text : Text]]]

\* The keys of a state's transition map are distinct, and a document is finite.
DocumentOK(doc) ==
    /\ doc \in Document
    /\ doc.terminal \subseteq doc.states
    /\ IsFiniteSet(doc.states)
    /\ \A s \in doc.states :
        /\ IsFiniteSet(doc.trans[s])
        /\ \A t, u \in doc.trans[s] : t.id = u.id => t = u

ASSUME ConstantsAssumption ==
    /\ Cancelled \in Names \cap Reserved
    /\ CancelId \in TransitionIds \cap Reserved
    /\ Reserved \cap WellFormed = {}
    /\ MaxStates \in Nat /\ MaxTransitions \in Nat

ASSUME SourcesAssumption == \A doc \in Sources : DocumentOK(doc)

VARIABLES
    src,            \* the document being compiled
    phase,          \* "typed", "forward", "backward" or "done"
    diagnostics,    \* set of <<code, where>>; the compile fails iff nonempty
    reachable,      \* validate_graph: states visited from the initial state
    pending,        \* validate_graph: forward worklist
    canReach,       \* validate_graph: can_reach_terminal
    work            \* validate_graph: backward worklist

vars == <<src, phase, diagnostics, reachable, pending, canReach, work>>

------------------------------------------------------------------------------
\* Field checks.

When(condition, code, where) == IF condition THEN {<<code, where>>} ELSE {}

\* validate_text: only terminal states may leave their instructions blank.
TextDiagnostics(text, allowEmpty, where) ==
    When(text = "blank" /\ ~allowEmpty, "text_empty", where)
        \cup When(text = "too_large", "text_too_large", where)

\* Mutant of TransitionDiagnostics: an author may reuse the reserved "$cancel".
TransitionDiagnosticsAnyId(doc, s, t) ==
    When(t.target \in Reserved, "reserved_transition_target", s)
        \cup When(t.target \notin WellFormed, "invalid_transition_target", s)
        \cup When(t.target \notin doc.states, "transition_target_not_found", s)
        \cup TextDiagnostics(t.text, FALSE, s)

TransitionDiagnostics(doc, s, t) ==
    When(t.id \in Reserved, "reserved_transition", s)
        \cup When(t.id \notin WellFormed, "invalid_transition_id", s)
        \cup When(t.target \in Reserved, "reserved_transition_target", s)
        \cup When(t.target \notin WellFormed, "invalid_transition_target", s)
        \cup When(t.target \notin doc.states, "transition_target_not_found", s)
        \cup TextDiagnostics(t.text, FALSE, s)

StateDiagnostics(doc, s) ==
    LET isTerminal == s \in doc.terminal IN
    When(s \notin WellFormed, "invalid_state_id", s)
        \cup TextDiagnostics(doc.text[s], isTerminal, s)
        \cup When(isTerminal /\ doc.trans[s] # {}, "terminal_has_transitions", s)
        \cup When(~isTerminal /\ doc.trans[s] = {},
                  "non_terminal_without_transition", s)
        \cup When(Cardinality(doc.trans[s]) > MaxTransitions,
                  "too_many_transitions", s)
        \cup UNION {TransitionDiagnostics(doc, s, t) : t \in doc.trans[s]}

\* compile_typed_source up to the call of validate_graph.
TypedDiagnostics(doc) ==
    When(~doc.versionOk, "unsupported_schema_version", "$")
        \cup When(~doc.nameOk, "invalid_name", "$")
        \cup When(doc.states = {}, "states_empty", "$")
        \cup When(Cardinality(doc.states) > MaxStates, "too_many_states", "$")
        \cup When(doc.initial = Cancelled, "reserved_state", "$")
        \cup When(doc.initial \notin WellFormed, "invalid_initial", "$")
        \cup When(doc.initial \notin doc.states, "initial_not_found", "$")
        \cup When(Cancelled \in doc.states, "reserved_state", Cancelled)
        \cup UNION {StateDiagnostics(doc, s) : s \in doc.states}

\* The transitions a CompiledState carries: the authored ones, then, unless the
\* state is terminal, the synthetic one to $cancelled.
CompiledTransitions(doc, s) ==
    {[id |-> t.id, target |-> t.target, synthetic |-> FALSE] : t \in doc.trans[s]}
        \cup (IF s \in doc.terminal THEN {} ELSE {CancelTransition})

\* The definition returned when there are no diagnostics: $cancelled joins the
\* states only now, after the graph was validated without it.
CompiledDefinition(doc) ==
    [initial  |-> doc.initial,
     states   |-> doc.states \cup {Cancelled},
     terminal |-> doc.terminal \cup {Cancelled},
     out      |-> [s \in doc.states \cup {Cancelled} |->
                     IF s = Cancelled THEN {} ELSE CompiledTransitions(doc, s)]]

------------------------------------------------------------------------------
\* Graph search.

\* Mutant of Successors: the filter on synthetic transitions is dropped, so the
\* search also walks to $cancelled.
SuccessorsWithCancel(s) == {t.target : t \in CompiledTransitions(src, s)}

\* Successors along the transitions the search follows.
Successors(s) ==
    {t.target : t \in {u \in CompiledTransitions(src, s) : ~u.synthetic}}

\* The "reverse" adjacency map.
Predecessors(s) == {p \in src.states : s \in Successors(p)}

Init ==
    /\ src \in Sources
    /\ phase = "typed"
    /\ diagnostics = {}
    /\ reachable = {} /\ pending = {}
    /\ canReach = {} /\ work = {}

CheckFields ==
    /\ phase = "typed"
    /\ diagnostics' = TypedDiagnostics(src)
    /\ \/ /\ diagnostics' = {}
          /\ phase' = "forward"
          /\ pending' = {src.initial}
       \/ /\ diagnostics' # {}
          /\ phase' = "done"
          /\ UNCHANGED pending
    /\ UNCHANGED <<src, reachable, canReach, work>>

\* Mutant of VisitForward: a state met again is expanded again, as if the
\* "!reachable.insert(..)" test were missing.
RevisitForward(s) ==
    /\ phase = "forward"
    /\ s \in pending
    /\ reachable' = reachable \cup {s}
    /\ pending' = (pending \ {s}) \cup Successors(s)
    /\ UNCHANGED <<src, phase, diagnostics, canReach, work>>

VisitForward(s) ==
    /\ phase = "forward"
    /\ s \in pending
    /\ reachable' = reachable \cup {s}
    /\ pending' = (pending \ {s})
                    \cup (IF s \in reachable THEN {} ELSE Successors(s))
    /\ UNCHANGED <<src, phase, diagnostics, canReach, work>>

\* The unreachable states are reported; without a terminal state validate_graph
\* stops here.
EndForward ==
    /\ phase = "forward"
    /\ pending = {}
    /\ LET unreachable == {<<"unreachable_state", s>> : s \in src.states \ reachable}
       IN \/ /\ src.terminal = {}
             /\ diagnostics' = diagnostics \cup unreachable
                                    \cup {<<"terminal_missing", "$">>}
             /\ phase' = "done"
             /\ UNCHANGED <<canReach, work>>
          \/ /\ src.terminal # {}
             /\ diagnostics' = diagnostics \cup unreachable
             /\ phase' = "backward"
             /\ canReach' = src.terminal
             /\ work' = src.terminal
    /\ UNCHANGED <<src, reachable, pending>>

VisitBackward(s) ==
    /\ phase = "backward"
    /\ s \in work
    /\ canReach' = canReach \cup Predecessors(s)
    /\ work' = (work \ {s}) \cup (Predecessors(s) \ canReach)
    /\ UNCHANGED <<src, phase, diagnostics, reachable, pending>>

EndBackward ==
    /\ phase = "backward"
    /\ work = {}
    /\ diagnostics' = diagnostics
            \cup {<<"terminal_unreachable", s>> : s \in reachable \ canReach}
    /\ phase' = "done"
    /\ UNCHANGED <<src, reachable, pending, canReach, work>>

Next ==
    \/ CheckFields
    \/ \E s \in Names : VisitForward(s) \/ VisitBackward(s)
    \/ EndForward
    \/ EndBackward

\* compile_flow_source is a synchronous function: once called it runs on.
Spec == Init /\ [][Next]_vars /\ WF_vars(Next)

------------------------------------------------------------------------------
\* Properties.

\* The searches of validate_graph never leave the declared states: $cancelled,
\* to which every nonterminal state has a transition, is not one of them yet.
TypeOK ==
    /\ DocumentOK(src)
    /\ phase \in {"typed", "forward", "backward", "done"}
    /\ reachable \subseteq src.states /\ pending \subseteq src.states
    /\ canReach \subseteq src.states /\ work \subseteq canReach

\* Reference definitions: s is reachable iff it lies in every set of states that
\* contains the initial state and is closed under Successors; s can complete
\* iff it lies in every set that contains the terminal states and is closed
\* under Predecessors.
Reachable ==
    {s \in src.states : \A C \in SUBSET src.states :
        (src.initial \in C /\ \A q \in C : Successors(q) \subseteq C) => s \in C}

CanComplete ==
    {s \in src.states : \A C \in SUBSET src.states :
        (src.terminal \subseteq C /\ \A q \in C : Predecessors(q) \subseteq C)
            => s \in C}

\* validate_graph reports exactly the states that no author transition leads to
\* and exactly the reachable states from which no author transition path ends in
\* a declared terminal state, whatever order its worklists are visited in.
GraphVerdictExact ==
    phase = "done" /\ TypedDiagnostics(src) = {} =>
        diagnostics =
            {<<"unreachable_state", s>> : s \in src.states \ Reachable}
                \cup IF src.terminal = {}
                     THEN {<<"terminal_missing", "$">>}
                     ELSE {<<"terminal_unreachable", s>> :
                             s \in Reachable \ CanComplete}

\* A document that compiles is one the coordinator can run without meeting a
\* FlowTransitionError::Invariant, and a state from which the only way out is
\* the synthetic cancellation never compiles.
AcceptedIsRunnable ==
    phase = "done" /\ diagnostics = {} =>
        /\ WellFormedDefinition(CompiledDefinition(src))
        /\ src.states \subseteq CanComplete

\* The two searches come to an end on every document, cyclic ones included.
Terminates == <>(phase = "done")

==============================================================================
