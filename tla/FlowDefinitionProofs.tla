------------------------- MODULE FlowDefinitionProofs -------------------------
(***************************************************************************)
(* For every set of documents of whatever size, the graph verdict of        *)
(* validate_graph is exact and what compiles can be run.                    *)
(*                                                                          *)
(* The inductive invariant says, of each search, that what it has collected *)
(* is justified (it lies in the reference set) and that what it has         *)
(* expanded is closed up to the worklist; with an empty worklist the        *)
(* collected set is closed, hence contains the reference set.               *)
(***************************************************************************)
EXTENDS FlowDefinition, TLAPS

FieldsOK == TypedDiagnostics(src) = {}

UnreachableFound == {<<"unreachable_state", s>> : s \in src.states \ Reachable}

TypedInv == phase = "typed" => reachable = {}

ForwardInv ==
    phase = "forward" =>
        /\ FieldsOK /\ diagnostics = {}
        /\ reachable \cup pending \subseteq Reachable
        /\ src.initial \in reachable \cup pending
        /\ \A q \in reachable : Successors(q) \subseteq reachable \cup pending

BackwardInv ==
    phase = "backward" =>
        /\ FieldsOK /\ src.terminal # {}
        /\ reachable = Reachable
        /\ diagnostics = UnreachableFound
        /\ work \subseteq canReach
        /\ canReach \subseteq CanComplete
        /\ src.terminal \subseteq canReach
        /\ \A q \in canReach \ work : Predecessors(q) \subseteq canReach

DoneInv ==
    phase = "done" =>
        /\ GraphVerdictExact
        /\ ~FieldsOK => diagnostics # {}

IInv == TypeOK /\ TypedInv /\ ForwardInv /\ BackwardInv /\ DoneInv

------------------------------------------------------------------------------
\* What the field checks establish of a document they do not complain about.
FieldFacts(doc) ==
    /\ doc.initial \in doc.states
    /\ Cancelled \notin doc.states
    /\ doc.initial # Cancelled
    /\ \A s \in doc.states :
        /\ s \in doc.terminal <=> doc.trans[s] = {}
        /\ \A t \in doc.trans[s] : t.target \in doc.states /\ t.id \in WellFormed

\* A document without field diagnostics has its initial state and all transition
\* targets declared, no reserved name, and transitions exactly where they belong.
LEMMA FieldsChecked ==
    ASSUME NEW doc, TypedDiagnostics(doc) = {}
    PROVE  FieldFacts(doc)
<1>1. doc.initial \in doc.states /\ Cancelled \notin doc.states /\ doc.initial # Cancelled
  BY DEF TypedDiagnostics, When
<1>2. ASSUME NEW s \in doc.states PROVE StateDiagnostics(doc, s) = {}
  <2>1. StateDiagnostics(doc, s) \subseteq TypedDiagnostics(doc)
    BY DEF TypedDiagnostics
  <2> QED BY <2>1
<1>3. ASSUME NEW s \in doc.states PROVE s \in doc.terminal <=> doc.trans[s] = {}
  <2>1. /\ When(s \in doc.terminal /\ doc.trans[s] # {},
                "terminal_has_transitions", s) \subseteq StateDiagnostics(doc, s)
        /\ When(s \notin doc.terminal /\ doc.trans[s] = {},
                "non_terminal_without_transition", s) \subseteq StateDiagnostics(doc, s)
    BY Zenon DEF StateDiagnostics
  <2>2. /\ When(s \in doc.terminal /\ doc.trans[s] # {},
                "terminal_has_transitions", s) = {}
        /\ When(s \notin doc.terminal /\ doc.trans[s] = {},
                "non_terminal_without_transition", s) = {}
    BY <1>2, <2>1
  <2> QED BY <2>2 DEF When
<1>4. ASSUME NEW s \in doc.states, NEW t \in doc.trans[s]
      PROVE  t.target \in doc.states /\ t.id \in WellFormed
  <2>1. TransitionDiagnostics(doc, s, t) \subseteq StateDiagnostics(doc, s)
    BY Zenon DEF StateDiagnostics
  <2>2. TransitionDiagnostics(doc, s, t) = {}
    BY <1>2, <2>1
  <2> QED BY <2>2 DEF TransitionDiagnostics, When
<1> QED
  BY <1>1, <1>3, <1>4 DEF FieldFacts

\* The search follows exactly the author's transitions.
LEMMA SuccessorsAuthored ==
    ASSUME NEW s
    PROVE  Successors(s) = {t.target : t \in src.trans[s]}
<1> DEFINE authored(t) == [id |-> t.id, target |-> t.target, synthetic |-> FALSE]
<1>1. ASSUME NEW t \in src.trans[s] PROVE t.target \in Successors(s)
  <2>1. authored(t) \in CompiledTransitions(src, s)
    BY DEF CompiledTransitions
  <2>2. ~authored(t).synthetic /\ authored(t).target = t.target
    OBVIOUS
  <2> QED BY <2>1, <2>2, Zenon DEF Successors
<1>2. ASSUME NEW n \in Successors(s) PROVE \E t \in src.trans[s] : n = t.target
  <2>1. PICK u \in CompiledTransitions(src, s) : ~u.synthetic /\ n = u.target
    BY <1>2, Zenon DEF Successors
  <2>2. u # CancelTransition
    BY <2>1 DEF CancelTransition
  <2>3. PICK t \in src.trans[s] : u = authored(t)
    BY <2>2 DEF CompiledTransitions
  <2> QED BY <2>1, <2>3
<1> QED
  BY <1>1, <1>2

\* From a declared state the search stays among the declared states.
LEMMA SuccessorsDeclared ==
    ASSUME FieldsOK, NEW s \in src.states
    PROVE  Successors(s) \subseteq src.states
BY FieldsChecked, SuccessorsAuthored DEF FieldsOK, FieldFacts

\* The reference set of reachable states contains the initial state and is
\* itself closed under Successors.
LEMMA ReachableClosed ==
    ASSUME FieldsOK
    PROVE  /\ src.initial \in Reachable
           /\ \A q \in Reachable : Successors(q) \subseteq Reachable
<1>1. src.initial \in Reachable
  BY FieldsChecked DEF Reachable, FieldsOK, FieldFacts
<1>2. ASSUME NEW q \in Reachable, NEW s \in Successors(q)
      PROVE  s \in Reachable
  <2>1. s \in src.states
    BY <1>2, SuccessorsDeclared DEF Reachable
  <2>2. ASSUME NEW C \in SUBSET src.states, src.initial \in C,
               \A r \in C : Successors(r) \subseteq C
        PROVE  s \in C
    BY <1>2, <2>2 DEF Reachable
  <2> QED
    BY <2>1, <2>2 DEF Reachable
<1> QED
  BY <1>1, <1>2

\* A closed set that contains the initial state contains every reachable state.
LEMMA ReachableLeast ==
    ASSUME NEW C \in SUBSET src.states, src.initial \in C,
           \A q \in C : Successors(q) \subseteq C
    PROVE  Reachable \subseteq C
BY DEF Reachable

\* The reference set of completing states contains the terminal states and is
\* closed under Predecessors, and is the least such set.
LEMMA CanCompleteClosed ==
    ASSUME src.terminal \subseteq src.states
    PROVE  /\ src.terminal \subseteq CanComplete
           /\ \A q \in CanComplete : Predecessors(q) \subseteq CanComplete
<1>1. src.terminal \subseteq CanComplete
  BY DEF CanComplete
<1>2. ASSUME NEW q \in CanComplete, NEW s \in Predecessors(q)
      PROVE  s \in CanComplete
  <2>1. s \in src.states
    BY <1>2 DEF Predecessors
  <2>2. ASSUME NEW C \in SUBSET src.states, src.terminal \subseteq C,
               \A r \in C : Predecessors(r) \subseteq C
        PROVE  s \in C
    BY <1>2, <2>2 DEF CanComplete
  <2> QED
    BY <2>1, <2>2 DEF CanComplete
<1> QED
  BY <1>1, <1>2

\* CanComplete is the least set closed under Predecessors that holds the
\* terminal states.
LEMMA CanCompleteLeast ==
    ASSUME NEW C \in SUBSET src.states, src.terminal \subseteq C,
           \A q \in C : Predecessors(q) \subseteq C
    PROVE  CanComplete \subseteq C
BY DEF CanComplete

------------------------------------------------------------------------------
\* The reference sets and the field verdict depend on the document only.
LEMMA DocumentFixed ==
    ASSUME src' = src
    PROVE  /\ Reachable' = Reachable /\ CanComplete' = CanComplete
           /\ FieldsOK' = FieldsOK /\ UnreachableFound' = UnreachableFound
           /\ \A s : Successors(s)' = Successors(s)
           /\ \A s : Predecessors(s)' = Predecessors(s)
BY DEF Reachable, CanComplete, FieldsOK, UnreachableFound, Successors, Predecessors

\* A compilation starts with every part of the invariant satisfied.
LEMMA InitIInv == Init => IInv
BY SourcesAssumption DEF Init, IInv, TypeOK, TypedInv, ForwardInv, BackwardInv, DoneInv

\* The field checks start a search only on a document they accept.
LEMMA CheckFieldsStep ==
    ASSUME IInv, CheckFields
    PROVE  IInv'
<1>0. src' = src /\ phase = "typed" /\ diagnostics' = TypedDiagnostics(src)
  BY DEF CheckFields
<1> USE <1>0, DocumentFixed
<1>1. CASE diagnostics' = {} /\ phase' = "forward" /\ pending' = {src.initial}
  <2>1. FieldsOK BY <1>1 DEF FieldsOK
  <2>2. src.initial \in src.states BY <2>1, FieldsChecked DEF FieldsOK, FieldFacts
  <2>3. TypeOK' BY <1>1, <2>2 DEF IInv, TypeOK, CheckFields
  <2>4. ForwardInv'
    BY <1>1, <2>1, ReachableClosed DEF IInv, TypedInv, ForwardInv, CheckFields
  <2>5. BackwardInv' /\ DoneInv' BY <1>1 DEF BackwardInv, DoneInv
  <2> QED BY <1>1, <2>3, <2>4, <2>5 DEF IInv, TypedInv
<1>2. CASE diagnostics' # {} /\ phase' = "done" /\ pending' = pending
  <2>1. TypeOK' BY <1>2 DEF IInv, TypeOK, CheckFields
  <2>2. ForwardInv' /\ BackwardInv' BY <1>2 DEF ForwardInv, BackwardInv
  <2>3. DoneInv' BY <1>2 DEF DoneInv, GraphVerdictExact
  <2> QED BY <1>2, <2>1, <2>2, <2>3 DEF IInv, TypedInv
<1> QED BY <1>1, <1>2 DEF CheckFields

\* Visiting a state forward adds only reachable states, and queues the rest.
LEMMA VisitForwardStep ==
    ASSUME IInv, NEW s \in Names, VisitForward(s)
    PROVE  IInv'
<1>0. /\ src' = src /\ phase = "forward" /\ phase' = "forward" /\ s \in pending
      /\ diagnostics' = diagnostics
      /\ reachable' = reachable \cup {s}
      /\ pending' = (pending \ {s}) \cup (IF s \in reachable THEN {} ELSE Successors(s))
  BY DEF VisitForward
<1> USE <1>0, DocumentFixed
<1>1. FieldsOK /\ s \in Reachable BY DEF IInv, ForwardInv
<1>2. Successors(s) \subseteq Reachable BY <1>1, ReachableClosed
<1>3. Reachable \subseteq src.states BY DEF Reachable
<1>4. TypeOK' BY <1>2, <1>3 DEF IInv, TypeOK, VisitForward
<1>5. ForwardInv'
  <2>1. reachable' \cup pending' \subseteq Reachable BY <1>1, <1>2 DEF IInv, ForwardInv
  <2>2. src.initial \in reachable' \cup pending' BY DEF IInv, ForwardInv
  <2>3. \A q \in reachable' : Successors(q) \subseteq reachable' \cup pending'
    BY DEF IInv, ForwardInv
  <2> QED BY <1>1, <2>1, <2>2, <2>3 DEF ForwardInv, IInv
<1>6. BackwardInv' /\ DoneInv' BY DEF BackwardInv, DoneInv
<1> QED BY <1>4, <1>5, <1>6 DEF IInv, TypedInv

\* With an empty queue the visited states are closed, hence all of Reachable.
LEMMA EndForwardStep ==
    ASSUME IInv, EndForward
    PROVE  IInv'
<1>0. /\ src' = src /\ phase = "forward" /\ pending = {}
      /\ reachable' = reachable /\ pending' = pending
  BY DEF EndForward
<1> USE <1>0, DocumentFixed
<1>1. FieldsOK /\ diagnostics = {} BY DEF IInv, ForwardInv
<1>2. src.terminal \subseteq src.states BY DEF IInv, TypeOK, DocumentOK
<1>3. reachable = Reachable
  <2>1. reachable \subseteq Reachable BY DEF IInv, ForwardInv
  <2>2. reachable \in SUBSET src.states BY <2>1 DEF Reachable
  <2>3. src.initial \in reachable /\ \A q \in reachable : Successors(q) \subseteq reachable
    BY DEF IInv, ForwardInv
  <2> QED BY <2>1, <2>2, <2>3, ReachableLeast
<1>4. CASE src.terminal = {}
  <2>1. /\ phase' = "done" /\ canReach' = canReach /\ work' = work
        /\ diagnostics' = UnreachableFound \cup {<<"terminal_missing", "$">>}
    BY <1>1, <1>3, <1>4 DEF EndForward, UnreachableFound
  <2>2. TypeOK' BY <2>1 DEF IInv, TypeOK
  <2>3. GraphVerdictExact' BY <1>4, <2>1 DEF GraphVerdictExact, UnreachableFound
  <2> QED BY <1>1, <2>1, <2>2, <2>3 DEF IInv, TypedInv, ForwardInv, BackwardInv, DoneInv
<1>5. CASE src.terminal # {}
  <2>1. /\ phase' = "backward" /\ canReach' = src.terminal /\ work' = src.terminal
        /\ diagnostics' = UnreachableFound
    BY <1>1, <1>3, <1>5 DEF EndForward, UnreachableFound
  <2>2. TypeOK' BY <1>2, <2>1 DEF IInv, TypeOK
  <2>3. BackwardInv' BY <1>1, <1>2, <1>3, <1>5, <2>1, CanCompleteClosed DEF BackwardInv
  <2> QED BY <2>1, <2>2, <2>3 DEF IInv, TypedInv, ForwardInv, DoneInv
<1> QED BY <1>4, <1>5

\* Visiting a state backward adds only states that can complete.
LEMMA VisitBackwardStep ==
    ASSUME IInv, NEW s \in Names, VisitBackward(s)
    PROVE  IInv'
<1>0. /\ src' = src /\ phase = "backward" /\ phase' = "backward" /\ s \in work
      /\ diagnostics' = diagnostics /\ reachable' = reachable
      /\ canReach' = canReach \cup Predecessors(s)
      /\ work' = (work \ {s}) \cup (Predecessors(s) \ canReach)
  BY DEF VisitBackward
<1> USE <1>0, DocumentFixed
<1>1. src.terminal \subseteq src.states BY DEF IInv, TypeOK, DocumentOK
<1>2. s \in CanComplete BY DEF IInv, BackwardInv
<1>3. Predecessors(s) \subseteq CanComplete BY <1>1, <1>2, CanCompleteClosed
<1>4. CanComplete \subseteq src.states BY DEF CanComplete
<1>5. TypeOK' BY <1>3, <1>4 DEF IInv, TypeOK, VisitBackward
<1>6. BackwardInv'
  <2>1. \A q \in canReach' \ work' : Predecessors(q) \subseteq canReach'
    BY DEF IInv, BackwardInv
  <2> QED BY <1>3, <2>1 DEF IInv, BackwardInv
<1> QED BY <1>5, <1>6 DEF IInv, TypedInv, ForwardInv, DoneInv

\* With an empty queue the marked states are closed, hence all of CanComplete.
LEMMA EndBackwardStep ==
    ASSUME IInv, EndBackward
    PROVE  IInv'
<1>0. /\ src' = src /\ phase = "backward" /\ phase' = "done" /\ work = {}
      /\ diagnostics' = diagnostics
            \cup {<<"terminal_unreachable", s>> : s \in reachable \ canReach}
  BY DEF EndBackward
<1> USE <1>0, DocumentFixed
<1>1. canReach = CanComplete
  <2>1. canReach \subseteq CanComplete BY DEF IInv, BackwardInv
  <2>2. canReach \in SUBSET src.states BY <2>1 DEF CanComplete
  <2>3. src.terminal \subseteq canReach /\ \A q \in canReach : Predecessors(q) \subseteq canReach
    BY DEF IInv, BackwardInv
  <2> QED BY <2>1, <2>2, <2>3, CanCompleteLeast
<1>2. FieldsOK /\ src.terminal # {} /\ reachable = Reachable
  BY DEF IInv, BackwardInv
<1>3. diagnostics' = UnreachableFound
            \cup {<<"terminal_unreachable", s>> : s \in Reachable \ CanComplete}
  BY <1>1, <1>2 DEF IInv, BackwardInv
<1>4. GraphVerdictExact' BY <1>2, <1>3 DEF GraphVerdictExact, UnreachableFound
<1>5. TypeOK' BY DEF IInv, TypeOK, EndBackward
<1> QED BY <1>2, <1>4, <1>5 DEF IInv, TypedInv, ForwardInv, BackwardInv, DoneInv

\* The invariant of the two searches holds throughout a compilation.
THEOREM SearchInvariant == Spec => []IInv
<1>1. IInv /\ [Next]_vars => IInv'
  <2> SUFFICES ASSUME IInv, [Next]_vars PROVE IInv'
    OBVIOUS
  <2>1. CASE CheckFields BY <2>1, CheckFieldsStep
  <2>2. CASE \E s \in Names : VisitForward(s) \/ VisitBackward(s)
    BY <2>2, VisitForwardStep, VisitBackwardStep
  <2>3. CASE EndForward BY <2>3, EndForwardStep
  <2>4. CASE EndBackward BY <2>4, EndBackwardStep
  <2>5. CASE UNCHANGED vars
    <3>1. /\ src' = src /\ phase' = phase /\ diagnostics' = diagnostics
          /\ reachable' = reachable /\ pending' = pending
          /\ canReach' = canReach /\ work' = work
      BY <2>5 DEF vars
    <3> QED
      BY <3>1, DocumentFixed
      DEF IInv, TypeOK, TypedInv, ForwardInv, BackwardInv, DoneInv, GraphVerdictExact, FieldsOK
  <2> QED BY <2>1, <2>2, <2>3, <2>4, <2>5 DEF Next
<1> QED BY InitIInv, <1>1, PTL DEF Spec

\* Both searches of validate_graph stay inside the declared states of the document,
\* and the backward worklist inside what the search has marked.
THEOREM SearchStaysInside == Spec => []TypeOK
<1>1. IInv => TypeOK BY DEF IInv
<1> QED BY <1>1, SearchInvariant, PTL

\* validate_graph reports exactly the states its documentation names, for every
\* document of every size and every order of its worklists.
THEOREM GraphVerdictIsExact == Spec => []GraphVerdictExact
<1>1. IInv => GraphVerdictExact BY DEF IInv, DoneInv, GraphVerdictExact
<1> QED BY <1>1, SearchInvariant, PTL

\* What compile_flow_source returns satisfies everything the coordinator assumes
\* of a definition, and every state of it can reach a declared terminal state.
THEOREM AcceptedRunnable == Spec => []AcceptedIsRunnable
<1>1. ASSUME IInv, phase = "done", diagnostics = {}
      PROVE  /\ WellFormedDefinition(CompiledDefinition(src))
             /\ src.states \subseteq CanComplete
  <2>1. FieldsOK BY <1>1 DEF IInv, DoneInv
  <2>2. FieldFacts(src) BY <2>1, FieldsChecked DEF FieldsOK
  <2>3. /\ {<<"unreachable_state", s>> : s \in src.states \ Reachable} = {}
        /\ src.terminal # {}
        /\ {<<"terminal_unreachable", s>> : s \in Reachable \ CanComplete} = {}
    BY <1>1, <2>1 DEF IInv, DoneInv, GraphVerdictExact, FieldsOK
  <2>4. src.states \subseteq CanComplete BY <2>3
  <2>5. WellFormedDefinition(CompiledDefinition(src))
    <3> DEFINE d == CompiledDefinition(src)
    <3>1. /\ d.initial = src.initial /\ d.states = src.states \cup {Cancelled}
          /\ d.terminal = src.terminal \cup {Cancelled}
          /\ \A s \in src.states : Outgoing(d, s) = CompiledTransitions(src, s)
          /\ Outgoing(d, Cancelled) = {}
      BY <2>2 DEF CompiledDefinition, FieldFacts, Outgoing
    <3>2. src.terminal \subseteq src.states BY <1>1 DEF IInv, TypeOK, DocumentOK
    <3>3. ASSUME NEW s \in src.states
          PROVE  /\ \A t \in Outgoing(d, s) : t.target \in d.states
                 /\ \A t, u \in Outgoing(d, s) : t.id = u.id => t = u
                 /\ s \in d.terminal <=> Outgoing(d, s) = {}
                 /\ s \notin d.terminal =>
                      /\ CancelTransition \in Outgoing(d, s)
                      /\ \E t \in Outgoing(d, s) : ~t.synthetic
      <4>1. \A t, u \in src.trans[s] : t.id = u.id => t = u
        BY <1>1 DEF IInv, TypeOK, DocumentOK
      <4>2. \A t \in src.trans[s] : t.target \in src.states /\ t.id # CancelId
        BY <2>2, ConstantsAssumption DEF FieldFacts
      <4>3. s # Cancelled /\ (s \in src.terminal <=> src.trans[s] = {})
        BY <2>2 DEF FieldFacts
      <4> DEFINE authored(t) == [id |-> t.id, target |-> t.target, synthetic |-> FALSE]
      <4>4. Outgoing(d, s) = {authored(t) : t \in src.trans[s]}
                \cup (IF s \in src.terminal THEN {} ELSE {CancelTransition})
        BY <3>1 DEF CompiledTransitions
      <4>5. \A t \in Outgoing(d, s) : t.target \in d.states
        BY <3>1, <4>2, <4>4 DEF CancelTransition
      <4>6. \A t, u \in Outgoing(d, s) : t.id = u.id => t = u
        <5>1. ASSUME NEW x \in Outgoing(d, s)
              PROVE  \/ x = CancelTransition
                     \/ \E t \in src.trans[s] : x = authored(t)
          BY <4>4
        <5>2. ASSUME NEW t \in src.trans[s]
              PROVE  authored(t).id = t.id /\ authored(t).id # CancelId
          BY <4>2
        <5>3. CancelTransition.id = CancelId BY DEF CancelTransition
        <5>4. ASSUME NEW t \in src.trans[s], NEW u \in src.trans[s],
                     authored(t).id = authored(u).id
              PROVE  authored(t) = authored(u)
          BY <4>1, <5>2, <5>4
        <5> HIDE DEF authored
        <5> QED BY <5>1, <5>2, <5>3, <5>4
      <4>7. s \in d.terminal <=> Outgoing(d, s) = {}
        BY <3>1, <4>3, <4>4
      <4>8. s \notin d.terminal => \E t \in Outgoing(d, s) : ~t.synthetic
        <5> SUFFICES ASSUME s \notin src.terminal
                     PROVE  \E t \in Outgoing(d, s) : ~t.synthetic
          BY <3>1
        <5>1. PICK t \in src.trans[s] : TRUE BY <4>3
        <5>2. authored(t) \in Outgoing(d, s) /\ ~authored(t).synthetic BY <4>4
        <5> QED BY <5>2
      <4>9. s \notin d.terminal => CancelTransition \in Outgoing(d, s)
        BY <3>1, <4>4
      <4> QED BY <4>5, <4>6, <4>7, <4>8, <4>9
    <3> HIDE DEF d
    <3> QED BY <2>2, <3>1, <3>2, <3>3 DEF WellFormedDefinition, FieldFacts, d
  <2> QED BY <2>4, <2>5
<1>2. IInv => AcceptedIsRunnable BY <1>1 DEF AcceptedIsRunnable
<1> QED BY <1>2, SearchInvariant, PTL

==============================================================================
