------------------------------ MODULE FlowTypes ------------------------------
(***************************************************************************)
(* The compiled Flow definition shared by the compiler (FlowDefinition) and *)
(* by the coordinator that runs instances of it (FlowCoordinator).          *)
(*                                                                          *)
(* A definition is a record: the initial state, the declared states plus    *)
(* the runtime's "$cancelled" state, the terminal ones among them, and the  *)
(* outgoing transitions of every state.  Instructions and condition texts   *)
(* are opaque to every decision the code takes and are left out.            *)
(***************************************************************************)
EXTENDS FiniteSets

CONSTANTS
    Cancelled,      \* CANCELLED_STATE_ID, the state only the runtime may add
    CancelId        \* CANCEL_TRANSITION_ID, the synthetic transition's id

\* The transition that compile_typed_source appends to each nonterminal state.
CancelTransition == [id |-> CancelId, target |-> Cancelled, synthetic |-> TRUE]

\* CompiledFlowDefinition::outgoing.
Outgoing(d, s) == d.out[s]

\* What begin_transition and resolve_completed_results take for granted of the
\* definition they run: the lookups of the current and of the target state
\* succeed, terminal states are exactly the ones without transitions, a verdict
\* identifies one transition, and cancelling is always one of the choices.
WellFormedDefinition(d) ==
    /\ d.initial \in d.states
    /\ d.terminal \subseteq d.states
    /\ Cancelled \in d.terminal
    /\ d.initial # Cancelled
    /\ \A s \in d.states :
        /\ \A t \in Outgoing(d, s) : t.target \in d.states
        /\ \A t, u \in Outgoing(d, s) : t.id = u.id => t = u
        /\ s \in d.terminal <=> Outgoing(d, s) = {}
        /\ s \notin d.terminal =>
            /\ CancelTransition \in Outgoing(d, s)
            /\ \E t \in Outgoing(d, s) : ~t.synthetic
==============================================================================
