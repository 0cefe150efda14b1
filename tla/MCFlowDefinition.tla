--------------------------- MODULE MCFlowDefinition ---------------------------
(***************************************************************************)
(* Documents for model checking FlowDefinition: every graph over at most    *)
(* three declared states, and one-field departures from a valid document.   *)
(***************************************************************************)
EXTENDS FlowDefinition

MCIds == {"a", "b", "c"}
MCReserved == {"$cancelled", "$cancel"}
MCNames == MCIds \cup {"$cancelled", "not well formed"}
MCTransitionIds == MCIds \cup {"$cancel", "not well formed"}

\* A transition is named after its target, so ids are distinct.
MCTrans(targets) == {[id |-> t, target |-> t, text |-> "ok"] : t \in targets}

MCDocument(initial, states, terminal, edges) ==
    [versionOk |-> TRUE, nameOk |-> TRUE, initial |-> initial,
     states |-> states, terminal |-> terminal,
     text |-> [n \in MCNames |-> IF n \in terminal THEN "blank" ELSE "ok"],
     trans |-> [n \in MCNames |-> IF n \in states THEN MCTrans(edges[n]) ELSE {}]]

\* Terminal states have no edges here; the departures below give them one.
MCGraphs ==
    UNION {UNION {
        {MCDocument("a", states, terminal,
                    [n \in states |-> IF n \in terminal THEN {} ELSE edges[n]]) :
            edges \in [states \ terminal -> SUBSET states]} :
        terminal \in SUBSET states} : states \in {{"a", "b"}, {"a", "b", "c"}}}

MCValid == MCDocument("a", {"a", "b"}, {"b"}, [n \in {"a", "b"} |->
                                             IF n = "a" THEN {"b"} ELSE {}])

MCDepartures ==
    {[MCValid EXCEPT !.versionOk = FALSE], [MCValid EXCEPT !.nameOk = FALSE],
     [MCValid EXCEPT !.states = {}, !.terminal = {}],
     [MCValid EXCEPT !.states = MCNames]}
    \cup {[MCValid EXCEPT !.initial = n] : n \in MCNames}
    \cup {[MCValid EXCEPT !.text[s] = x] : s \in {"a", "b"}, x \in Text}
    \cup {[MCValid EXCEPT !.trans[s] = {[id |-> i, target |-> n, text |-> x]}] :
             s \in {"a", "b"}, i \in MCTransitionIds, n \in MCNames, x \in Text}

MCSources == MCGraphs \cup MCDepartures
==============================================================================
