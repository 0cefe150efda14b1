-------------------------- MODULE MCWorkerSession --------------------------
(***************************************************************************)
(* One plain submission and two that carry the same Feature invocation.    *)
(***************************************************************************)
EXTENDS WorkerSession

CONSTANTS plain, first, again, inv

MCSubs == {plain, first, again}
MCInvs == {inv}
MCInvOf == [s \in MCSubs |-> IF s = plain THEN None ELSE inv]

\* Nobody reads a Segment again that neither the metadata nor a process names;
\* of one whose writer the metadata left behind, nobody reads a checkpoint again.
Named ==
    {pointer} \cup {proc[p].loc : p \in {q \in Procs : proc[q].phase \in Writing}}
              \cup {proc[p].next : p \in {q \in Procs : proc[q].phase \in Switching}}

Unread(segment) == IF segment = None THEN None ELSE [segment EXCEPT !.checkpoint = NoPending]

LogView ==
    LET named == Named
    IN  [k \in DOMAIN log |->
            IF k \notin named THEN EmptySegment
            ELSE IF torn /\ k # pointer THEN Unread(log[k]) ELSE log[k]]

\* The checkpoint of Segment k, and those its writer may still put there.
Checkpoints(k) ==
    {log[k].checkpoint} \cup
    UNION {{proc[q].mem}
             \cup (IF "started" \in {proc[q].phase, proc[q].resume} THEN {proc[q].extension} ELSE {})
             \cup (IF proc[q].prefix = None THEN {} ELSE {proc[q].prefix.checkpoint}) :
               q \in {w \in Procs : proc[w].phase \in Writing /\ proc[w].loc = k}}

\* A candidate that lacks a receipt which all of these keep cannot pass its
\* check any more, nor one whose Segment was replaced: what it read is no matter.
Outdated(p) ==
    \/ proc[p].loc # pointer
    \/ \E x \in (Subs \cup Notes) \ proc[p].source.checkpoint.receipts :
           \A m \in Checkpoints(pointer) : x \in m.receipts \ m.direct

ProcView(p) ==
    IF proc[p].phase \in Restoring
    THEN IF Outdated(p) THEN [proc[p] EXCEPT !.source = None] ELSE proc[p]
    ELSE IF torn THEN [proc[p] EXCEPT !.extension = NoPending, !.prefix = Unread(@)]
         ELSE proc[p]

View == <<LogView, [p \in Procs |-> ProcView(p)],
          pointer, alloc, lock, [i \in {j \in Invs : ~astray[j]} |-> effects[i]],
          IF torn THEN {} ELSE owed, stale /\ ~torn, torn, astray>>

Symmetry == Permutations({first, again})

=============================================================================
