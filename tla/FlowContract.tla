----------------------------- MODULE FlowContract -----------------------------
(***************************************************************************)
(* What a Worker promises about its Flow, stated without its mechanism: one *)
(* instance at a time, pinned to the definition it started with, moving     *)
(* only along declared transitions until it is completed or cancelled.      *)
(* Two things may be taken back.  The Submit of a turn in which the model   *)
(* did nothing: "undo" holds the flow that restores.  And, once the Flow    *)
(* and its record have come apart, what a restart does not find in the      *)
(* record: "kept" holds the flows it may find, each of them an earlier one. *)
(***************************************************************************)
EXTENDS FlowTypes, Naturals

CONSTANTS Definitions, InstanceIds, None

VARIABLES
    flow,   \* None, or the current instance: its id, definition, state, status
    undo,   \* <<>>, or <<f>>: taking the open turn back restores f
    kept,   \* the flows that a restart may bring back, None among them
    loose   \* the record was changed without the flow, or the flow without it

cvars == <<flow, undo, kept, loose>>

StatusOf(d, s) ==
    IF s = Cancelled THEN "Cancelled"
    ELSE IF s \in d.terminal THEN "Completed" ELSE "Active"

CInit == flow = None /\ undo = <<>> /\ kept = {None} /\ loose = FALSE

\* A Submit starts an instance under an id no earlier one had.
Start(d, inst) ==
    /\ flow # None => flow.status # "Active"
    /\ \A f \in kept \cup {flow} : f # None => inst > f.inst
    /\ flow' = [inst |-> inst, def |-> d, cur |-> d.initial,
                status |-> StatusOf(d, d.initial)]
    /\ undo' = <<flow>>
    /\ loose' = FALSE

Open == flow' = flow /\ undo' = <<flow>> /\ loose' = loose

\* The turn can no longer be undone, or the flow was written to its record.
Keep == flow' = flow /\ undo' = <<>> /\ (loose' => loose)

Undo == undo # <<>> /\ flow' = undo[1] /\ undo' = <<>>

\* The instance follows one transition of its pinned definition.
Move(t) ==
    /\ undo = <<>> /\ undo' = undo
    /\ flow.status = "Active"
    /\ flow' = [inst |-> flow.inst, def |-> flow.def, cur |-> t.target,
                status |-> StatusOf(flow.def, t.target)]
    /\ loose' = FALSE

\* A part of the record is dropped between two turns.
Loosen == undo = <<>> /\ undo' = undo /\ flow' = flow /\ kept' \subseteq kept

Recall == loose /\ flow' \in kept /\ undo' = <<>> /\ ~loose' /\ kept' = kept

CNext ==
    /\ kept' \subseteq kept \cup {flow'}
    /\ \/ \E d \in Definitions : \E inst \in InstanceIds : Start(d, inst)
       \/ Open \/ Keep \/ Undo \/ Loosen \/ Recall
       \/ flow # None /\ \E t \in Outgoing(flow.def, flow.cur) : Move(t)

CSpec == CInit /\ [][CNext]_cvars
==============================================================================
