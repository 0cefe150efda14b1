--------------------------- MODULE MCFlowCoordinator ---------------------------
(***************************************************************************)
(* Two compiled definitions: a review that may send the work back, and one  *)
(* whose initial state is terminal.                                         *)
(***************************************************************************)
EXTENDS FlowCoordinator

CONSTANTS work, review, done, submit, again, accept

To(id, target) == [id |-> id, target |-> target, synthetic |-> FALSE]

ReviewLoop ==
    [initial |-> work,
     states |-> {work, review, done, Cancelled},
     terminal |-> {done, Cancelled},
     out |-> (work :> {To(submit, review), CancelTransition}
              @@ review :> {To(again, work), To(accept, done), CancelTransition}
              @@ done :> {} @@ Cancelled :> {})]

OneStep ==
    [initial |-> done,
     states |-> {done, Cancelled},
     terminal |-> {done, Cancelled},
     out |-> (done :> {} @@ Cancelled :> {})]

MCDefinitions == {ReviewLoop, OneStep}
==============================================================================
