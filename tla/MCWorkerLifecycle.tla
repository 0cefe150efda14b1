-------------------------- MODULE MCWorkerLifecycle --------------------------
(***************************************************************************)
(* Restore requests are interchangeable.                                    *)
(***************************************************************************)
EXTENDS WorkerLifecycle, TLC

RequestSymmetry == Permutations(Restores)
=============================================================================
