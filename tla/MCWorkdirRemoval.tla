-------------------------- MODULE MCWorkdirRemoval --------------------------
(***************************************************************************)
(* The Workdir's requests and processes are interchangeable.                *)
(***************************************************************************)
EXTENDS WorkdirRemoval, TLC

Interchangeable == Permutations(Ops) \cup Permutations(Procs)
=============================================================================
