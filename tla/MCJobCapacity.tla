---------------------------- MODULE MCJobCapacity -----------------------------
(***************************************************************************)
(* Three independent Jobs on a Host with room for two, one of which does    *)
(* not tolerate company, on a store whose writes may fail.                  *)
(***************************************************************************)
EXTENDS JobService, TLC

CONSTANTS j1, j2, j3

MCKey == [j \in Jobs |-> NoKey]
MCLimit == j1 :> 1 @@ j2 :> 3 @@ j3 :> 3
MCAttemptLimit == [j \in Jobs |-> 1]
MCSymmetry == Permutations({j2, j3})
==============================================================================
