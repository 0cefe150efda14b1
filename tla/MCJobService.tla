----------------------------- MODULE MCJobService -----------------------------
(***************************************************************************)
(* Two Jobs that share a serialization key, one of them with a domain grant *)
(* and room for a retry.                                                    *)
(***************************************************************************)
EXTENDS JobService, TLC

CONSTANTS j1, j2, k

MCKey == j1 :> k @@ j2 :> k
MCLimit == j1 :> 1 @@ j2 :> 2
MCAttemptLimit == j1 :> 2 @@ j2 :> 1
==============================================================================
