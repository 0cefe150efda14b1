--------------------------- MODULE MCPluginService ---------------------------
(***************************************************************************)
(* Instances of PluginService.  Drivers are interchangeable: nothing names  *)
(* one of them, so the safety runs identify states up to their exchange.    *)
(***************************************************************************)
EXTENDS PluginService, TLC

DriverSymmetry == Permutations(Drivers)
==============================================================================
