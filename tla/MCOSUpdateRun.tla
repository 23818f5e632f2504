--------------------------- MODULE MCOSUpdateRun ----------------------------
(* Instances of OSUpdateRun for TLC.                                         *)
EXTENDS OSUpdateRun

\* Handlers are interchangeable.
Handlers == Permutations(Rpc)
=============================================================================
