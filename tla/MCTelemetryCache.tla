-------------------------- MODULE MCTelemetryCache --------------------------
(* TelemetryCache for TLC: relations and groups are interchangeable.        *)
EXTENDS TelemetryCache, TLC

Symmetry == Permutations(Relations) \cup Permutations(Groups)
=============================================================================
