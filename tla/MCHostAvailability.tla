------------------------- MODULE MCHostAvailability -------------------------
(* Instances of HostAvailability for TLC. *)
EXTENDS HostAvailability, TLC

\* Hosts are interchangeable (used by a safety run only).
Hosts == Permutations(Host)
=============================================================================
