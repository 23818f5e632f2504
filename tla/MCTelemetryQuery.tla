-------------------------- MODULE MCTelemetryQuery --------------------------
(* Instance of TelemetryQuery for TLC: a site with a host's instance, a log
   group that may be emptied, and two profiles with different levels. *)
EXTENDS TelemetryQuery

CONSTANTS g1, r1, r2

MCPath    == <<r1, r2>>
MCKind    == [g \in Groups |-> <<"LOGS", "HOST">>]
MCInputs  == [g \in Groups |-> 0 :> {"syslog"} @@ 1 :> {}]
MCSetting == 1 :> 3 @@ 2 :> 5
=============================================================================
