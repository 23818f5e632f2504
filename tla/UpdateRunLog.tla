---------------------------- MODULE UpdateRunLog ----------------------------
(***************************************************************************)
(* What the maintenance manager promises about OS update runs: a log of    *)
(* the updates of every instance, in the order in which they began.  An    *)
(* update begins when the instance has none open, advances while it is     *)
(* open, and ends once, with the status that it ended with.  An ended      *)
(* entry never changes.                                                    *)
(***************************************************************************)
EXTENDS Naturals, Sequences

CONSTANTS
    Instances,   \* instances whose updates are logged
    Opening,     \* statuses with which an update can begin
    Progress,    \* statuses of an update that is under way
    Closing      \* statuses of an update that is over

VARIABLE log

Entry == [inst : Instances, status : Progress \cup Closing, ended : BOOLEAN]

Open(i) == {k \in DOMAIN log : log[k].inst = i /\ ~log[k].ended}

LogInit == log = <<>>

Begin(i, status) ==
    /\ Open(i) = {}
    /\ log' = Append(log, [inst |-> i, status |-> status, ended |-> FALSE])

Change(k, status, ended) ==
    /\ ~log[k].ended
    /\ log' = [log EXCEPT ![k] = [inst |-> @.inst, status |-> status, ended |-> ended]]

Advance(k, status) == Change(k, status, FALSE)

End(k, status) == Change(k, status, TRUE)

LogNext ==
    \/ \E i \in Instances, status \in Opening : Begin(i, status)
    \/ \E k \in DOMAIN log : \/ \E status \in Progress : Advance(k, status)
                             \/ \E status \in Closing : End(k, status)

LogSpec == LogInit /\ [][LogNext]_log
=============================================================================
