---------------------------- MODULE MCUpdateAdvice ----------------------------
(* Instances of UpdateAdvice for TLC.  Builds of one day, in the morning and in
   the evening. *)
EXTENDS UpdateAdvice

Build(part) == <<<<3>>, <<0>>, <<7>>, part>>

Morning == Build(<<0, 7>>)
Noon    == Build(<<1, 2>>)
Evening == Build(<<1, 7>>)

MCImages  == {Noon, Evening}
OneDay    == {Morning, Evening}

Weekly == [duration |-> 3600, minutes |-> {0}, hours |-> {3}, dayMonth |-> Star,
           month |-> Star, dayWeek |-> {0}]

Tonight(start, end) == [start |-> start, end |-> end]

MCSchedules ==
    {[single |-> <<Tonight(0, 1), Tonight(3, 0), Tonight(4, 5)>>, repeated |-> <<Weekly>>],
     [single |-> <<Tonight(9, 0)>>, repeated |-> <<[Weekly EXCEPT !.dayMonth = {0}]>>]}

Policy(kernel, kind, target) == [kernel |-> kernel, kind |-> kind, target |-> target]

MCPolicies ==
    {Policy(FALSE, "LATEST", NoOS), Policy(TRUE, "LATEST", NoOS),
     Policy(FALSE, "TARGET", 1), Policy(FALSE, "TARGET", NoOS)}
=============================================================================
