----------------------------- MODULE UpdateMessages -----------------------------
(***************************************************************************)
(* The messages of the update agent (maintmgr): what the generated         *)
(* validators accept of a report and of the schedules and sources in its   *)
(* answer.                                                                 *)
(*                                                                         *)
(* A field of a cron expression is the set of the numbers it lists, or     *)
(* Star; the empty set is the empty text, which no pattern matches.        *)
(***************************************************************************)
EXTENDS Integers, Sequences

Star == {-1}

CronField(field, first, last) ==
    field = Star \/ (field # {} /\ field \subseteq first .. last)

\* A status has no rules of its own, but must be there.
ValidUpdateStatus(status) == TRUE
ValidRequest(request) ==
    /\ request.guid
    /\ Len(request.status) = 1
    /\ ValidUpdateStatus(request.status[1])

ValidSingleSchedule(single) == TRUE

\* A duration of zero is not looked at.
ValidRepeatedSchedule(repeated) ==
    /\ repeated.duration \in 0 .. 86400
    /\ CronField(repeated.minutes, 0, 59)
    /\ CronField(repeated.hours, 0, 23)
    /\ CronField(repeated.dayMonth, 1, 31)
    /\ CronField(repeated.month, 1, 12)
    /\ CronField(repeated.dayWeek, 0, 6)

\* The first of the repeated schedules is sent twice, once for older agents.
ValidUpdateSchedule(schedule) ==
    /\ \A k \in DOMAIN schedule.single : ValidSingleSchedule(schedule.single[k])
    /\ \A k \in DOMAIN schedule.repeated : ValidRepeatedSchedule(schedule.repeated[k])

\* Sources have no rules: PopulateOsProfileUpdateSource would only log them.
ValidUpdateSource(kernel) == TRUE
ValidOSProfileUpdateSource(os) == TRUE

ValidResponse(response) ==
    /\ ValidUpdateSource(response.kernel)
    /\ ValidUpdateSchedule(response.schedule)
    /\ ValidOSProfileUpdateSource(response.os)
=============================================================================
