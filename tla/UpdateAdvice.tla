------------------------------ MODULE UpdateAdvice ------------------------------
(***************************************************************************)
(* The maintenance manager as the adviser of a host with an immutable OS:  *)
(* which update PlatformUpdateStatus shows as available, which schedule    *)
(* and which image its answer names, and where the host gets by following  *)
(* the advice, report by report.  Runs and CVEs are in OSUpdateRun.        *)
(*                                                                         *)
(* A handler reads the instance, lists the OS resources of the profile,    *)
(* writes the instance, reads the schedules and then the policy, and for   *)
(* the policy LATEST lists the OS resources once more.  Nothing holds      *)
(* these calls together, and errors of the first half are logged only.     *)
(*                                                                         *)
(* Inventory lists resources in no particular order.  An OS resource is    *)
(* its place in the order of creation, NoOS is none.                       *)
(***************************************************************************)
EXTENDS Integers, FiniteSets, SequencesExt, ImageVersions, UpdateMessages

CONSTANTS
    Images,      \* versions of the images of the profile, each created once
    Schedules,   \* single and repeated schedules that a host may have
    Policies,    \* OS update policies that an operator may choose
    MaxInt,      \* the greatest number of seconds that fits an int64
    Times,       \* times that a handler may read from the clock
    MaxFaults    \* bound of the failing calls and installations

NoOS == 0

ASSUME UpdateAdviceAssumption ==
    /\ Images # {} /\ Images \subseteq Seq(Part)
    /\ \A s \in Schedules : s.single \in Seq([start : Nat, end : Nat])
    /\ Policies \subseteq
          [kernel : BOOLEAN, kind : {"NONE", "TARGET", "LATEST"}, target : Nat]
    /\ Times \cup {MaxInt, MaxFaults} \subseteq Nat

VARIABLES
    stock,       \* OS resources of the profile
    instance,    \* instance of the host
    schedule,    \* schedules of the host
    policy,      \* OS update policy of the instance
    agent,       \* the host and its update agent
    rpc,         \* the handler
    faults

world == <<stock, schedule, policy>>
vars  == <<world, instance, agent, rpc, faults>>

Idle == [pc |-> "idle"]

NoAdvice == [kernel |-> FALSE, os |-> NoOS]

-----------------------------------------------------------------------------
(* The latest OS *)

Orders == {o \in [DOMAIN stock -> DOMAIN stock] : IsInjective(o)}

\* Defect: the list is taken to be sorted.
LastListed(order) == order[Len(order)]

\* GetLatestImmutableOSByProfile, for one order of the list.
GetLatest(order) ==
    LET latest[k \in 0 .. Len(order)] ==
            IF k = 0 THEN NoOS
            ELSE IF \/ latest[k - 1] = NoOS
                    \/ CompareImageVersions(stock[order[k]], stock[latest[k - 1]])
                 THEN order[k] ELSE latest[k - 1]
    IN  latest[Len(order)]

Latest == {GetLatest(order) : order \in Orders}

-----------------------------------------------------------------------------
(* Schedules *)

Distance(s, t) == IF s < t THEN t - s ELSE s - t

\* Defect: a schedule that is over counts like one without end.
StillOpen(s, t) == TRUE

\* The current time is before the end window, or no end is set.
IsOpen(s, t) == s.end = 0 \/ t < s.end

\* GetClosestSingleSchedule at time t, as a list of at most one: a time that
\* overflows ends the search with what was found.
GetClosestSingleSchedule(singles, t) ==
    LET Overflows(k) == singles[k].start > MaxInt \/ singles[k].end > MaxInt
        Seen == {k \in DOMAIN singles : \A j \in 1 .. k : ~Overflows(j)}
        Open == {k \in Seen : IsOpen(singles[k], t)}
        Closer(k, j) == Distance(singles[k].start, t) < Distance(singles[j].start, t)
        Closest == {k \in Open : \A j \in Open : ~Closer(j, k) /\ (j < k => Closer(k, j))}
    IN  IF Open = {} THEN <<>> ELSE <<singles[CHOOSE k \in Closest : TRUE]>>

-----------------------------------------------------------------------------
(* The handler: the instance *)

Fault == faults < MaxFaults /\ faults' = faults + 1

Continue(next) == rpc' = next
Return == rpc' = Idle

\* A report is read with the instance.
Receive ==
    /\ rpc.pc = "idle"
    /\ ValidRequest([guid |-> TRUE, status |-> <<agent.type>>])
    /\ Continue([pc |-> "plan", type |-> agent.type, os |-> agent.os,
                 read |-> [type |-> instance.type, os |-> instance.os]])
    /\ UNCHANGED <<world, instance, agent, faults>>

\* Defect: an installation is expected to have been seen to start.
SeenStarted == rpc.type = "UPDATED" /\ rpc.read.type = "STARTED"

\* GetNewOSResourceIDIfNeeded: the host reports an update of its OS.
Updated == rpc.type = "UPDATED" /\ rpc.read.type # "UPDATED"

\* Defect: what is shown as available is left alone when it does not change.
KeepOffer(os) == IF os = rpc.read.os THEN instance.available ELSE os

\* evalOsUpdateAvailable: the latest OS that is not the one of the instance as
\* it was read.  That it is newer is found out for a log message only.
\* Nothing is planned as the empty text, and written like any other.
Offer(os) == IF os = rpc.read.os THEN NoOS ELSE os

\* buildInstanceUpdatePlan, with the write that may follow.  An image that is
\* installed already is refused, with everything else that was reported.
PlanUpdate ==
    /\ rpc.pc = "plan"
    /\ \E os \in Latest :
          IF \/ Updated /\ rpc.os = rpc.read.os
             \/ rpc.type = rpc.read.type /\ Offer(os) = NoOS
          THEN Continue([pc |-> "schedule"])
          ELSE Continue([pc |-> "write", type |-> rpc.type, available |-> Offer(os),
                         os |-> IF Updated THEN rpc.os ELSE NoOS])
    /\ UNCHANGED <<world, instance, agent, faults>>

PlanFails ==
    /\ rpc.pc = "plan" /\ Fault
    /\ Continue([pc |-> "schedule"])
    /\ UNCHANGED <<world, instance, agent>>

\* What is available is always in the mask, the OS only if it is new.
UpdateInstance ==
    /\ rpc.pc = "write"
    /\ instance' = [type |-> rpc.type, available |-> rpc.available,
                    os |-> IF rpc.os = NoOS THEN instance.os ELSE rpc.os]
    /\ Continue([pc |-> "schedule"])
    /\ UNCHANGED <<world, agent, faults>>

UpdateFails ==
    /\ rpc.pc = "write" /\ Fault
    /\ Continue([pc |-> "schedule"])
    /\ UNCHANGED <<world, instance, agent>>

-----------------------------------------------------------------------------
(* The handler: the answer *)

\* The schedules come from a cache: an error with the repeated ones is taken
\* for none, one with the single ones ends the call.  PopulateUpdateSchedule
\* refuses all of them when one is invalid.
ReadSchedules ==
    /\ rpc.pc = "schedule"
    /\ \E now \in Times :
          LET single == GetClosestSingleSchedule(schedule.single, now)
              answer == [single |-> single, repeated |-> schedule.repeated]
              policyWith(s) == [pc |-> "policy", now |-> now, schedule |-> s]
          IN  \/ /\ ValidUpdateSchedule(answer)
                 /\ Continue(policyWith(answer))
                 /\ UNCHANGED faults
              \/ /\ ~ValidUpdateSchedule(answer)
                 /\ Return
                 /\ UNCHANGED faults
              \/ Fault /\ rpc' \in {Idle, policyWith([answer EXCEPT !.repeated = <<>>])}
    /\ UNCHANGED <<world, instance, agent>>

\* GetOSUpdatePolicyByInstanceID
ReadPolicy ==
    /\ rpc.pc = "policy"
    /\ \/ /\ Continue([pc |-> "advise", schedule |-> rpc.schedule, policy |-> policy])
          /\ UNCHANGED faults
       \/ Return /\ Fault
    /\ UNCHANGED <<world, instance, agent>>

\* Defect: the OS that Inventory shows as available is taken for the latest.
ShownOS(p) ==
    {IF p.kind = "LATEST" THEN instance.available ELSE p.target} \ {NoOS}

\* getUpdateOS: a target that is missing ends the call.
UpdateOS(p) ==
    CASE p.kind = "TARGET" -> {p.target} \ {NoOS}
      [] p.kind = "LATEST" -> Latest
      [] OTHER             -> {}

\* Defect: the OS is looked up besides a kernel command.
FetchAlways(p) == {[kernel |-> p.kernel, os |-> os] : os \in UpdateOS(p)}

\* populateImmutableUpdateDetails: a kernel command leaves the OS alone.
Details(p) ==
    {[kernel |-> p.kernel, os |-> os] : os \in IF p.kernel THEN {NoOS} ELSE UpdateOS(p)}

\* getOSUpdatePolicyInfo, unless the instance has no policy.
Answers(p) == IF p.kind = "NONE" THEN {NoAdvice} ELSE Details(p)

Advise ==
    /\ rpc.pc = "advise"
    /\ \/ \E answer \in Answers(rpc.policy) :
             /\ ValidResponse([kernel |-> answer.kernel, schedule |-> rpc.schedule,
                               os |-> answer.os])
             /\ agent' = [agent EXCEPT !.advice = answer]
       \/ Answers(rpc.policy) = {} /\ UNCHANGED agent
    /\ Return
    /\ UNCHANGED <<world, instance, faults>>

AdviseFails ==
    /\ rpc.pc = "advise" /\ Fault
    /\ Return
    /\ UNCHANGED <<world, instance, agent>>

Handle ==
    \/ Receive
    \/ PlanUpdate
    \/ UpdateInstance
    \/ ReadSchedules
    \/ ReadPolicy
    \/ Advise

Failures == PlanFails \/ UpdateFails \/ AdviseFails

-----------------------------------------------------------------------------
(* The host *)

\* The agent sets out to do what it was told, unless it has done so.
Start ==
    /\ agent.type # "STARTED"
    /\ \/ agent.advice.kernel
       \/ agent.advice.os \notin {NoOS, agent.os}
    /\ agent' = [agent EXCEPT !.type = "STARTED"]
    /\ UNCHANGED <<world, instance, rpc, faults>>

\* It does what the last answer says, and is told the same only once.
Install ==
    /\ agent.type = "STARTED"
    /\ agent' = [type |-> "UPDATED", advice |-> NoAdvice,
                 os |-> IF agent.advice.os = NoOS THEN agent.os ELSE agent.advice.os]
    /\ UNCHANGED <<world, instance, rpc, faults>>

InstallFails ==
    /\ agent.type = "STARTED" /\ Fault
    /\ agent' = [agent EXCEPT !.type = "FAILED", !.advice = NoAdvice]
    /\ UNCHANGED <<world, instance, rpc>>

\* "When the node is not performing any update related actions."
Rest ==
    /\ agent.type \in {"UPDATED", "FAILED"}
    /\ agent' = [agent EXCEPT !.type = "UP_TO_DATE"]
    /\ UNCHANGED <<world, instance, rpc, faults>>

-----------------------------------------------------------------------------
(* The rest of the system *)

\* The OS resource manager creates a resource.
Publish(image) ==
    /\ image \notin ToSet(stock)
    /\ stock' = Append(stock, image)
    /\ UNCHANGED <<instance, schedule, policy, agent, rpc, faults>>

\* An operator changes the schedules or the policy.
Reschedule(s) ==
    /\ schedule' = s
    /\ UNCHANGED <<stock, instance, policy, agent, rpc, faults>>

Decide(p) ==
    /\ p.target \in DOMAIN stock \cup {NoOS}
    /\ policy' = p
    /\ UNCHANGED <<stock, instance, schedule, agent, rpc, faults>>

Init ==
    /\ stock \in {<<image>> : image \in Images}
    /\ instance = [type |-> "UP_TO_DATE", os |-> 1, available |-> NoOS]
    /\ schedule \in Schedules
    /\ policy \in {p \in Policies : p.target \in {NoOS, 1}}
    /\ agent = [type |-> "UP_TO_DATE", os |-> 1, advice |-> NoAdvice]
    /\ rpc = Idle
    /\ faults = 0

Host == Start \/ Install \/ InstallFails \/ Rest

World ==
    \/ \E image \in Images : Publish(image)
    \/ \E s \in Schedules : Reschedule(s)
    \/ \E p \in Policies : Decide(p)

Next == Handle \/ Failures \/ Host \/ World

Spec == Init /\ [][Next]_vars

\* A handler runs; the agent reports again and again, and sets out to follow
\* the advice.
FairSpec == Spec /\ WF_vars(Handle) /\ WF_vars(Start) /\ WF_vars(Install)

-----------------------------------------------------------------------------
(* Properties *)

StatusTypes == {"UP_TO_DATE", "STARTED", "UPDATED", "FAILED"}

\* Type correctness: resources that exist, a plan that writes them, advice
\* that names either a kernel command or an OS.
TypeOK ==
    /\ stock \in Seq(Images) \ {<<>>}
    /\ instance \in [type : StatusTypes, os : DOMAIN stock,
                     available : DOMAIN stock \cup {NoOS}]
    /\ agent \in [type : StatusTypes, os : DOMAIN stock,
                  advice : [kernel : {FALSE}, os : DOMAIN stock \cup {NoOS}]
                           \cup [kernel : {TRUE}, os : {NoOS}]]
    /\ rpc.pc \in {"idle", "plan", "write", "schedule", "policy", "advise"}
    /\ rpc.pc = "write" => {rpc.os, rpc.available} \subseteq DOMAIN stock \cup {NoOS}
    /\ rpc.pc \in {"policy", "advise"} => Len(rpc.schedule.single) =< 1

\* A step that reads the schedules answers the closest of them.
ClosestAnswered ==
    rpc.pc = "schedule" /\ rpc'.pc = "policy" =>
        LET answered == rpc'.schedule.single
            Away(s) == Distance(s.start, rpc'.now)
            inTime == {s \in ToSet(schedule.single) : s.end = 0 \/ rpc'.now < s.end}
        IN  /\ ToSet(answered) \subseteq inTime
            /\ (\A s \in ToSet(schedule.single) : s.start =< MaxInt /\ s.end =< MaxInt) =>
                  /\ answered = <<>> => inTime = {}
                  /\ \A k \in DOMAIN answered, s \in inTime : Away(answered[k]) =< Away(s)

\* "The closest single schedule from time.Now": what is answered is not over,
\* nothing that is not over starts closer to now, and nothing is left out.
ClosestIsAnswered == [][ClosestAnswered]_vars

\* The handler names an OS to a host with the policy LATEST.
AdvisesLatest ==
    /\ Advise
    /\ rpc.policy.kind = "LATEST"
    /\ agent'.advice.os # NoOS

\* What is advised does not precede what the host runs.
NoWayBack ==
    AdvisesLatest /\ Comparable(stock[agent.os]) /\ Comparable(stock[agent'.advice.os])
        => ~Precedes(stock[agent'.advice.os], stock[agent.os])

\* The advice of the policy LATEST never leads back: neither an order of the
\* list nor an image that was published in between makes a host that always
\* follows it install an image that precedes the one it runs.
LatestNeverLeadsBack == [][NoWayBack]_vars

\* The same for versions whose numbers are compared as numbers: "returns true
\* if version1 is greater than version2", and versions that are "identical
\* except for leading zeros" are "treated as equal".
LatestNeverLeadsBackInNumbers ==
    [][AdvisesLatest
       => ~SmallerInNumbers(stock[agent'.advice.os], stock[agent.os])]_vars

AllComparable == \A k \in DOMAIN stock : Comparable(stock[k])

IsLatest(os) == \A k \in DOMAIN stock : ~Precedes(stock[os], stock[k])

\* The operator leaves the host alone, with the policy LATEST and schedules
\* that can be answered.
Steady ==
    /\ policy.kind = "LATEST" /\ ~policy.kernel
    /\ UNCHANGED <<policy, schedule, stock>>
    /\ ValidUpdateSchedule(schedule)
    /\ AllComparable

\* Following the policy LATEST, the host comes to run the latest image, and
\* stays with it, whatever was advised, lost and published before.
AdviceSettles == <>[][Steady]_vars => <>[](IsLatest(agent.os))

\* An image that the agent reports as installed, again and again, comes to be
\* shown, whatever fails, if the installation before it is not shown as done any
\* more.  (If it is, because nothing of the agent's work in between reached
\* Inventory, nothing changes: statuses are compared, images are not.)
InstalledIsShown ==
    (rpc.pc = "idle" /\ agent.type = "UPDATED" /\ instance.type # "UPDATED")
        ~> (agent.type # "UPDATED" \/ instance.os = agent.os)

\* When the agent has come to rest and no image is published any more, the
\* update that is shown as available is the latest image, or none if the
\* instance has it: an offer that was taken or overtaken vanishes, although
\* every write of the instance overwrites it with what an earlier read gave.
OfferIsCurrent ==
    <>[](agent.type = "UP_TO_DATE" /\ AllComparable) =>
        <>[](IF IsLatest(instance.os) THEN instance.available = NoOS
             ELSE instance.available # NoOS /\ IsLatest(instance.available))
=============================================================================
