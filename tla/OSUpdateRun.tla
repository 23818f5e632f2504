---------------------------- MODULE OSUpdateRun -----------------------------
(***************************************************************************)
(* The maintenance manager (maintenance/pkg/maintmgr): what one report of  *)
(* the update agent of a host, PlatformUpdateStatus, does to Inventory.    *)
(*                                                                         *)
(* A handler reads the instance of the host, compares the report with it,  *)
(* plans the new instance fields, writes them, and only when that write    *)
(* succeeded looks for the open OS update run of the instance, which it    *)
(* creates or updates.  Every call to Inventory is one step; handlers run  *)
(* concurrently, and an instance and its run are never written together.   *)
(*                                                                         *)
(* A stored status text is the report type whose text it is, and the log   *)
(* sizes appended to it: GetUpdateStatusDetailIfNeeded appends the number  *)
(* of packages to the package-level UpdateStatusDone, through a pointer.   *)
(* Appended sizes are delimited, so strings.Contains of two such texts is  *)
(* "same type, and a prefix of the sizes".                                 *)
(*                                                                         *)
(* Reports of untrusted or not provisioned hosts are refused before any    *)
(* write; the instances of the model are the others.                       *)
(***************************************************************************)
EXTENDS Integers, FiniteSets, SequencesExt

CONSTANTS
    Instances,     \* instances of trusted, provisioned hosts
    Immutable,     \* those with an immutable OS
    Rpc,           \* handlers of PlatformUpdateStatus
    Types,         \* report types that the agents send
    LogSizes,      \* sizes of update_log in valid status details
    Lists,         \* package lists that agents of mutable hosts offer, 0: none
    MaxOS,         \* number of versions of the immutable OS profile
    SerialAgents,  \* an agent waits for the end of its previous report
    Failing,       \* Inventory calls that may fail
    Restarts,      \* the manager may be restarted
    MaxRuns,       \* bound of the number of update runs
    MaxDone        \* bound of the sizes appended to UpdateStatusDone

StatusTypes == {"UNSPECIFIED", "UP_TO_DATE", "STARTED", "UPDATED", "FAILED",
                "DOWNLOADING", "DOWNLOADED"}

\* The store to UpdateStatusDone is not synchronised.  Status details are
\* admitted with one handler only, where no read of it can be torn.
ASSUME OSUpdateRunAssumption ==
    /\ Immutable \subseteq Instances
    /\ Types \subseteq StatusTypes
    /\ LogSizes \subseteq Nat
    /\ LogSizes = {} \/ \A r, s \in Rpc : r = s
    /\ Lists \subseteq Nat /\ 0 \in Lists
    /\ MaxOS \in Nat \ {0}
    /\ SerialAgents \in BOOLEAN
    /\ Failing \subseteq {"os", "instance", "list", "create", "update"}
    /\ Restarts \in BOOLEAN
    /\ MaxRuns \in Nat
    /\ MaxDone \in Nat

VARIABLES
    published,   \* versions 1..published of the immutable OS are in Inventory
    instance,    \* instance resources
    runs,        \* OS update run resources, in the order of their start time
    rpc,         \* the handlers
    done         \* what was appended to the text of UpdateStatusDone

vars == <<published, instance, runs, rpc, done>>

-----------------------------------------------------------------------------
(* Data *)

Unset    == "NONE"   \* the empty status of a new instance, UNSPECIFIED
NoDetail == -1       \* no status detail, or one that does not validate
Idle     == [pc |-> "idle"]

Handled == {"DOWNLOADING", "DOWNLOADED", "STARTED", "UPDATED", "FAILED"}
Opening == {"DOWNLOADING", "STARTED"}
Closing == {"UPDATED", "FAILED"}

Unspecified  == {Unset, "UNSPECIFIED"}
IdleStatuses == {"UPDATED", "UP_TO_DATE", "DOWNLOADING", "DOWNLOADED"}

\* The report fields that the handler looks at.  "image" is the version that
\* the host runs, 0 when it or the right profile name is missing; only a
\* mutable host's offer of packages and detail count.
Reports(i) ==
    {[type |-> type, detail |-> d, image |-> v, available |-> l] :
        type \in Types,
        d \in IF i \in Immutable THEN {NoDetail} ELSE LogSizes \cup {NoDetail},
        v \in IF i \in Immutable THEN 0 .. MaxOS ELSE {0},
        l \in IF i \in Immutable THEN {0} ELSE Lists}

\* "available" is the version of an immutable OS or a list of packages;
\* "cves" is the version whose CVEs were copied, 0 when none were.
InstanceResource ==
    [type : StatusTypes \cup {Unset}, sizes : Seq(Nat), available : Nat,
     os : 1 .. MaxOS, cves : 0 .. MaxOS]

RunResource ==
    [inst : Instances, type : Handled, sizes : Seq(Nat), ended : BOOLEAN]

\* The sizes in the text written for a report of this type, now.
Sizes(type) == IF type = "UPDATED" THEN done ELSE <<>>

\* compareUpdateStatuses: the stored status contains the one of the report.
SameStatus(stored, type) ==
    stored.type = type /\ IsPrefix(Sizes(type), stored.sizes)

\* Defect: the filter on the end time is dropped.
AllRuns(i) == {k \in DOMAIN runs : runs[k].inst = i}

OpenRuns(i) == {k \in DOMAIN runs : runs[k].inst = i /\ ~runs[k].ended}

\* The uncompleted run that started last.
Latest(i) == CHOOSE k \in OpenRuns(i) : \A m \in OpenRuns(i) : m =< k

InFlight(i) == {r \in Rpc : rpc[r].pc # "idle" /\ rpc[r].inst = i}

Return(r) == rpc' = [rpc EXCEPT ![r] = Idle]

Continue(r, next) == rpc' = [rpc EXCEPT ![r] = next]

-----------------------------------------------------------------------------
(* The instance *)

\* Bounds: a report that may create a run needs room for it, one that may
\* append a size needs room for that.
Admitted(report) ==
    /\ report.type \in Opening =>
          Len(runs) + Cardinality({r \in Rpc : rpc[r].pc # "idle"}) < MaxRuns
    /\ report.detail # NoDetail => Len(done) < MaxDone

\* PlatformUpdateStatus reads the host with its instance.
Receive(r, i) ==
    /\ rpc[r].pc = "idle"
    /\ SerialAgents => InFlight(i) = {}
    /\ \E report \in Reports(i) :
          /\ Admitted(report)
          /\ Continue(r, [pc |-> "plan", inst |-> i, report |-> report,
                          read |-> instance[i]])
    /\ UNCHANGED <<published, instance, runs, done>>

\* GetNewOSResourceIDIfNeeded looks for the OS of a host that was updated.
LooksForOS(i, report, read) ==
    /\ ~SameStatus(read, report.type)
    /\ report.type = "UPDATED"
    /\ i \in Immutable

\* It refuses a missing, an unchanged and an unknown image.
OSRefused(report, read) == report.image \in {0, read.os} \/ report.image > published

\* Defect: the CVEs of the OS that is replaced.
CVEsOfCurrentOS(i, report, read) ==
    IF LooksForOS(i, report, read) THEN read.os ELSE 0

\* GetNewExistingCVEs: those of the new OS, or of the current one when the
\* status becomes known.
NewCVEs(i, report, read) ==
    CASE LooksForOS(i, report, read) -> report.image
      [] /\ ~SameStatus(read, report.type)
         /\ ~LooksForOS(i, report, read)
         /\ read.type \in Unspecified
         /\ report.type \in IdleStatuses -> read.os
      [] OTHER -> 0

\* evalOsUpdateAvailable: another latest version, or another list of packages.
Offer(i, report) == IF i \in Immutable THEN published ELSE report.available
Offered(i, read) == IF i \in Immutable THEN read.os ELSE read.available
NewOffer(i, report, read) == Offer(i, report) # Offered(i, read)

\* buildInstanceUpdatePlan.  The status text is taken when it is written: the
\* plan holds a pointer to it.  "available" stays empty when it needs no
\* change, and is written all the same.
PlanUpdate(r) ==
    /\ rpc[r].pc = "plan"
    /\ LET i      == rpc[r].inst
           report == rpc[r].report
           read   == rpc[r].read
       IN  \/ /\ \/ LooksForOS(i, report, read) /\ OSRefused(report, read)
                 \/ SameStatus(read, report.type) /\ ~NewOffer(i, report, read)
                 \/ i \in Immutable /\ "os" \in Failing
              /\ Return(r)
           \/ /\ ~(LooksForOS(i, report, read) /\ OSRefused(report, read))
              /\ ~SameStatus(read, report.type) \/ NewOffer(i, report, read)
              /\ Continue(r,
                    [pc |-> "write", inst |-> i, report |-> report,
                     os |-> IF LooksForOS(i, report, read) THEN report.image ELSE 0,
                     cves |-> NewCVEs(i, report, read),
                     available |-> IF NewOffer(i, report, read)
                                   THEN Offer(i, report) ELSE 0])
    /\ UNCHANGED <<published, instance, runs, done>>

\* UpdateInstance: the offer always, the OS and its CVEs when the plan has them.
Planned(r) ==
    LET p == rpc[r] IN
    [type      |-> p.report.type,
     sizes     |-> Sizes(p.report.type),
     available |-> p.available,
     os        |-> IF p.os # 0 THEN p.os ELSE instance[p.inst].os,
     cves      |-> IF p.cves # 0 THEN p.cves ELSE instance[p.inst].cves]

\* Defect: a report type without target status is not ignored.
TracksRunAlways(type) == TRUE

\* handleOSUpdateRun has a target status for the report type.
TracksRun(type) == type \in Handled

\* updateInventory goes on to the run only when the write succeeded.  A call that is reported as
\* failed may have been applied.
WriteInstance(r) ==
    /\ rpc[r].pc = "write"
    /\ LET written == [instance EXCEPT ![rpc[r].inst] = Planned(r)] IN
          \/ /\ instance' = written
             /\ IF TracksRun(rpc[r].report.type)
                THEN Continue(r, [pc |-> "list", inst |-> rpc[r].inst,
                                  report |-> rpc[r].report])
                ELSE Return(r)
          \/ /\ "instance" \in Failing
             /\ instance' \in {instance, written}
             /\ Return(r)
    /\ UNCHANGED <<published, runs, done>>
-----------------------------------------------------------------------------
(* The OS update run *)

\* The text in the run is the plain one of the report type.
SameText(run, type) == run.type = type /\ run.sizes = <<>>

\* updateOSUpdateRun compares again, with the package-level status.
RunNeedsUpdate(run, type) == ~SameText(run, type) /\ ~SameStatus(run, type)

\* GetUpdateStatusDetailIfNeeded on the package-level status.
AppendsSize(i, report) ==
    i \notin Immutable /\ report.type = "UPDATED" /\ report.detail # NoDetail

\* handleOSUpdateRun and getLatestUncompletedOSUpdateRunPerIns: an error of
\* the query is taken for "none".  Without an open run only the first reports
\* of an update create one.
ListRuns(r) ==
    /\ rpc[r].pc = "list"
    /\ LET i      == rpc[r].inst
           report == rpc[r].report
       IN  \/ /\ OpenRuns(i) = {} \/ "list" \in Failing
              /\ IF report.type \in Opening
                 THEN Continue(r, [pc |-> "create", inst |-> i, type |-> report.type])
                 ELSE Return(r)
              /\ UNCHANGED done
           \/ /\ OpenRuns(i) # {}
              /\ IF RunNeedsUpdate(runs[Latest(i)], report.type)
                 THEN /\ done' = IF AppendsSize(i, report)
                                 THEN Append(done, report.detail) ELSE done
                      /\ Continue(r, [pc |-> "update", inst |-> i,
                                      type |-> report.type, run |-> Latest(i)])
                 ELSE Return(r) /\ UNCHANGED done
    /\ UNCHANGED <<published, instance, runs>>

\* createOSUpdateRun
CreateRun(r) ==
    /\ rpc[r].pc = "create"
    /\ LET created == Append(runs, [inst |-> rpc[r].inst, type |-> rpc[r].type,
                                    sizes |-> <<>>, ended |-> FALSE])
       IN runs' \in {created} \cup (IF "create" \in Failing THEN {runs} ELSE {})
    /\ Return(r)
    /\ UNCHANGED <<published, instance, done>>

\* Defect: a failed update has no end time.
EndsOnSuccess(type) == type = "UPDATED" /\ Sizes(type) = <<>>

\* UpdateOSUpdateRun: the end time is written with the exact texts
\* StatusCompleted and StatusFailed, and is never taken back.
Ends(type) == type \in Closing /\ Sizes(type) = <<>>

UpdateRun(r) ==
    /\ rpc[r].pc = "update"
    /\ LET type    == rpc[r].type
           updated == [runs EXCEPT ![rpc[r].run] =
                          [inst |-> @.inst, type |-> type, sizes |-> Sizes(type),
                           ended |-> @.ended \/ Ends(type)]]
       IN runs' \in {updated} \cup (IF "update" \in Failing THEN {runs} ELSE {})
    /\ Return(r)
    /\ UNCHANGED <<published, instance, done>>

-----------------------------------------------------------------------------
(* The rest of the system *)

\* The OS resource manager creates the resource of a newer image.
Publish ==
    /\ published < MaxOS
    /\ published' = published + 1
    /\ UNCHANGED <<instance, runs, rpc, done>>

\* The manager keeps nothing but its package variables.
Restart ==
    /\ Restarts
    /\ rpc' = [r \in Rpc |-> Idle]
    /\ done' = <<>>
    /\ UNCHANGED <<published, instance, runs>>

Init ==
    /\ published = 1
    /\ instance = [i \in Instances |-> [type |-> Unset, sizes |-> <<>>,
                                        available |-> 0, os |-> 1, cves |-> 0]]
    /\ runs = <<>>
    /\ rpc = [r \in Rpc |-> Idle]
    /\ done = <<>>

Handle(r) ==
    \/ \E i \in Instances : Receive(r, i)
    \/ PlanUpdate(r)
    \/ WriteInstance(r)
    \/ ListRuns(r)
    \/ CreateRun(r)
    \/ UpdateRun(r)

Next == (\E r \in Rpc : Handle(r)) \/ Publish \/ Restart

Spec == Init /\ [][Next]_vars

-----------------------------------------------------------------------------
(* Properties *)

\* Type correctness: the resources, and what every handler holds at its step.
TypeOK ==
    /\ published \in 1 .. MaxOS
    /\ instance \in [Instances -> InstanceResource]
    /\ runs \in Seq(RunResource)
    /\ done \in Seq(Nat)
    /\ DOMAIN rpc = Rpc
    /\ \A r \in Rpc : rpc[r].pc # "idle" =>
          /\ rpc[r].pc \in {"plan", "write", "list", "create", "update"}
          /\ rpc[r].inst \in Instances
          /\ rpc[r].pc \in {"plan", "write", "list"} =>
                rpc[r].report \in Reports(rpc[r].inst)
          /\ rpc[r].pc = "plan" => rpc[r].read \in InstanceResource
          /\ rpc[r].pc = "write" => rpc[r].os \in 0 .. published
                                    /\ rpc[r].cves \in 0 .. published
                                    /\ rpc[r].available \in Nat
          /\ rpc[r].pc = "list" => rpc[r].report.type \in Handled
          /\ rpc[r].pc = "create" => rpc[r].type \in Opening
          /\ rpc[r].pc = "update" => rpc[r].type \in Handled
                                     /\ rpc[r].run \in DOMAIN runs
                                     /\ runs[rpc[r].run].inst = rpc[r].inst

\* A run that shows "completed" or "failed" carries an end time, so that it
\* is not found again as the open run of the next update, whatever calls are
\* lost, repeated or overtaken.
FinishedRunIsEnded ==
    \A k \in DOMAIN runs : runs[k].type \in Closing => runs[k].ended

\* The CVEs shown for an instance are those of the OS it is shown to run,
\* through failed plans, lost writes and newer OS resources.
CVEsOfInstalledOS ==
    \A i \in Instances : instance[i].cves \in {0, instance[i].os}

\* The runs as the log of updates.
RunLog == [k \in DOMAIN runs |-> [inst |-> runs[k].inst, status |-> runs[k].type,
                                  ended |-> runs[k].ended]]

Log == INSTANCE UpdateRunLog WITH Progress <- Handled \ Closing, log <- RunLog

\* The manager implements the log of updates: one open run per instance,
\* ended once and left alone afterwards.
ImplementsLog == Log!LogSpec

\* The run of a completed update keeps its status: the next update opens a
\* run of its own.
CompletedRunIsFinal ==
    [][\A k \in DOMAIN runs : runs[k].type = "UPDATED" => runs'[k].type = "UPDATED"]_vars
=============================================================================
