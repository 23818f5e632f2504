------------------------- MODULE OSUpdateRunProofs --------------------------
(***************************************************************************)
(* Proofs about OSUpdateRun, for every set of instances, handlers, report  *)
(* types and failing calls: type correctness; no end status without end    *)
(* time when no status details are sent; CVEs of the OS that is shown; and *)
(* that the runs implement UpdateRunLog.                                   *)
(***************************************************************************)
EXTENDS OSUpdateRun, WellFoundedInduction, TLAPS

-----------------------------------------------------------------------------
(* The latest open run *)

\* A set of naturals that is not empty has a least element.
LEMMA LeastNat ==
    ASSUME NEW T, T \subseteq Nat, T # {}
    PROVE  \E x \in T : \A y \in T : x =< y
<1> DEFINE R == {p \in Nat \X Nat : p[1] < p[2]}
<1>1. IsWellFoundedOn(R, Nat)
    BY NatLessThanWellFounded, Zenon DEF OpToRel
<1> HIDE DEF R
<1>2. PICK x \in T : \A y \in T : ~(<<y, x>> \in R)
  <2>1. \E x \in T : \A y \in T : ~(<<y, x>> \in R)
    BY <1>1, WFMin, Zenon
  <2> QED BY <2>1, Zenon
<1>3. ASSUME NEW y \in T PROVE x =< y
  <2>1. x \in Nat /\ y \in Nat
    OBVIOUS
  <2>2. y < x => <<y, x>> \in R
    BY <2>1 DEF R
  <2> QED BY <1>2, <2>1, <2>2
<1> QED BY <1>2, <1>3

\* The query for the latest open run finds one of them when there are any.
LEMMA LatestIsOpen ==
    ASSUME runs \in Seq(RunResource), NEW i, OpenRuns(i) # {}
    PROVE  Latest(i) \in OpenRuns(i)
<1> DEFINE T == {Len(runs) - k : k \in OpenRuns(i)}
<1>1. OpenRuns(i) \subseteq 1 .. Len(runs) /\ Len(runs) \in Nat
    BY DEF OpenRuns
<1>2. T \subseteq Nat /\ T # {}
    BY <1>1
<1>3. PICK x \in T : \A y \in T : x =< y
    BY <1>2, LeastNat
<1>4. PICK k \in OpenRuns(i) : x = Len(runs) - k
    BY <1>3
<1>5. ASSUME NEW m \in OpenRuns(i) PROVE m =< k
  <2>1. Len(runs) - m \in T
    OBVIOUS
  <2>2. x =< Len(runs) - m
    BY <1>3, <2>1
  <2> QED BY <1>1, <1>4, <2>2
<1>6. \E n \in OpenRuns(i) : \A m \in OpenRuns(i) : m =< n
    BY <1>4, <1>5
<1> QED BY <1>6, Zenon DEF Latest

-----------------------------------------------------------------------------
(* Type correctness *)

\* The part of TypeOK about one handler.
HandlerOK(r) ==
    rpc[r].pc # "idle" =>
        /\ rpc[r].pc \in {"plan", "write", "list", "create", "update"}
        /\ rpc[r].inst \in Instances
        /\ rpc[r].pc \in {"plan", "write", "list"} =>
              rpc[r].report \in Reports(rpc[r].inst)
        /\ rpc[r].pc = "plan" => rpc[r].read \in InstanceResource
        /\ rpc[r].pc = "write" => rpc[r].os \in 0 .. published
                                  /\ rpc[r].cves \in 0 .. published
                                  /\ rpc[r].available \in Nat
        /\ rpc[r].pc = "list" => rpc[r].report.type \in Handled
        /\ rpc[r].pc = "create" => rpc[r].type \in Opening
        /\ rpc[r].pc = "update" => rpc[r].type \in Handled
                                   /\ rpc[r].run \in DOMAIN runs
                                   /\ runs[rpc[r].run].inst = rpc[r].inst

\* TypeOK without the handlers, and what a published version bounds: an
\* instance shows no version that does not exist.
ResourcesOK ==
    /\ published \in 1 .. MaxOS
    /\ instance \in [Instances -> InstanceResource]
    /\ runs \in Seq(RunResource)
    /\ done \in Seq(Nat)
    /\ DOMAIN rpc = Rpc

Reads ==
    /\ \A i \in Instances : instance[i].os =< published
    /\ \A r \in Rpc : rpc[r].pc = "plan" => rpc[r].read.os =< published

TypeInv == ResourcesOK /\ (\A r \in Rpc : HandlerOK(r)) /\ Reads

\* A report has the fields that its set of reports allows.
LEMMA ReportType ==
    ASSUME NEW i \in Instances, NEW report \in Reports(i)
    PROVE  /\ report.type \in StatusTypes
           /\ report.detail \in LogSizes \cup {NoDetail}
           /\ report.image \in 0 .. MaxOS
           /\ report.available \in Nat
    BY OSUpdateRunAssumption DEF Reports

\* Initially every handler is idle.
LEMMA TypeInit == Init => TypeInv
    BY OSUpdateRunAssumption
    DEF Init, TypeInv, ResourcesOK, HandlerOK, Reads, Idle, InstanceResource, Unset

\* A handler that did not move keeps its type when runs only grow or change
\* their status, and versions are only added.
LEMMA HandlerKept ==
    ASSUME NEW r \in Rpc, HandlerOK(r), rpc'[r] = rpc[r],
           published \in Nat, published' \in Nat, published =< published',
           DOMAIN runs \subseteq DOMAIN runs',
           \A k \in DOMAIN runs : runs'[k].inst = runs[k].inst
    PROVE  HandlerOK(r)'
    BY DEF HandlerOK

\* Receive starts a handler on an instance it has read.
LEMMA ReceiveType ==
    ASSUME TypeInv, NEW r \in Rpc, NEW i \in Instances, Receive(r, i)
    PROVE  TypeInv'
<1>1. PICK report \in Reports(i) :
          rpc' = [rpc EXCEPT ![r] = [pc |-> "plan", inst |-> i, report |-> report,
                                     read |-> instance[i]]]
    BY DEF Receive, Continue
<1>2. UNCHANGED <<published, instance, runs, done>>
    BY DEF Receive
<1>3. ResourcesOK'
    BY <1>1, <1>2 DEF TypeInv, ResourcesOK
<1>4. \A s \in Rpc : HandlerOK(s)'
  <2>1. HandlerOK(r)'
    BY <1>1, <1>2 DEF TypeInv, ResourcesOK, HandlerOK, Reports, InstanceResource
  <2>2. ASSUME NEW s \in Rpc, s # r PROVE HandlerOK(s)'
    BY <2>2, <1>1, <1>2, HandlerKept, OSUpdateRunAssumption DEF TypeInv, ResourcesOK
  <2> QED BY <2>1, <2>2
<1>5. Reads'
    BY <1>1, <1>2 DEF TypeInv, ResourcesOK, Reads, InstanceResource
<1> QED BY <1>3, <1>4, <1>5 DEF TypeInv

\* A handler that returns leaves a state that is as good as before, if the
\* resources are.
LEMMA ReturnType ==
    ASSUME TypeInv, NEW r \in Rpc, Return(r), ResourcesOK',
           published =< published', DOMAIN runs \subseteq DOMAIN runs',
           \A k \in DOMAIN runs : runs'[k].inst = runs[k].inst
    PROVE  \A s \in Rpc : HandlerOK(s)'
<1>1. HandlerOK(r)'
    BY DEF Return, Idle, HandlerOK, TypeInv, ResourcesOK
<1>2. ASSUME NEW s \in Rpc, s # r PROVE HandlerOK(s)'
  <2>1. rpc'[s] = rpc[s] /\ HandlerOK(s)
    BY <1>2 DEF Return, TypeInv, ResourcesOK
  <2>2. published \in Nat /\ published' \in Nat
    BY OSUpdateRunAssumption DEF TypeInv, ResourcesOK
  <2> QED BY <2>1, <2>2, HandlerKept
<1> QED BY <1>1, <1>2

\* PlanUpdate: the versions of the plan were published when it was made.
LEMMA PlanType ==
    ASSUME TypeInv, NEW r \in Rpc, PlanUpdate(r)
    PROVE  TypeInv'
<1> DEFINE i == rpc[r].inst
           report == rpc[r].report
           read == rpc[r].read
<1>1. rpc[r].pc = "plan" /\ UNCHANGED <<published, instance, runs, done>>
    BY DEF PlanUpdate
<1>2. /\ i \in Instances
      /\ report \in Reports(i)
      /\ read \in InstanceResource /\ read.os =< published
    BY <1>1 DEF TypeInv, HandlerOK, Reads
<1>3. report.image \in Nat /\ report.available \in Nat
    BY <1>2, ReportType, OSUpdateRunAssumption
<1>4. published \in Nat /\ read.os \in 1 .. MaxOS /\ MaxOS \in Nat
    BY <1>2, OSUpdateRunAssumption DEF TypeInv, ResourcesOK, InstanceResource
<1>5. Offer(i, report) \in Nat
    BY <1>3, <1>4 DEF Offer
<1>6. CASE Return(r)
  <2>1. ResourcesOK'
    BY <1>1, <1>6 DEF Return, TypeInv, ResourcesOK
  <2>2. \A s \in Rpc : HandlerOK(s)'
    BY <1>1, <1>4, <1>6, <2>1, ReturnType
  <2>3. Reads'
    BY <1>1, <1>6 DEF Return, TypeInv, ResourcesOK, Reads, Idle
  <2> QED BY <2>1, <2>2, <2>3 DEF TypeInv
<1>7. CASE /\ ~(LooksForOS(i, report, read) /\ OSRefused(report, read))
           /\ Continue(r,
                 [pc |-> "write", inst |-> i, report |-> report,
                  os |-> IF LooksForOS(i, report, read) THEN report.image ELSE 0,
                  cves |-> NewCVEs(i, report, read),
                  available |-> IF NewOffer(i, report, read)
                                THEN Offer(i, report) ELSE 0])
  <2>1. LooksForOS(i, report, read) => report.image \in 0 .. published
    BY <1>3, <1>4, <1>7 DEF OSRefused
  <2>2. NewCVEs(i, report, read) \in 0 .. published
    <3>1. CASE LooksForOS(i, report, read)
      BY <2>1, <3>1 DEF NewCVEs
    <3>2. CASE ~LooksForOS(i, report, read)
      BY <1>2, <1>4, <3>2 DEF NewCVEs
    <3> QED BY <3>1, <3>2
  <2>3. ResourcesOK'
    BY <1>1, <1>7 DEF Continue, TypeInv, ResourcesOK
  <2>4. HandlerOK(r)'
    BY <1>1, <1>2, <1>4, <1>5, <1>7, <2>1, <2>2 DEF Continue, TypeInv, ResourcesOK, HandlerOK
  <2>5. ASSUME NEW s \in Rpc, s # r PROVE HandlerOK(s)'
    <3>1. rpc'[s] = rpc[s] /\ HandlerOK(s)
      BY <2>5, <1>7 DEF Continue, TypeInv, ResourcesOK
    <3> QED BY <1>1, <1>4, <3>1, HandlerKept
  <2>6. Reads'
    BY <1>1, <1>7 DEF Continue, TypeInv, ResourcesOK, Reads
  <2> QED BY <2>3, <2>4, <2>5, <2>6 DEF TypeInv
<1> QED BY <1>6, <1>7 DEF PlanUpdate
\* The status text written for a report is a sequence of sizes.
LEMMA SizesType == done \in Seq(Nat) => \A type : Sizes(type) \in Seq(Nat)
    BY DEF Sizes

\* What WriteInstance writes is an instance resource of a published version.
LEMMA PlannedType ==
    ASSUME TypeInv, NEW r \in Rpc, rpc[r].pc = "write"
    PROVE  Planned(r) \in InstanceResource /\ Planned(r).os =< published
<1> DEFINE p == rpc[r]
<1>1. /\ p.inst \in Instances
      /\ p.report \in Reports(p.inst)
      /\ p.os \in 0 .. published /\ p.cves \in 0 .. published
      /\ p.available \in Nat
    BY DEF TypeInv, HandlerOK
<1>2. p.report.type \in StatusTypes
    BY <1>1, ReportType
<1>3. instance[p.inst] \in InstanceResource /\ instance[p.inst].os =< published
    BY <1>1 DEF TypeInv, ResourcesOK, Reads
<1>4. published \in 1 .. MaxOS /\ MaxOS \in Nat
    BY OSUpdateRunAssumption DEF TypeInv, ResourcesOK
<1>5. Sizes(p.report.type) \in Seq(Nat)
    BY SizesType DEF TypeInv, ResourcesOK
<1>6. /\ (IF p.os # 0 THEN p.os ELSE instance[p.inst].os) \in 1 .. published
      /\ (IF p.cves # 0 THEN p.cves ELSE instance[p.inst].cves) \in 0 .. MaxOS
    BY <1>1, <1>3, <1>4 DEF InstanceResource
<1> QED BY <1>1, <1>2, <1>4, <1>5, <1>6 DEF Planned, InstanceResource

\* WriteInstance
LEMMA WriteType ==
    ASSUME TypeInv, NEW r \in Rpc, WriteInstance(r)
    PROVE  TypeInv'
<1>1. rpc[r].pc = "write" /\ UNCHANGED <<published, runs, done>>
    BY DEF WriteInstance
<1>2. /\ rpc[r].inst \in Instances
      /\ rpc[r].report \in Reports(rpc[r].inst)
    BY <1>1 DEF TypeInv, HandlerOK
<1>3. instance' \in {instance, [instance EXCEPT ![rpc[r].inst] = Planned(r)]}
    BY DEF WriteInstance
<1>4. Planned(r) \in InstanceResource /\ Planned(r).os =< published
    BY <1>1, PlannedType
<1>5. instance' \in [Instances -> InstanceResource]
      /\ \A i \in Instances : instance'[i].os =< published
    BY <1>2, <1>3, <1>4 DEF TypeInv, ResourcesOK, Reads
<1>6. published \in Nat
    BY OSUpdateRunAssumption DEF TypeInv, ResourcesOK
<1>7. CASE Return(r)
  <2>1. ResourcesOK'
    BY <1>1, <1>5, <1>7 DEF Return, TypeInv, ResourcesOK
  <2>2. \A s \in Rpc : HandlerOK(s)'
    BY <1>1, <1>6, <1>7, <2>1, ReturnType
  <2>3. Reads'
    BY <1>1, <1>5, <1>7 DEF Return, TypeInv, ResourcesOK, Reads, Idle
  <2> QED BY <2>1, <2>2, <2>3 DEF TypeInv
<1>8. CASE /\ rpc[r].report.type \in Handled
           /\ Continue(r, [pc |-> "list", inst |-> rpc[r].inst, report |-> rpc[r].report])
  <2>1. ResourcesOK'
    BY <1>1, <1>5, <1>8 DEF Continue, TypeInv, ResourcesOK
  <2>2. HandlerOK(r)'
    BY <1>2, <1>8 DEF Continue, TypeInv, ResourcesOK, HandlerOK
  <2>3. ASSUME NEW s \in Rpc, s # r PROVE HandlerOK(s)'
    <3>1. rpc'[s] = rpc[s] /\ HandlerOK(s)
      BY <2>3, <1>8 DEF Continue, TypeInv, ResourcesOK
    <3> QED BY <1>1, <1>6, <3>1, HandlerKept
  <2>4. Reads'
    BY <1>1, <1>5, <1>8 DEF Continue, TypeInv, ResourcesOK, Reads
  <2> QED BY <2>1, <2>2, <2>3, <2>4 DEF TypeInv
<1> QED BY <1>7, <1>8 DEF WriteInstance, TracksRun

\* ListRuns: a run that is about to be updated exists and is the instance's.
LEMMA ListType ==
    ASSUME TypeInv, NEW r \in Rpc, ListRuns(r)
    PROVE  TypeInv'
<1> DEFINE i == rpc[r].inst
           report == rpc[r].report
<1>1. rpc[r].pc = "list" /\ UNCHANGED <<published, instance, runs>>
    BY DEF ListRuns
<1>2. /\ i \in Instances
      /\ report \in Reports(i)
      /\ report.type \in Handled
    BY <1>1 DEF TypeInv, HandlerOK
<1>3. published \in Nat
    BY OSUpdateRunAssumption DEF TypeInv, ResourcesOK
<1>4. done' \in Seq(Nat)
  <2>1. AppendsSize(i, report) => report.detail \in Nat
    BY <1>2, ReportType, OSUpdateRunAssumption DEF AppendsSize
  <2>2. done' = done \/ (AppendsSize(i, report) /\ done' = Append(done, report.detail))
    BY DEF ListRuns
  <2>3. done \in Seq(Nat)
    BY DEF TypeInv, ResourcesOK
  <2> HIDE DEF i, report
  <2> QED BY <2>1, <2>2, <2>3
<1>5. CASE Return(r)
  <2>1. ResourcesOK'
    BY <1>1, <1>4, <1>5 DEF Return, TypeInv, ResourcesOK
  <2>2. \A s \in Rpc : HandlerOK(s)'
    BY <1>1, <1>3, <1>5, <2>1, ReturnType
  <2>3. Reads'
    BY <1>1, <1>5 DEF Return, TypeInv, ResourcesOK, Reads, Idle
  <2> QED BY <2>1, <2>2, <2>3 DEF TypeInv
<1>6. CASE /\ report.type \in Opening
           /\ Continue(r, [pc |-> "create", inst |-> i, type |-> report.type])
  <2>1. ResourcesOK'
    BY <1>1, <1>4, <1>6 DEF Continue, TypeInv, ResourcesOK
  <2>2. HandlerOK(r)'
    BY <1>2, <1>6 DEF Continue, TypeInv, ResourcesOK, HandlerOK
  <2>3. ASSUME NEW s \in Rpc, s # r PROVE HandlerOK(s)'
    <3>1. rpc'[s] = rpc[s] /\ HandlerOK(s)
      BY <2>3, <1>6 DEF Continue, TypeInv, ResourcesOK
    <3> QED BY <1>1, <1>3, <3>1, HandlerKept
  <2>4. Reads'
    BY <1>1, <1>6 DEF Continue, TypeInv, ResourcesOK, Reads
  <2> QED BY <2>1, <2>2, <2>3, <2>4 DEF TypeInv
<1>7. CASE /\ OpenRuns(i) # {}
           /\ Continue(r, [pc |-> "update", inst |-> i,
                           type |-> report.type, run |-> Latest(i)])
  <2>1. ResourcesOK'
    BY <1>1, <1>4, <1>7 DEF Continue, TypeInv, ResourcesOK
  <2>2. HandlerOK(r)'
    <3>1. Latest(i) \in OpenRuns(i)
      <4>1. runs \in Seq(RunResource)
        BY DEF TypeInv, ResourcesOK
      <4> HIDE DEF i, report
      <4> QED BY <1>7, <4>1, LatestIsOpen
    <3>2. Latest(i) \in DOMAIN runs /\ runs[Latest(i)].inst = i
      BY <3>1 DEF OpenRuns
    <3> DEFINE next == [pc |-> "update", inst |-> i, type |-> report.type, run |-> Latest(i)]
    <3>3. rpc'[r] = next
      BY <1>7 DEF Continue, TypeInv, ResourcesOK
    <3> HIDE DEF i, report
    <3> QED BY <1>1, <1>2, <3>2, <3>3 DEF HandlerOK
  <2>3. ASSUME NEW s \in Rpc, s # r PROVE HandlerOK(s)'
    <3>1. rpc'[s] = rpc[s] /\ HandlerOK(s)
      BY <2>3, <1>7 DEF Continue, TypeInv, ResourcesOK
    <3> QED BY <1>1, <1>3, <3>1, HandlerKept
  <2>4. Reads'
    BY <1>1, <1>7 DEF Continue, TypeInv, ResourcesOK, Reads
  <2> QED BY <2>1, <2>2, <2>3, <2>4 DEF TypeInv
<1> QED BY <1>5, <1>6, <1>7 DEF ListRuns

\* CreateRun: the new run comes after all others.
LEMMA CreateType ==
    ASSUME TypeInv, NEW r \in Rpc, CreateRun(r)
    PROVE  TypeInv'
<1> DEFINE new == [inst |-> rpc[r].inst, type |-> rpc[r].type,
                   sizes |-> <<>>, ended |-> FALSE]
<1>1. /\ rpc[r].pc = "create" /\ Return(r)
      /\ UNCHANGED <<published, instance, done>>
    BY DEF CreateRun
<1>2. runs' = runs \/ runs' = Append(runs, new)
    BY DEF CreateRun
<1>3. new \in RunResource
    BY <1>1 DEF TypeInv, HandlerOK, Opening, Handled, RunResource
<1>4. /\ runs' \in Seq(RunResource)
      /\ DOMAIN runs \subseteq DOMAIN runs'
      /\ \A k \in DOMAIN runs : runs'[k].inst = runs[k].inst
  <2>1. runs \in Seq(RunResource)
    BY DEF TypeInv, ResourcesOK
  <2> HIDE DEF new
  <2>2. CASE runs' = runs
    BY <2>1, <2>2
  <2>3. CASE runs' = Append(runs, new)
    <3>1. runs' \in Seq(RunResource) /\ Len(runs') = Len(runs) + 1
      BY <1>3, <2>1, <2>3
    <3>2. \A k \in DOMAIN runs : runs'[k] = runs[k]
      BY <1>3, <2>1, <2>3
    <3>3. DOMAIN runs \subseteq DOMAIN runs'
      BY <2>1, <3>1
    <3> QED BY <3>1, <3>2, <3>3
  <2> QED BY <1>2, <2>2, <2>3
<1>5. ResourcesOK'
    BY <1>1, <1>4 DEF Return, TypeInv, ResourcesOK
<1>6. \A s \in Rpc : HandlerOK(s)'
  <2>1. published \in Nat
    BY OSUpdateRunAssumption DEF TypeInv, ResourcesOK
  <2> QED BY <1>1, <1>4, <1>5, <2>1, ReturnType
<1>7. Reads'
    BY <1>1 DEF Return, TypeInv, ResourcesOK, Reads, Idle
<1> QED BY <1>5, <1>6, <1>7 DEF TypeInv

\* UpdateRun: the run keeps its instance.
LEMMA UpdateType ==
    ASSUME TypeInv, NEW r \in Rpc, UpdateRun(r)
    PROVE  TypeInv'
<1> DEFINE k == rpc[r].run
           type == rpc[r].type
           run == [inst |-> runs[k].inst, type |-> type, sizes |-> Sizes(type),
                   ended |-> runs[k].ended \/ Ends(type)]
           updated == [runs EXCEPT ![k] = run]
<1>1. /\ rpc[r].pc = "update" /\ Return(r)
      /\ UNCHANGED <<published, instance, done>>
    BY DEF UpdateRun
<1>2. runs' = runs \/ runs' = updated
    BY DEF UpdateRun
<1>3. k \in DOMAIN runs /\ type \in Handled /\ Sizes(type) \in Seq(Nat)
    BY <1>1, SizesType DEF TypeInv, ResourcesOK, HandlerOK
<1>4. /\ updated \in Seq(RunResource)
      /\ DOMAIN updated = DOMAIN runs
      /\ \A m \in DOMAIN runs : updated[m].inst = runs[m].inst
  <2>1. runs \in Seq(RunResource)
    BY DEF TypeInv, ResourcesOK
  <2>2. (runs[k].ended \/ Ends(type)) \in BOOLEAN
    BY <2>1, <1>3 DEF RunResource, Ends
  <2> DEFINE ended == runs[k].ended \/ Ends(type)
  <2>3. run \in RunResource
    <3>1. runs[k].inst \in Instances
      <4>1. runs[k] \in RunResource
        BY <1>3, <2>1
      <4> HIDE DEF k
      <4> QED BY <4>1 DEF RunResource
    <3>2. run = [inst |-> runs[k].inst, type |-> type, sizes |-> Sizes(type),
                 ended |-> ended]
      OBVIOUS
    <3> HIDE DEF ended, k, type, run
    <3> QED BY <1>3, <2>2, <3>1, <3>2 DEF RunResource, ended
  <2>4. run.inst = runs[k].inst
    OBVIOUS
  <2> HIDE DEF k, run
  <2> QED BY <1>3, <2>1, <2>3, <2>4
<1>5. ResourcesOK'
    BY <1>1, <1>2, <1>4 DEF Return, TypeInv, ResourcesOK
<1>6. \A s \in Rpc : HandlerOK(s)'
  <2>1. published \in Nat
    BY OSUpdateRunAssumption DEF TypeInv, ResourcesOK
  <2>2. DOMAIN runs \subseteq DOMAIN runs' /\ \A m \in DOMAIN runs : runs'[m].inst = runs[m].inst
    BY <1>2, <1>4
  <2> QED BY <1>1, <1>5, <2>1, <2>2, ReturnType
<1>7. Reads'
    BY <1>1 DEF Return, TypeInv, ResourcesOK, Reads, Idle
<1> QED BY <1>5, <1>6, <1>7 DEF TypeInv

\* A newer version leaves every resource and every handler as it was.
LEMMA PublishType == TypeInv /\ Publish => TypeInv'
<1> SUFFICES ASSUME TypeInv, Publish PROVE TypeInv'
    OBVIOUS
<1>1. /\ published \in Nat /\ published' = published + 1 /\ published < MaxOS
      /\ MaxOS \in Nat
      /\ UNCHANGED <<instance, runs, rpc, done>>
    BY OSUpdateRunAssumption DEF Publish, TypeInv, ResourcesOK
<1>2. ResourcesOK'
    BY <1>1 DEF TypeInv, ResourcesOK
<1>3. ASSUME NEW r \in Rpc PROVE HandlerOK(r)'
    BY <1>1, HandlerKept DEF TypeInv
<1>4. Reads'
  <2>1. \A i \in Instances : instance[i].os \in Nat
    BY OSUpdateRunAssumption DEF TypeInv, ResourcesOK, InstanceResource
  <2>2. \A r \in Rpc : rpc[r].pc = "plan" => rpc[r].read.os \in Nat
    BY OSUpdateRunAssumption DEF TypeInv, HandlerOK, InstanceResource
  <2> QED BY <1>1, <2>1, <2>2 DEF TypeInv, Reads
<1> QED BY <1>2, <1>3, <1>4 DEF TypeInv

\* A restart leaves only idle handlers.
LEMMA RestartType == TypeInv /\ Restart => TypeInv'
<1> SUFFICES ASSUME TypeInv, Restart PROVE TypeInv'
    OBVIOUS
<1>1. /\ rpc' = [r \in Rpc |-> Idle] /\ done' = <<>>
      /\ UNCHANGED <<published, instance, runs>>
    BY DEF Restart
<1>2. ResourcesOK'
    BY <1>1 DEF TypeInv, ResourcesOK
<1>3. \A r \in Rpc : HandlerOK(r)'
    BY <1>1 DEF HandlerOK, Idle
<1>4. Reads'
    BY <1>1 DEF TypeInv, Reads, Idle
<1> QED BY <1>2, <1>3, <1>4 DEF TypeInv

\* Every step keeps the types.
LEMMA TypeNext == TypeInv /\ [Next]_vars => TypeInv'
<1> SUFFICES ASSUME TypeInv, [Next]_vars PROVE TypeInv'
    OBVIOUS
<1>1. ASSUME NEW r \in Rpc, Handle(r) PROVE TypeInv'
  <2>1. ASSUME NEW i \in Instances, Receive(r, i) PROVE TypeInv'
    BY <2>1, ReceiveType
  <2>2. CASE PlanUpdate(r)
    BY <2>2, PlanType
  <2>3. CASE WriteInstance(r)
    BY <2>3, WriteType
  <2>4. CASE ListRuns(r)
    BY <2>4, ListType
  <2>5. CASE CreateRun(r)
    BY <2>5, CreateType
  <2>6. CASE UpdateRun(r)
    BY <2>6, UpdateType
  <2> QED BY <1>1, <2>1, <2>2, <2>3, <2>4, <2>5, <2>6, Zenon DEF Handle
<1>2. CASE Publish
    BY <1>2, PublishType
<1>3. CASE Restart
    BY <1>3, RestartType
<1>4. CASE UNCHANGED vars
    BY <1>4 DEF vars, TypeInv, ResourcesOK, HandlerOK, Reads
<1> QED BY <1>1, <1>2, <1>3, <1>4, Zenon DEF Next

\* The state of the manager is always well typed, whatever calls fail and
\* however handlers interleave: a run that is about to be updated exists and
\* belongs to the instance, and no version is shown before it is published.
THEOREM UpdateTypeCorrect == Spec => []TypeOK
<1>1. TypeInv => TypeOK
    BY DEF TypeInv, ResourcesOK, HandlerOK, TypeOK
<1> QED BY <1>1, TypeInit, TypeNext, PTL DEF Spec

-----------------------------------------------------------------------------
(* End times *)

\* Without status details the text of UpdateStatusDone stays the plain one,
\* and every end status is written together with an end time.
EndInv == TypeInv /\ done = <<>> /\ FinishedRunIsEnded

\* A step does not lengthen the text.
LEMMA DoneStays ==
    ASSUME LogSizes = {}, EndInv, [Next]_vars
    PROVE  done' = <<>>
<1>1. ASSUME NEW r \in Rpc, ListRuns(r) PROVE done' = <<>>
  <2>1. rpc[r].inst \in Instances /\ rpc[r].report \in Reports(rpc[r].inst)
    BY <1>1 DEF EndInv, TypeInv, HandlerOK, ListRuns
  <2>2. rpc[r].report.detail = NoDetail
    BY <2>1, ReportType
  <2> QED BY <1>1, <2>2 DEF EndInv, ListRuns, AppendsSize
<1>2. ASSUME NEW r \in Rpc, Handle(r), ~ListRuns(r) PROVE done' = <<>>
    BY <1>2 DEF EndInv, Handle, Receive, PlanUpdate, WriteInstance, CreateRun, UpdateRun
<1>3. CASE Publish \/ Restart \/ UNCHANGED vars
    BY <1>3 DEF EndInv, Publish, Restart, vars
<1> QED BY <1>1, <1>2, <1>3 DEF Next

\* A run is changed by CreateRun, which opens it with a status of Opening,
\* and by UpdateRun, which ends it with a status of Closing.
LEMMA EndNext ==
    ASSUME LogSizes = {}, EndInv, [Next]_vars
    PROVE  EndInv'
<1>1. TypeInv'
    BY TypeNext DEF EndInv
<1>2. done' = <<>>
    BY DoneStays
<1>3. runs \in Seq(RunResource) /\ FinishedRunIsEnded
    BY DEF EndInv, TypeInv, ResourcesOK
<1>4. ASSUME NEW r \in Rpc, CreateRun(r) PROVE FinishedRunIsEnded'
  <2> DEFINE new == [inst |-> rpc[r].inst, type |-> rpc[r].type,
                     sizes |-> <<>>, ended |-> FALSE]
  <2>1. runs' = runs \/ runs' = Append(runs, new)
    BY <1>4 DEF CreateRun
  <2>2. new.type \notin Closing
    BY <1>4 DEF CreateRun, EndInv, TypeInv, HandlerOK, Opening, Closing
  <2> HIDE DEF new
  <2> QED BY <1>3, <2>1, <2>2 DEF FinishedRunIsEnded
<1>5. ASSUME NEW r \in Rpc, UpdateRun(r) PROVE FinishedRunIsEnded'
  <2> DEFINE k == rpc[r].run
             run == [inst |-> runs[k].inst, type |-> rpc[r].type,
                     sizes |-> Sizes(rpc[r].type),
                     ended |-> runs[k].ended \/ Ends(rpc[r].type)]
  <2>1. runs' = runs \/ runs' = [runs EXCEPT ![k] = run]
    BY <1>5 DEF UpdateRun
  <2>2. run.type \in Closing => run.ended
    <3>1. rpc[r].type \in Closing => Ends(rpc[r].type)
      BY DEF EndInv, Ends, Sizes
    <3> QED BY <3>1
  <2> HIDE DEF k, run
  <2> QED BY <1>3, <2>1, <2>2 DEF FinishedRunIsEnded
<1>6. ASSUME UNCHANGED runs PROVE FinishedRunIsEnded'
    BY <1>3, <1>6 DEF FinishedRunIsEnded
<1>7. FinishedRunIsEnded'
  <2>1. ASSUME NEW r \in Rpc, Handle(r) PROVE FinishedRunIsEnded'
    BY <1>4, <1>5, <1>6, <2>1
    DEF Handle, Receive, PlanUpdate, WriteInstance, ListRuns
  <2>2. CASE Publish \/ Restart \/ UNCHANGED vars
    BY <1>6, <2>2 DEF Publish, Restart, vars
  <2> QED BY <2>1, <2>2 DEF Next
<1> QED BY <1>1, <1>2, <1>7 DEF EndInv

\* While no status detail validates, no run that shows "completed" or
\* "failed" lacks its end time, whatever calls are lost, repeated or
\* overtaken.  CompletedRunIsFinal shows what a status detail changes.
THEOREM UpdateRunsEnd ==
    ASSUME LogSizes = {}
    PROVE  Spec => []FinishedRunIsEnded
<1>1. Init => EndInv
    BY TypeInit DEF Init, EndInv, FinishedRunIsEnded
<1>2. EndInv /\ [Next]_vars => EndInv'
    BY EndNext
<1>3. EndInv => FinishedRunIsEnded
    BY DEF EndInv
<1> QED BY <1>1, <1>2, <1>3, PTL DEF Spec

-----------------------------------------------------------------------------
(* One report of an instance at a time *)

\* At most one handler works for an instance.
Serial ==
    \A r, s \in Rpc : rpc[r].pc # "idle" /\ rpc[s].pc # "idle"
                      /\ rpc[r].inst = rpc[s].inst => r = s

\* A handler's step changes no other handler, and not the instance that the
\* handler works for.
LEMMA HandlerMoves ==
    ASSUME TypeInv, NEW r \in Rpc, Handle(r)
    PROVE  /\ \A s \in Rpc \ {r} : rpc'[s] = rpc[s]
           /\ \/ rpc'[r].pc = "idle"
              \/ rpc[r].pc # "idle" /\ rpc'[r].inst = rpc[r].inst
              \/ \E i \in Instances : Receive(r, i) /\ rpc'[r].inst = i
<1>1. DOMAIN rpc = Rpc
    BY DEF TypeInv, ResourcesOK
<1>2. ASSUME NEW i \in Instances, Receive(r, i)
      PROVE  (\A s \in Rpc \ {r} : rpc'[s] = rpc[s]) /\ rpc'[r].inst = i
    BY <1>1, <1>2 DEF Receive, Continue
<1>3. CASE Return(r)
    BY <1>1, <1>3 DEF Return, Idle
<1>4. ASSUME NEW next, Continue(r, next)
      PROVE  (\A s \in Rpc \ {r} : rpc'[s] = rpc[s]) /\ rpc'[r] = next
    BY <1>1, <1>4 DEF Continue
<1>5. CASE PlanUpdate(r)
    BY <1>3, <1>4, <1>5 DEF PlanUpdate
<1>6. CASE WriteInstance(r)
    BY <1>3, <1>4, <1>6 DEF WriteInstance
<1>7. CASE ListRuns(r)
    BY <1>3, <1>4, <1>7 DEF ListRuns
<1>8. CASE CreateRun(r) \/ UpdateRun(r)
    BY <1>3, <1>8 DEF CreateRun, UpdateRun
<1> QED BY <1>2, <1>5, <1>6, <1>7, <1>8 DEF Handle

\* Agents that wait for their previous report keep the handlers apart.
LEMMA SerialNext ==
    ASSUME SerialAgents, TypeInv, Serial, [Next]_vars
    PROVE  Serial'
<1>1. ASSUME NEW r \in Rpc, Handle(r) PROVE Serial'
  <2>1. ASSUME NEW s \in Rpc \ {r},
               rpc'[r].pc # "idle", rpc'[s].pc # "idle", rpc'[r].inst = rpc'[s].inst
        PROVE  FALSE
    <3>1. rpc'[s] = rpc[s]
      BY <1>1, HandlerMoves
    <3>2. CASE rpc[r].pc # "idle" /\ rpc'[r].inst = rpc[r].inst
      BY <2>1, <3>1, <3>2 DEF Serial
    <3>3. CASE \E i \in Instances : Receive(r, i) /\ rpc'[r].inst = i
      BY <2>1, <3>1, <3>3 DEF Receive, InFlight
    <3> QED BY <1>1, <2>1, <3>2, <3>3, HandlerMoves
  <2>2. \A s \in Rpc \ {r} : rpc'[s] = rpc[s]
    BY <1>1, HandlerMoves
  <2> QED BY <2>1, <2>2 DEF Serial
<1>2. CASE Publish
    BY <1>2 DEF Publish, Serial
<1>3. CASE Restart
    BY <1>3 DEF Restart, Idle, Serial
<1>4. CASE UNCHANGED vars
    BY <1>4 DEF vars, Serial
<1> QED BY <1>1, <1>2, <1>3, <1>4, Zenon DEF Next

-----------------------------------------------------------------------------
(* CVEs *)

\* What a handler read is still there, and what it plans keeps the CVEs and
\* the OS together.
PlansOK ==
    \A r \in Rpc :
        /\ rpc[r].pc = "plan" => rpc[r].read = instance[rpc[r].inst]
        /\ rpc[r].pc = "write" =>
              IF rpc[r].os = 0
              THEN rpc[r].cves \in {0, instance[rpc[r].inst].os}
              ELSE rpc[r].cves = rpc[r].os

CVEInv == TypeInv /\ Serial /\ PlansOK /\ CVEsOfInstalledOS

\* The plan of a handler that has just read its instance.
LEMMA PlanOK ==
    ASSUME CVEInv, NEW r \in Rpc, PlanUpdate(r), rpc'[r].pc = "write"
    PROVE  IF rpc'[r].os = 0
           THEN rpc'[r].cves \in {0, instance[rpc'[r].inst].os}
           ELSE rpc'[r].cves = rpc'[r].os
<1> DEFINE i == rpc[r].inst
           report == rpc[r].report
           read == rpc[r].read
           looks == LooksForOS(i, report, read)
<1>1. DOMAIN rpc = Rpc
    BY DEF CVEInv, TypeInv, ResourcesOK
<1>2. ~Return(r)
    BY <1>1 DEF Return, Idle
<1>3. /\ ~(looks /\ OSRefused(report, read))
      /\ rpc'[r].inst = i
      /\ rpc'[r].os = IF looks THEN report.image ELSE 0
      /\ rpc'[r].cves = NewCVEs(i, report, read)
    BY <1>1, <1>2 DEF PlanUpdate, Continue
<1>4. read = instance[i]
    BY DEF CVEInv, PlansOK, PlanUpdate
<1>5. CASE looks
  <2>1. report.image # 0 /\ NewCVEs(i, report, read) = report.image
    BY <1>3, <1>5 DEF OSRefused, NewCVEs
  <2> QED BY <1>3, <1>5, <2>1
<1>6. CASE ~looks
  <2>1. NewCVEs(i, report, read) \in {0, read.os}
    BY <1>6 DEF NewCVEs
  <2> QED BY <1>3, <1>4, <1>6, <2>1
<1> QED BY <1>5, <1>6

\* A write of one handler touches no instance of another handler.
LEMMA CVENext ==
    ASSUME SerialAgents, CVEInv, [Next]_vars
    PROVE  CVEInv'
<1>1. TypeInv' /\ Serial'
    BY TypeNext, SerialNext DEF CVEInv
<1>2. DOMAIN rpc = Rpc /\ TypeInv
    BY DEF CVEInv, TypeInv, ResourcesOK
<1>3. ASSUME NEW r \in Rpc, Handle(r), UNCHANGED instance
      PROVE  PlansOK' /\ CVEsOfInstalledOS'
  <2>1. CVEsOfInstalledOS'
    BY <1>3 DEF CVEInv, CVEsOfInstalledOS
  <2>2. \A s \in Rpc \ {r} : rpc'[s] = rpc[s]
    BY <1>2, <1>3, HandlerMoves
  <2>3. rpc'[r].pc = "plan" => rpc'[r].read = instance[rpc'[r].inst]
    BY <1>2, <1>3 DEF Handle, Receive, PlanUpdate, WriteInstance, ListRuns,
                      CreateRun, UpdateRun, Return, Continue, Idle
  <2>4. rpc'[r].pc = "write" => PlanUpdate(r)
    BY <1>2, <1>3 DEF Handle, Receive, WriteInstance, ListRuns,
                      CreateRun, UpdateRun, Return, Continue, Idle
  <2>5. rpc'[r].pc = "write" => IF rpc'[r].os = 0
                                THEN rpc'[r].cves \in {0, instance[rpc'[r].inst].os}
                                ELSE rpc'[r].cves = rpc'[r].os
    BY <2>4, PlanOK
  <2> QED BY <1>3, <2>1, <2>2, <2>3, <2>5 DEF CVEInv, PlansOK
<1>4. ASSUME NEW r \in Rpc, WriteInstance(r)
      PROVE  PlansOK' /\ CVEsOfInstalledOS'
  <2> DEFINE i == rpc[r].inst
  <2>1. rpc[r].pc = "write" /\ i \in Instances
    BY <1>2, <1>4 DEF WriteInstance, TypeInv, HandlerOK
  <2>2. instance' = instance \/ instance' = [instance EXCEPT ![i] = Planned(r)]
    BY <1>4 DEF WriteInstance
  <2>3. instance \in [Instances -> InstanceResource]
    BY <1>2 DEF TypeInv, ResourcesOK
  <2>4. Planned(r).cves \in {0, Planned(r).os}
    <3>1. instance[i].cves \in {0, instance[i].os}
      BY <2>1 DEF CVEInv, CVEsOfInstalledOS
    <3>2. IF rpc[r].os = 0 THEN rpc[r].cves \in {0, instance[i].os}
                           ELSE rpc[r].cves = rpc[r].os
      BY <2>1 DEF CVEInv, PlansOK
    <3> QED BY <3>1, <3>2 DEF Planned
  <2>5. CVEsOfInstalledOS'
    BY <2>2, <2>3, <2>4 DEF CVEInv, CVEsOfInstalledOS
  <2>6. rpc'[r].pc \notin {"plan", "write"}
    BY <1>2, <1>4 DEF WriteInstance, Return, Continue, Idle
  <2>7. ASSUME NEW s \in Rpc \ {r}, rpc[s].pc # "idle"
        PROVE  instance'[rpc[s].inst] = instance[rpc[s].inst]
    <3>1. rpc[s].inst # i /\ rpc[s].inst \in Instances
      BY <2>1, <2>7 DEF CVEInv, Serial, TypeInv, HandlerOK
    <3> QED BY <2>2, <2>3, <3>1
  <2>8. \A s \in Rpc \ {r} : rpc'[s] = rpc[s]
    BY <1>2, <1>4, HandlerMoves DEF Handle
  <2> QED BY <2>5, <2>6, <2>7, <2>8 DEF CVEInv, PlansOK
<1>5. ASSUME NEW r \in Rpc, Handle(r) PROVE PlansOK' /\ CVEsOfInstalledOS'
  <2>1. WriteInstance(r) \/ UNCHANGED instance
    BY <1>5 DEF Handle, Receive, PlanUpdate, ListRuns, CreateRun, UpdateRun
  <2> QED BY <1>3, <1>4, <1>5, <2>1
<1>6. CASE Publish
    BY <1>1, <1>6 DEF Publish, CVEInv, PlansOK, CVEsOfInstalledOS
<1>7. CASE Restart
    BY <1>1, <1>7 DEF Restart, Idle, CVEInv, PlansOK, CVEsOfInstalledOS
<1>8. CASE UNCHANGED vars
    BY <1>1, <1>8 DEF vars, CVEInv, PlansOK, CVEsOfInstalledOS
<1> QED BY <1>1, <1>5, <1>6, <1>7, <1>8 DEF Next, CVEInv

\* If agents wait for the end of their previous report, an instance never
\* shows the CVEs of another OS than the one it is shown to run, whatever
\* calls fail or are half applied.
THEOREM CVEsFollowOS ==
    ASSUME SerialAgents
    PROVE  Spec => []CVEsOfInstalledOS
<1>1. Init => CVEInv
  <2>1. Init => Serial /\ PlansOK /\ CVEsOfInstalledOS
    BY DEF Init, Serial, PlansOK, CVEsOfInstalledOS, Idle
  <2> QED BY <2>1, TypeInit DEF CVEInv
<1>2. CVEInv /\ [Next]_vars => CVEInv'
    BY CVENext
<1>3. CVEInv => CVEsOfInstalledOS
    BY DEF CVEInv
<1> QED BY <1>1, <1>2, <1>3, PTL DEF Spec

-----------------------------------------------------------------------------
(* The log of updates *)

\* A handler that is about to create a run has found none open, and still
\* finds none; one that is about to update a run has an open one.
OpenOK ==
    \A r \in Rpc :
        /\ rpc[r].pc = "create" => OpenRuns(rpc[r].inst) = {}
        /\ rpc[r].pc = "update" => ~runs[rpc[r].run].ended

LogInv == EndInv /\ Serial /\ OpenOK

\* CreateRun and UpdateRun leave the runs of other instances alone.
LEMMA OthersKept ==
    ASSUME TypeInv, NEW r \in Rpc, CreateRun(r) \/ UpdateRun(r),
           NEW j, j # rpc[r].inst
    PROVE  /\ OpenRuns(j)' = OpenRuns(j)
           /\ \A k \in DOMAIN runs : runs[k].inst = j => runs'[k] = runs[k]
<1>1. runs \in Seq(RunResource)
    BY DEF TypeInv, ResourcesOK
<1>2. CASE CreateRun(r)
  <2> DEFINE new == [inst |-> rpc[r].inst, type |-> rpc[r].type,
                     sizes |-> <<>>, ended |-> FALSE]
  <2>1. runs' = runs \/ runs' = Append(runs, new)
    BY <1>2 DEF CreateRun
  <2>2. new.inst # j /\ new \in RunResource
    BY <1>2 DEF CreateRun, TypeInv, HandlerOK, Opening, Handled, RunResource
  <2> HIDE DEF new
  <2>3. CASE runs' = runs
    BY <2>3 DEF OpenRuns
  <2>4. CASE runs' = Append(runs, new)
    <3>1. /\ \A k \in DOMAIN runs : runs'[k] = runs[k]
          /\ DOMAIN runs' = DOMAIN runs \cup {Len(runs) + 1}
          /\ runs'[Len(runs) + 1] = new
      BY <1>1, <2>2, <2>4
    <3> QED BY <2>2, <3>1 DEF OpenRuns
  <2> QED BY <2>1, <2>3, <2>4
<1>3. CASE UpdateRun(r)
  <2> DEFINE k == rpc[r].run
             run == [inst |-> runs[k].inst, type |-> rpc[r].type,
                     sizes |-> Sizes(rpc[r].type),
                     ended |-> runs[k].ended \/ Ends(rpc[r].type)]
  <2>1. runs' = runs \/ runs' = [runs EXCEPT ![k] = run]
    BY <1>3 DEF UpdateRun
  <2>2. k \in DOMAIN runs /\ runs[k].inst # j /\ run.inst # j
    BY <1>3 DEF UpdateRun, TypeInv, HandlerOK
  <2> HIDE DEF k, run
  <2>3. CASE runs' = runs
    BY <2>3 DEF OpenRuns
  <2>4. CASE runs' = [runs EXCEPT ![k] = run]
    <3>1. /\ DOMAIN runs' = DOMAIN runs
          /\ \A m \in DOMAIN runs : m # k => runs'[m] = runs[m]
          /\ runs'[k] = run
      BY <1>1, <2>2, <2>4
    <3> QED BY <2>2, <3>1 DEF OpenRuns
  <2> QED BY <2>1, <2>3, <2>4
<1> QED BY <1>2, <1>3

\* What ListRuns finds holds when it has found it.
LEMMA ListFinds ==
    ASSUME "list" \notin Failing, TypeInv, NEW r \in Rpc, ListRuns(r)
    PROVE  /\ rpc'[r].pc \in {"idle", "create", "update"}
           /\ rpc'[r].pc = "create" => OpenRuns(rpc'[r].inst) = {}
           /\ rpc'[r].pc = "update" => ~runs[rpc'[r].run].ended
<1> DEFINE i == rpc[r].inst
<1>1. DOMAIN rpc = Rpc /\ runs \in Seq(RunResource)
    BY DEF TypeInv, ResourcesOK
<1>2. CASE Return(r)
    BY <1>1, <1>2 DEF Return, Idle
<1>3. CASE /\ OpenRuns(i) = {}
           /\ rpc'[r] = [pc |-> "create", inst |-> i, type |-> rpc[r].report.type]
    BY <1>3
<1>4. CASE /\ OpenRuns(i) # {}
           /\ rpc'[r] = [pc |-> "update", inst |-> i, type |-> rpc[r].report.type,
                         run |-> Latest(i)]
  <2>1. Latest(i) \in OpenRuns(i)
    <3> HIDE DEF i
    <3> QED BY <1>1, <1>4, LatestIsOpen
  <2> HIDE DEF i
  <2> QED BY <1>4, <2>1 DEF OpenRuns
<1> QED BY <1>1, <1>2, <1>3, <1>4 DEF ListRuns, Continue

\* A handler's finding outlives the steps of the handlers of other instances.
LEMMA OpenNext ==
    ASSUME SerialAgents, "list" \notin Failing, TypeInv, Serial, OpenOK, [Next]_vars
    PROVE  OpenOK'
<1>1. DOMAIN rpc = Rpc
    BY DEF TypeInv, ResourcesOK
<1>2. ASSUME NEW r \in Rpc, Handle(r), UNCHANGED runs
      PROVE  OpenOK'
  <2>1. \A s \in Rpc \ {r} : rpc'[s] = rpc[s]
    BY <1>2, HandlerMoves
  <2>2. rpc'[r].pc \in {"create", "update"} => ListRuns(r)
    BY <1>1, <1>2 DEF Handle, Receive, PlanUpdate, WriteInstance, CreateRun,
                      UpdateRun, Return, Continue, Idle
  <2>3. /\ rpc'[r].pc = "create" => OpenRuns(rpc'[r].inst) = {}
        /\ rpc'[r].pc = "update" => ~runs[rpc'[r].run].ended
    BY <2>2, ListFinds
  <2> QED BY <1>2, <2>1, <2>3 DEF OpenOK, OpenRuns
<1>3. ASSUME NEW r \in Rpc, CreateRun(r) \/ UpdateRun(r)
      PROVE  OpenOK'
  <2>1. \A s \in Rpc \ {r} : rpc'[s] = rpc[s]
    BY <1>3, HandlerMoves DEF Handle
  <2>2. rpc[r].pc # "idle" /\ rpc'[r].pc = "idle"
    BY <1>1, <1>3 DEF CreateRun, UpdateRun, Return, Idle
  <2>3. ASSUME NEW s \in Rpc \ {r}
        PROVE  /\ rpc[s].pc = "create" => (OpenRuns(rpc[s].inst) = {})'
               /\ rpc[s].pc = "update" => ~runs'[rpc[s].run].ended
    <3>1. CASE rpc[s].pc = "create"
      <4>1. rpc[s].inst # rpc[r].inst
        BY <2>2, <3>1 DEF Serial
      <4>2. OpenRuns(rpc[s].inst) = {}
        BY <3>1 DEF OpenOK
      <4> QED BY <1>3, <2>1, <3>1, <4>1, <4>2, OthersKept DEF OpenRuns
    <3>2. CASE rpc[s].pc = "update"
      <4>1. rpc[s].inst # rpc[r].inst
        BY <2>2, <3>2 DEF Serial
      <4>2. rpc[s].run \in DOMAIN runs /\ runs[rpc[s].run].inst = rpc[s].inst
        BY <3>2 DEF TypeInv, HandlerOK
      <4>3. runs'[rpc[s].run] = runs[rpc[s].run]
        BY <1>3, <4>1, <4>2, OthersKept
      <4> QED BY <3>2, <4>3 DEF OpenOK
    <3> QED BY <3>1, <3>2
  <2> QED BY <2>1, <2>2, <2>3 DEF OpenOK, OpenRuns
<1>4. ASSUME NEW r \in Rpc, Handle(r) PROVE OpenOK'
  <2>1. CreateRun(r) \/ UpdateRun(r) \/ UNCHANGED runs
    BY <1>4 DEF Handle, Receive, PlanUpdate, WriteInstance, ListRuns
  <2> QED BY <1>2, <1>3, <1>4, <2>1
<1>5. CASE Publish
    BY <1>5 DEF Publish, OpenOK, OpenRuns
<1>6. CASE Restart
    BY <1>6 DEF Restart, Idle, OpenOK
<1>7. CASE UNCHANGED vars
    BY <1>7 DEF vars, OpenOK, OpenRuns
<1> QED BY <1>4, <1>5, <1>6, <1>7 DEF Next

\* CreateRun begins an update of an instance without an open one; UpdateRun
\* advances or ends the open run that was found.  No other step changes runs.
LEMMA LogStep ==
    ASSUME LogInv, [Next]_vars
    PROVE  [Log!LogNext]_RunLog
<1>1. runs \in Seq(RunResource) /\ DOMAIN RunLog = DOMAIN runs
    BY DEF LogInv, EndInv, TypeInv, ResourcesOK, RunLog
<1>2. ASSUME UNCHANGED runs PROVE UNCHANGED RunLog
    BY <1>2 DEF RunLog
<1>3. ASSUME NEW r \in Rpc, CreateRun(r) PROVE [Log!LogNext]_RunLog
  <2> DEFINE i == rpc[r].inst
             new == [inst |-> i, type |-> rpc[r].type, sizes |-> <<>>, ended |-> FALSE]
             entry == [inst |-> i, status |-> rpc[r].type, ended |-> FALSE]
  <2>1. runs' = runs \/ runs' = Append(runs, new)
    BY <1>3 DEF CreateRun
  <2>2. i \in Instances /\ rpc[r].type \in Opening /\ OpenRuns(i) = {}
    BY <1>3 DEF CreateRun, LogInv, EndInv, TypeInv, HandlerOK, OpenOK
  <2>3. new \in RunResource
    BY <2>2 DEF Opening, Handled, RunResource
  <2>4. ASSUME runs' = Append(runs, new) PROVE RunLog' = Append(RunLog, entry)
    <3>1. /\ Len(runs) \in Nat /\ DOMAIN runs = 1 .. Len(runs)
          /\ DOMAIN runs' = 1 .. (Len(runs) + 1)
          /\ \A k \in DOMAIN runs : runs'[k] = runs[k]
          /\ runs'[Len(runs) + 1] = new
      BY <1>1, <2>3, <2>4
    <3> DEFINE Shown(run) == [inst |-> run.inst, status |-> run.type, ended |-> run.ended]
    <3>2. RunLog = [k \in 1 .. Len(runs) |-> Shown(runs[k])]
      BY <3>1 DEF RunLog
    <3>3. RunLog' = [k \in 1 .. (Len(runs) + 1) |-> Shown(runs'[k])]
      BY <3>1 DEF RunLog
    <3>4. Shown(new) = entry
      OBVIOUS
    <3> HIDE DEF Shown, new, entry
    <3>5. RunLog' = [k \in 1 .. (Len(runs) + 1) |->
                        IF k = Len(runs) + 1 THEN entry ELSE RunLog[k]]
      BY <3>1, <3>2, <3>3, <3>4
    <3> QED BY <3>1, <3>2, <3>5
  <2>5. Log!Open(i) = OpenRuns(i)
    BY <1>1 DEF Log!Open, OpenRuns, RunLog
  <2>6. ASSUME runs' = Append(runs, new) PROVE Log!LogNext
    <3>1. Log!Begin(i, rpc[r].type)
      BY <2>2, <2>4, <2>5, <2>6 DEF Log!Begin
    <3> QED BY <2>2, <3>1 DEF Log!LogNext
  <2> HIDE DEF new
  <2> QED BY <1>2, <2>1, <2>6
<1>4. ASSUME NEW r \in Rpc, UpdateRun(r) PROVE [Log!LogNext]_RunLog
  <2> DEFINE k == rpc[r].run
             type == rpc[r].type
             ended == runs[k].ended \/ Ends(type)
             run == [inst |-> runs[k].inst, type |-> type, sizes |-> Sizes(type),
                     ended |-> ended]
  <2>1. runs' = runs \/ runs' = [runs EXCEPT ![k] = run]
    BY <1>4 DEF UpdateRun
  <2>2. k \in DOMAIN runs /\ type \in Handled /\ ~runs[k].ended
    BY <1>4 DEF UpdateRun, LogInv, EndInv, TypeInv, HandlerOK, OpenOK
  <2>3. (type \in Closing => ended = TRUE) /\ (type \notin Closing => ended = FALSE)
    <3>1. Ends(type) <=> type \in Closing
      BY DEF Ends, Sizes, LogInv, EndInv
    <3>2. (ended <=> type \in Closing) /\ ended \in BOOLEAN
      BY <2>2, <3>1
    <3> HIDE DEF ended, type
    <3> QED BY <3>2
  <2> HIDE DEF ended
  <2>4. run.inst = runs[k].inst /\ run.type = type /\ run.ended = ended
    OBVIOUS
  <2> HIDE DEF k, type, run
  <2>5. ASSUME runs' = [runs EXCEPT ![k] = run]
        PROVE  RunLog' = [RunLog EXCEPT ![k] = [inst |-> runs[k].inst, status |-> type,
                                                ended |-> ended]]
    BY <1>1, <2>2, <2>4, <2>5 DEF RunLog
  <2>6. RunLog[k] = [inst |-> runs[k].inst, status |-> runs[k].type, ended |-> FALSE]
    <3>1. RunLog[k] = [inst |-> runs[k].inst, status |-> runs[k].type,
                       ended |-> runs[k].ended]
      BY <2>2 DEF RunLog
    <3>2. runs[k].ended \in BOOLEAN
      <4>1. runs[k] \in RunResource
        BY <1>1, <2>2
      <4> QED BY <4>1 DEF RunResource
    <3> QED BY <2>2, <3>1, <3>2
  <2>7. ASSUME runs' = [runs EXCEPT ![k] = run], type \in Closing
        PROVE  Log!End(k, type)
    <3>1. ended = TRUE
      BY <2>3, <2>7
    <3>2. RunLog[k].inst = runs[k].inst /\ ~RunLog[k].ended
      BY <2>6
    <3>3. RunLog' = [RunLog EXCEPT ![k] = [inst |-> RunLog[k].inst, status |-> type,
                                           ended |-> TRUE]]
      BY <2>5, <2>7, <3>1, <3>2, Zenon
    <3> QED BY <3>2, <3>3, Zenon DEF Log!End, Log!Change
  <2>8. ASSUME runs' = [runs EXCEPT ![k] = run], type \notin Closing
        PROVE  Log!Advance(k, type)
    BY <2>2, <2>3, <2>5, <2>6, <2>8 DEF Log!Advance, Log!Change
  <2> QED BY <1>1, <1>2, <2>1, <2>2, <2>7, <2>8 DEF Log!LogNext
<1>5. ASSUME NEW r \in Rpc, Handle(r) PROVE [Log!LogNext]_RunLog
  <2>1. CreateRun(r) \/ UpdateRun(r) \/ UNCHANGED runs
    BY <1>5 DEF Handle, Receive, PlanUpdate, WriteInstance, ListRuns
  <2> QED BY <1>2, <1>3, <1>4, <2>1
<1>6. CASE Publish \/ Restart \/ UNCHANGED vars
    BY <1>2, <1>6 DEF Publish, Restart, vars
<1> QED BY <1>5, <1>6 DEF Next

\* If agents wait for the end of their previous report, queries for open runs
\* do not fail and no status detail validates, the runs are a log of updates:
\* one open run per instance, ended once, then left alone.
THEOREM RunsImplementLog ==
    ASSUME SerialAgents, "list" \notin Failing, LogSizes = {}
    PROVE  Spec => ImplementsLog
<1>1. Init => LogInv
  <2>1. Init => Serial /\ OpenOK /\ FinishedRunIsEnded /\ done = <<>>
    BY DEF Init, Serial, OpenOK, FinishedRunIsEnded, Idle
  <2> QED BY <2>1, TypeInit DEF LogInv, EndInv
<1>2. LogInv /\ [Next]_vars => LogInv'
    BY EndNext, SerialNext, OpenNext DEF LogInv, EndInv
<1>3. Init => Log!LogInit
    BY DEF Init, Log!LogInit, RunLog
<1>4. LogInv /\ [Next]_vars => [Log!LogNext]_RunLog
    BY LogStep
<1> QED BY <1>1, <1>2, <1>3, <1>4, PTL DEF Spec, ImplementsLog, Log!LogSpec
=============================================================================
