---------------------------- MODULE OSTenantProofs ----------------------------
(***************************************************************************)
(* Proofs about OSTenant, for every set of tenants and revisions, every    *)
(* configuration and any number of failures: type correctness; what an     *)
(* acknowledgement promises exists; and, when no two revisions share name  *)
(* and image version, no OS resource is created twice.                     *)
(***************************************************************************)
EXTENDS OSTenant, SequenceTheorems, TLAPS

-----------------------------------------------------------------------------
(* OS resources are only added, and keep their profile *)

OSGrows ==
    /\ os' \in [Tenants -> Seq(OSResource)]
    /\ \A t \in Tenants :
          /\ Len(os[t]) =< Len(os'[t])
          /\ \A k \in 1 .. Len(os[t]) : os'[t][k].id = os[t][k].id

LEMMA GrowsSame ==
    ASSUME TypeOK, UNCHANGED os
    PROVE  OSGrows
    BY DEF TypeOK, OSGrows

\* A creation appends one resource.
LEMMA GrowsAppend ==
    ASSUME TypeOK, NEW t \in Tenants, NEW rec \in OSResource,
           os' = [os EXCEPT ![t] = Append(@, rec)]
    PROVE  /\ OSGrows
           /\ Len(os'[t]) = Len(os[t]) + 1
           /\ os'[t][Len(os[t]) + 1] = rec
           /\ \A k \in 1 .. Len(os[t]) : os'[t][k] = os[t][k]
           /\ \A s \in Tenants \ {t} : os'[s] = os[s]
<1>1. os[t] \in Seq(OSResource)
    BY DEF TypeOK
<1>2. /\ Append(os[t], rec) \in Seq(OSResource)
      /\ Len(Append(os[t], rec)) = Len(os[t]) + 1
      /\ \A k \in 1 .. Len(os[t]) : Append(os[t], rec)[k] = os[t][k]
      /\ Append(os[t], rec)[Len(os[t]) + 1] = rec
    BY <1>1, AppendProperties
<1>3. os'[t] = Append(os[t], rec) /\ \A s \in Tenants \ {t} : os'[s] = os[s]
    BY DEF TypeOK
<1>4. os' \in [Tenants -> Seq(OSResource)]
    BY <1>2 DEF TypeOK
<1>5. \A s \in Tenants : Len(os[s]) \in Nat
    BY DEF TypeOK
<1> QED BY <1>2, <1>3, <1>4, <1>5 DEF OSGrows

\* What a refresh of one list writes.
Written(r, field) ==
    [os EXCEPT ![worker.req] = [k \in DOMAIN @ |->
        IF IsKnownAs(r, k) THEN [@[k] EXCEPT ![field] = feed] ELSE @[k]]]

LEMMA GrowsWritten ==
    ASSUME TypeOK, worker.pc # "idle", NEW r, NEW field \in {"existing", "fixed"},
           os' = Written(r, field)
    PROVE  OSGrows /\ \A t \in Tenants : Len(os'[t]) = Len(os[t])
<1> DEFINE t == worker.req
           u == [k \in DOMAIN os[t] |->
                   IF IsKnownAs(r, k) THEN [os[t][k] EXCEPT ![field] = feed] ELSE os[t][k]]
<1>1. t \in Tenants /\ os[t] \in Seq(OSResource) /\ feed \in 0 .. MaxFeed
    BY DEF TypeOK
<1>2. Len(os[t]) \in Nat /\ DOMAIN os[t] = 1 .. Len(os[t])
    BY <1>1
<1>3. ASSUME NEW k \in DOMAIN os[t]
      PROVE  u[k] \in OSResource /\ u[k].id = os[t][k].id
  <2>1. os[t][k] \in OSResource
    BY <1>1, <1>2, <1>3, ElementOfSeq
  <2>2. [os[t][k] EXCEPT ![field] = feed] \in OSResource
    BY <2>1, <1>1 DEF OSResource
  <2>3. [os[t][k] EXCEPT ![field] = feed].id = os[t][k].id
    BY <2>1 DEF OSResource
  <2> QED BY <2>1, <2>2, <2>3
<1>4. u \in [1 .. Len(os[t]) -> OSResource]
    BY <1>2, <1>3
<1>5. u \in Seq(OSResource) /\ Len(u) = Len(os[t])
    BY <1>2, <1>4, IsASeq
<1>6. os' = [os EXCEPT ![t] = u]
    BY DEF Written
<1>7. os'[t] = u /\ \A s \in Tenants \ {t} : os'[s] = os[s]
    BY <1>1, <1>6 DEF TypeOK
<1>8. os' \in [Tenants -> Seq(OSResource)]
    BY <1>5, <1>6 DEF TypeOK
<1>9. \A s \in Tenants : Len(os[s]) \in Nat
    BY DEF TypeOK
<1> HIDE DEF u
<1>10. ASSUME NEW s \in Tenants
       PROVE  Len(os'[s]) = Len(os[s]) /\ \A k \in 1 .. Len(os[s]) : os'[s][k].id = os[s][k].id
  <2>1. CASE s = t
    BY <2>1, <1>2, <1>3, <1>5, <1>7 DEF u
  <2>2. CASE s # t
    BY <2>2, <1>7
  <2> QED BY <2>1, <2>2
<1> QED BY <1>8, <1>9, <1>10 DEF OSGrows

\* What was created for a tenant stays.
LEMMA GrowsIds ==
    ASSUME TypeOK, OSGrows, NEW t \in Tenants
    PROVE  Ids(os[t]) \subseteq Ids(os'[t])
<1>1. os[t] \in Seq(OSResource) /\ os'[t] \in Seq(OSResource)
    BY DEF TypeOK, OSGrows
<1>2. /\ DOMAIN os[t] = 1 .. Len(os[t]) /\ Len(os[t]) \in Nat
      /\ DOMAIN os'[t] = 1 .. Len(os'[t]) /\ Len(os'[t]) \in Nat
    BY <1>1
<1>3. ASSUME NEW k \in DOMAIN os[t]
      PROVE  k \in DOMAIN os'[t] /\ os'[t][k].id = os[t][k].id
    BY <1>2 DEF OSGrows
<1> QED BY <1>3 DEF Ids

LEMMA GrowsInitialised ==
    ASSUME TypeOK, OSGrows, provider \subseteq provider', NEW t \in Tenants, Initialised(t)
    PROVE  Initialised(t)'
    BY GrowsIds DEF Initialised

-----------------------------------------------------------------------------
(* The inductive invariant *)

\* What the worker has established for its tenant when it is at a step.
WorkerInv ==
    /\ worker.pc \in {"list", "profiles", "fixed", "provider", "ack"} /\ worker.acked =>
          Initialised(worker.req)
    /\ worker.pc \in {"profiles", "fixed"} =>
          \A r \in Revisions \ worker.todo : ProfileId[r] \in Ids(os[worker.req])
    /\ worker.pc \in {"provider", "ack"} => ProfileIds \subseteq Ids(os[worker.req])
    /\ worker.pc = "ack" /\ Automation => worker.req \in provider

IInv == TypeOK /\ AckedIsInitialised /\ WorkerInv

\* The part of TypeOK that is not about the worker.
ResourcesOK ==
    /\ tenant \in [Tenants -> Tenant]
    /\ os \in [Tenants -> Seq(OSResource)]
    /\ provider \subseteq Tenants
    /\ feed \in 1 .. MaxFeed
    /\ events \subseteq Tenants
    /\ periodic \in BOOLEAN
    /\ loop \in {"start", "events", "tick"}
    /\ waiting \subseteq Tenants
    /\ faults \in 0 .. MaxFaults

LEMMA FaultType ==
    ASSUME TypeOK, Fault
    PROVE  faults' \in 0 .. MaxFaults
    BY OSTenantAssumption DEF TypeOK, Fault

\* A reconciliation that ends leaves nothing to be kept.
LEMMA IdleKeeps ==
    ASSUME TypeOK, worker' = Idle, ResourcesOK'
    PROVE  TypeOK' /\ WorkerInv'
    BY DEF TypeOK, ResourcesOK, WorkerInv, Idle

\* A worker that does not move keeps what it has established.
LEMMA StillKeeps ==
    ASSUME IInv, worker' = worker, ResourcesOK', UNCHANGED os,
           provider \subseteq provider'
    PROVE  TypeOK' /\ WorkerInv'
<1>1. TypeOK'
    BY DEF IInv, TypeOK, ResourcesOK, Known
<1>2. worker.pc # "idle" => worker.req \in Tenants
    BY DEF IInv, TypeOK
<1>3. worker.pc # "idle" /\ Initialised(worker.req) => Initialised(worker.req)'
  <2> SUFFICES ASSUME worker.pc # "idle", Initialised(worker.req)
               PROVE  Initialised(worker.req)'
    OBVIOUS
  <2> DEFINE t == worker.req
  <2>1. t \in Tenants /\ worker'.req = t
    BY <1>2
  <2>2. ProfileIds \subseteq Ids(os[t]) /\ (Automation => t \in provider)
    BY DEF Initialised
  <2> QED BY <2>1, <2>2 DEF Initialised
<1>4. WorkerInv'
    BY <1>3 DEF IInv, WorkerInv
<1> QED BY <1>1, <1>4

\* Acknowledged tenants stay initialised when nothing is removed.
LEMMA AckedKept ==
    ASSUME IInv, OSGrows, provider \subseteq provider',
           \A t \in Tenants : tenant'[t].watcher => tenant[t].watcher
    PROVE  AckedIsInitialised'
    BY GrowsInitialised DEF IInv, AckedIsInitialised

LEMMA Initially == Init => IInv
<1> SUFFICES ASSUME Init PROVE IInv
    OBVIOUS
<1>1. worker.pc = "idle"
    BY DEF Init, Idle
<1>2. tenant \in [Tenants -> Tenant] /\ \A t \in Tenants : ~tenant[t].watcher
    BY DEF Init, Tenant, Desired
<1>3. os \in [Tenants -> Seq(OSResource)]
    BY EmptySeq DEF Init
<1>4. feed \in 1 .. MaxFeed /\ faults \in 0 .. MaxFaults
    BY OSTenantAssumption DEF Init
<1>5. /\ provider \subseteq Tenants /\ events \subseteq Tenants /\ waiting \subseteq Tenants
      /\ periodic \in BOOLEAN /\ loop \in {"start", "events", "tick"}
    BY DEF Init
<1>6. TypeOK
    BY <1>1, <1>2, <1>3, <1>4, <1>5 DEF TypeOK
<1> QED BY <1>1, <1>2, <1>6 DEF IInv, AckedIsInitialised, WorkerInv

\* The control loop and the rest of the system touch neither the OS resources
\* nor the worker, unless they end it.
LEMMA LoopKeeps ==
    ASSUME IInv,
           \/ \E t \in Tenants : HandleEvent(t)
           \/ Tick \/ ReconcileAll \/ Restart \/ PublishCVEs
    PROVE  IInv'
<1>1. UNCHANGED inventory
    BY DEF HandleEvent, Tick, ReconcileAll, Restart, PublishCVEs
<1>2. UNCHANGED <<tenant, os, provider>> /\ OSGrows
    BY <1>1, GrowsSame DEF inventory, IInv
<1>3. faults' \in 0 .. MaxFaults /\ feed' \in 1 .. MaxFeed
  <2>1. UNCHANGED faults \/ Fault
    BY DEF HandleEvent, Tick, ReconcileAll, Restart, PublishCVEs
  <2>2. UNCHANGED feed \/ (feed < MaxFeed /\ feed' = feed + 1)
    BY DEF HandleEvent, Tick, ReconcileAll, Restart, PublishCVEs
  <2>3. faults \in 0 .. MaxFaults /\ feed \in 1 .. MaxFeed /\ MaxFeed \in Nat
    BY OSTenantAssumption DEF IInv, TypeOK
  <2> QED BY <2>1, <2>2, <2>3, FaultType DEF IInv
<1>4. events' \subseteq Tenants /\ waiting' \subseteq Tenants
    BY DEF IInv, TypeOK, HandleEvent, Tick, ReconcileAll, Restart, PublishCVEs, AllTenants
<1>5. periodic' \in BOOLEAN /\ loop' \in {"start", "events", "tick"}
    BY DEF IInv, TypeOK, HandleEvent, Tick, ReconcileAll, Restart, PublishCVEs
<1>6. ResourcesOK'
    BY <1>2, <1>3, <1>4, <1>5 DEF IInv, TypeOK, ResourcesOK
<1>7. worker' = worker \/ worker' = Idle
    BY DEF HandleEvent, Tick, ReconcileAll, Restart, PublishCVEs
<1>8. TypeOK' /\ WorkerInv'
    BY <1>2, <1>6, <1>7, IdleKeeps, StillKeeps DEF IInv
<1>9. AckedIsInitialised'
    BY <1>2, AckedKept
<1> QED BY <1>8, <1>9 DEF IInv

LEMMA WorldKeeps ==
    ASSUME IInv, NEW t \in Tenants, CreateTenant(t) \/ DeleteTenant(t) \/ RemoveTenant(t)
    PROVE  IInv'
<1>1. PICK d \in Desired : tenant' = [tenant EXCEPT ![t].desired = d]
    BY DEF CreateTenant, DeleteTenant, RemoveTenant, Becomes, Desired
<1>2. UNCHANGED <<os, provider, feed, periodic, loop, waiting, worker, faults>>
      /\ events' \subseteq Tenants
    BY DEF IInv, TypeOK, CreateTenant, DeleteTenant, RemoveTenant, Becomes, Notify
<1>3. OSGrows
    BY <1>2, GrowsSame DEF IInv
<1>4. ResourcesOK'
    BY <1>1, <1>2 DEF IInv, TypeOK, ResourcesOK, Tenant
<1>5. TypeOK' /\ WorkerInv'
    BY <1>2, <1>3, <1>4, StillKeeps
<1>6. \A s \in Tenants : tenant'[s].watcher => tenant[s].watcher
    BY <1>1 DEF IInv, TypeOK, Tenant
<1>7. AckedIsInitialised'
    BY <1>2, <1>3, <1>6, AckedKept
<1> QED BY <1>5, <1>7 DEF IInv

-----------------------------------------------------------------------------
(* The worker *)

\* What a step of the worker may do to the resources.
StepOK ==
    /\ ResourcesOK'
    /\ OSGrows
    /\ provider \subseteq provider'

\* A step of the worker leaves alone what belongs to the control loop and to
\* others, and its queue changes by its own tenant only.
LEMMA StepType ==
    ASSUME TypeOK, worker.pc # "idle", UNCHANGED <<feed, events, periodic, loop>>,
           tenant' \in [Tenants -> Tenant], OSGrows,
           provider' \in {provider, provider \cup {worker.req}},
           waiting' \in {waiting, waiting \cup {worker.req}},
           UNCHANGED faults \/ Fault
    PROVE  StepOK
<1>1. faults' \in 0 .. MaxFaults
    BY FaultType DEF TypeOK
<1>2. worker.req \in Tenants
    BY DEF TypeOK
<1> QED BY <1>1, <1>2 DEF TypeOK, ResourcesOK, StepOK, OSGrows

\* A reconciliation that is given up.
LEMMA EndKeeps ==
    ASSUME IInv, StepOK, worker' = Idle,
           \A t \in Tenants : tenant'[t].watcher => tenant[t].watcher
    PROVE  IInv'
<1>1. TypeOK' /\ WorkerInv'
    BY IdleKeeps DEF IInv, StepOK
<1>2. AckedIsInitialised'
    BY AckedKept DEF IInv, StepOK
<1> QED BY <1>1, <1>2 DEF IInv

LEMMA TakeKeeps ==
    ASSUME IInv, NEW t \in Tenants, Take(t)
    PROVE  IInv'
<1>1. UNCHANGED <<tenant, os, provider>> /\ OSGrows
    BY GrowsSame DEF Take, inventory, IInv
<1>2. worker' = [pc |-> "tenant", req |-> t]
    BY DEF Take
<1>3. TypeOK' /\ WorkerInv'
    BY <1>1, <1>2 DEF IInv, TypeOK, WorkerInv, Take
<1>4. AckedIsInitialised'
    BY <1>1, AckedKept
<1> QED BY <1>3, <1>4 DEF IInv

LEMMA ReadTenantKeeps ==
    ASSUME IInv, ReadTenant
    PROVE  IInv'
<1>1. UNCHANGED <<tenant, os, provider>>
    BY DEF ReadTenant, CallFails, inventory
<1>2. worker.pc = "tenant"
    BY DEF ReadTenant
<1>. PICK t \in Tenants : t = worker.req
    BY <1>2 DEF IInv, TypeOK
<1>3. OSGrows
    BY <1>1, GrowsSame DEF IInv
<1>4. waiting' \in {waiting, waiting \cup {t}} /\ (UNCHANGED faults \/ Fault)
    BY DEF ReadTenant, CallFails, Continue, Done, GiveUp
<1>5. StepOK
    BY <1>1, <1>2, <1>3, <1>4, StepType DEF IInv, TypeOK, ReadTenant
<1>6. \/ worker' = Idle
      \/ worker' = [pc |-> "release", req |-> t]
      \/ worker' = [pc |-> "list", req |-> t, acked |-> tenant[t].watcher]
    BY DEF ReadTenant, CallFails, Continue, Done, GiveUp
<1>7. CASE worker' = Idle
    BY <1>1, <1>5, <1>7, EndKeeps
<1>8. CASE worker' = [pc |-> "release", req |-> t]
  <2>1. TypeOK' /\ WorkerInv'
    BY <1>2, <1>5, <1>8 DEF IInv, TypeOK, WorkerInv, StepOK, ResourcesOK
  <2> QED BY <2>1, <1>1, <1>3, AckedKept DEF IInv
<1>9. CASE worker' = [pc |-> "list", req |-> t, acked |-> tenant[t].watcher]
  <2>1. tenant[t].watcher \in BOOLEAN
    BY <1>2 DEF IInv, TypeOK, Tenant
  <2>2. TypeOK'
    BY <2>1, <1>2, <1>5, <1>9 DEF IInv, TypeOK, StepOK, ResourcesOK
  <2>3. tenant[t].watcher => Initialised(t)'
    BY <1>1, <1>2, <1>3, GrowsInitialised DEF IInv, AckedIsInitialised
  <2>4. worker'.pc = "list" /\ worker'.req = t /\ worker'.acked = tenant[t].watcher
    BY <1>9
  <2>5. WorkerInv'
    BY <2>3, <2>4 DEF WorkerInv, Initialised
  <2> QED BY <2>2, <2>5, <1>1, <1>3, AckedKept DEF IInv
<1> QED BY <1>6, <1>7, <1>8, <1>9

\* The worker is among the revisions with these fields.
AtRevisions(t, n, todo) ==
    /\ worker'.pc = "profiles"
    /\ worker'.req = t
    /\ worker'.acked = worker.acked
    /\ worker'.listed = n
    /\ worker'.todo = todo

\* What has to be shown when the worker goes on to the next revision.
LEMMA RevisionsKeep ==
    ASSUME IInv, StepOK, worker.pc \in {"list", "profiles", "fixed"},
           NEW t \in Tenants, t = worker.req, UNCHANGED tenant,
           NEW n \in 0 .. Len(os'[t]), NEW todo \in SUBSET Revisions,
           \A r \in Revisions \ todo : ProfileId[r] \in Ids(os'[t]),
           AtRevisions(t, n, todo)
    PROVE  IInv'
<1>1. worker.acked \in BOOLEAN
    BY DEF IInv, TypeOK
<1>2. TypeOK'
    BY <1>1 DEF AtRevisions, StepOK, ResourcesOK, TypeOK
<1>3. worker.acked => Initialised(t)'
    BY GrowsInitialised DEF IInv, WorkerInv, StepOK
<1>4. WorkerInv'
    BY <1>3 DEF AtRevisions, WorkerInv, Initialised
<1>5. AckedIsInitialised'
    BY AckedKept DEF StepOK
<1> QED BY <1>2, <1>4, <1>5 DEF IInv

LEMMA ListOSKeeps ==
    ASSUME IInv, ListOS
    PROVE  IInv'
<1>1. UNCHANGED <<tenant, os, provider>>
    BY DEF ListOS, CallFails, inventory
<1>2. worker.pc = "list"
    BY DEF ListOS
<1>. PICK t \in Tenants : t = worker.req
    BY <1>2 DEF IInv, TypeOK
<1>3. OSGrows
    BY <1>1, GrowsSame DEF IInv
<1>4. waiting' \in {waiting, waiting \cup {t}} /\ (UNCHANGED faults \/ Fault)
    BY DEF ListOS, ListAllResources, CallFails, Continue, GiveUp
<1>5. StepOK
    BY <1>1, <1>2, <1>3, <1>4, StepType DEF IInv, TypeOK, ListOS
<1>6. CASE CallFails
    BY <1>1, <1>5, <1>6, EndKeeps DEF CallFails, GiveUp
<1>7. CASE \E n \in 0 .. Len(os[t]) :
              worker' = [pc |-> "profiles", req |-> t, acked |-> worker.acked,
                         listed |-> n, todo |-> Revisions]
  <2>1. PICK n \in 0 .. Len(os[t]) :
              worker' = [pc |-> "profiles", req |-> t, acked |-> worker.acked,
                         listed |-> n, todo |-> Revisions]
    BY <1>7
  <2>2. AtRevisions(t, n, Revisions)
    BY <2>1 DEF AtRevisions
  <2>3. n \in 0 .. Len(os'[t])
    BY <1>1
  <2> QED BY <1>1, <1>2, <1>5, <2>2, <2>3, RevisionsKeep
<1> QED BY <1>6, <1>7 DEF ListOS, Continue

\* A revision that is done leaves its OS resource behind.
LEMMA RevisionDone ==
    ASSUME IInv, StepOK, worker.pc \in {"profiles", "fixed"},
           NEW t \in Tenants, t = worker.req, UNCHANGED tenant,
           NEW r \in Revisions, ProfileId[r] \in Ids(os'[t]),
           worker' = Finish(r)
    PROVE  IInv'
<1>1. worker.listed \in 0 .. Len(os[t]) /\ worker.todo \subseteq Revisions
    BY DEF IInv, TypeOK
<1>2. Len(os[t]) \in Nat /\ Len(os'[t]) \in Nat /\ Len(os[t]) =< Len(os'[t])
    BY DEF IInv, TypeOK, StepOK, ResourcesOK, OSGrows
<1>3. worker.listed \in 0 .. Len(os'[t])
    BY <1>1, <1>2
<1>4. AtRevisions(t, worker.listed, worker.todo \ {r})
    BY DEF AtRevisions, Finish
<1>5. \A s \in Revisions \ (worker.todo \ {r}) : ProfileId[s] \in Ids(os'[t])
    BY GrowsIds DEF IInv, WorkerInv, StepOK
<1> QED BY <1>1, <1>3, <1>4, <1>5, RevisionsKeep

LEMMA CreateOSKeeps ==
    ASSUME IInv, NEW r \in Revisions, CreateOS(r)
    PROVE  IInv'
<1>1. worker.pc = "profiles" /\ UNCHANGED <<tenant, provider>>
    BY DEF CreateOS
<1>. PICK t \in Tenants : t = worker.req
    BY <1>1 DEF IInv, TypeOK
<1>2. PICK e, f \in {0, feed} :
        LET created == [os EXCEPT ![t] =
                 Append(@, [id |-> ProfileId[r], existing |-> e, fixed |-> f])]
        IN  \/ /\ os' = created
               /\ UNCHANGED faults \/ Fault
               /\ worker' = Finish(r) /\ UNCHANGED waiting
            \/ /\ Fault
               /\ os' \in {os, created}
               /\ GiveUp
    BY DEF CreateOS, Continue
<1> DEFINE rec == [id |-> ProfileId[r], existing |-> e, fixed |-> f]
<1>3. rec \in OSResource
  <2>1. e \in 0 .. MaxFeed /\ f \in 0 .. MaxFeed
    BY OSTenantAssumption DEF IInv, TypeOK
  <2> QED BY <2>1 DEF OSResource, ProfileIds
<1>4. OSGrows
    BY <1>2, <1>3, GrowsSame, GrowsAppend DEF IInv
<1>5. waiting' \in {waiting, waiting \cup {t}} /\ (UNCHANGED faults \/ Fault)
    BY <1>2 DEF GiveUp
<1>6. StepOK
    BY <1>1, <1>4, <1>5, StepType DEF IInv, TypeOK, CreateOS
<1>7. CASE worker' = Idle
    BY <1>1, <1>6, <1>7, EndKeeps
<1>8. CASE worker' = Finish(r) /\ os' = [os EXCEPT ![t] = Append(@, rec)]
  <2>1. /\ Len(os'[t]) = Len(os[t]) + 1
        /\ os'[t][Len(os[t]) + 1] = rec
    BY <1>3, <1>8, GrowsAppend DEF IInv
  <2>2. Len(os[t]) \in Nat /\ os'[t] \in Seq(OSResource)
    BY <1>4 DEF IInv, TypeOK, OSGrows
  <2>3. Len(os[t]) + 1 \in DOMAIN os'[t]
    BY <2>1, <2>2
  <2>4. ProfileId[r] \in Ids(os'[t])
    BY <2>1, <2>3 DEF Ids
  <2> QED BY <1>1, <1>6, <1>8, <2>4, RevisionDone
<1> QED BY <1>2, <1>7, <1>8 DEF GiveUp

\* A revision that was listed has its OS resource.
LEMMA KnownExists ==
    ASSUME TypeOK, worker.pc \in {"profiles", "fixed"},
           NEW t \in Tenants, t = worker.req, NEW r \in Revisions, Known(r)
    PROVE  ProfileId[r] \in Ids(os[t])
<1>1. worker.listed \in 0 .. Len(os[t]) /\ os[t] \in Seq(OSResource)
    BY DEF TypeOK
<1>2. PICK k \in 1 .. worker.listed : os[t][k].id = ProfileId[r]
    BY DEF Known
<1>3. k \in DOMAIN os[t]
    BY <1>1, <1>2
<1> QED BY <1>2, <1>3 DEF Ids

LEMMA SkipOSKeeps ==
    ASSUME IInv, NEW r \in Revisions, SkipOS(r)
    PROVE  IInv'
<1>1. UNCHANGED <<tenant, os, provider>> /\ worker.pc = "profiles"
    BY DEF SkipOS, inventory
<1>. PICK t \in Tenants : t = worker.req
    BY <1>1 DEF IInv, TypeOK
<1>2. OSGrows
    BY <1>1, GrowsSame DEF IInv
<1>3. StepOK
    BY <1>1, <1>2, StepType DEF IInv, TypeOK, SkipOS, Continue
<1>4. ProfileId[r] \in Ids(os'[t])
    BY <1>1, KnownExists DEF SkipOS, IInv
<1> QED BY <1>1, <1>3, <1>4, RevisionDone DEF SkipOS, Continue

\* What the refresh of one list may do.
LEMMA RefreshStep ==
    ASSUME IInv, worker.pc \in {"profiles", "fixed"},
           UNCHANGED <<tenant, provider, feed, events, periodic, loop>>,
           NEW r, NEW field \in {"existing", "fixed"}, NEW next, Refresh(r, field, next)
    PROVE  /\ StepOK
           /\ worker' = Idle \/ worker' = next
           /\ \A t \in Tenants : Len(os'[t]) = Len(os[t])
<1>1. os' = os \/ os' = Written(r, field)
    BY DEF Refresh, Written
<1>2. OSGrows /\ \A t \in Tenants : Len(os'[t]) = Len(os[t])
    BY <1>1, GrowsSame, GrowsWritten DEF IInv
<1>3. waiting' \in {waiting, waiting \cup {worker.req}} /\ (UNCHANGED faults \/ Fault)
    BY DEF Refresh, Continue, GiveUp
<1>4. worker' = Idle \/ worker' = next
    BY DEF Refresh, Continue, GiveUp
<1>5. StepOK
    BY <1>2, <1>3, StepType DEF IInv, TypeOK
<1> QED BY <1>2, <1>4, <1>5

LEMMA RefreshExistingKeeps ==
    ASSUME IInv, NEW r \in Revisions, RefreshExisting(r)
    PROVE  IInv'
<1> DEFINE next == [pc |-> "fixed", req |-> worker.req, acked |-> worker.acked,
                    listed |-> worker.listed, todo |-> worker.todo, rev |-> r]
<1>1. /\ worker.pc = "profiles" /\ r \in worker.todo /\ Known(r)
      /\ UNCHANGED <<tenant, provider, feed, events, periodic, loop>>
      /\ Refresh(r, "existing", next)
    BY DEF RefreshExisting
<1> HIDE DEF next
<1>2. /\ StepOK
      /\ worker' = Idle \/ worker' = next
      /\ \A t \in Tenants : Len(os'[t]) = Len(os[t])
    BY <1>1, RefreshStep
<1>. PICK t \in Tenants : t = worker.req
    BY <1>1 DEF IInv, TypeOK
<1>3. CASE worker' = Idle
    BY <1>1, <1>2, <1>3, EndKeeps
<1>4. CASE worker' = next
  <2>1. /\ worker'.pc = "fixed" /\ worker'.req = t /\ worker'.acked = worker.acked
        /\ worker'.listed = worker.listed /\ worker'.todo = worker.todo /\ worker'.rev = r
    BY <1>4 DEF next
  <2>2. /\ worker.acked \in BOOLEAN /\ worker.listed \in 0 .. Len(os'[t])
        /\ worker.todo \subseteq Revisions
    BY <1>1, <1>2 DEF IInv, TypeOK
  <2>3. \E k \in 1 .. worker.listed : os'[t][k].id = ProfileId[r]
    <3>1. PICK k \in 1 .. worker.listed : os[t][k].id = ProfileId[r]
        BY <1>1 DEF Known
    <3>2. k \in 1 .. Len(os[t])
        BY <1>1 DEF IInv, TypeOK
    <3> QED BY <1>2, <3>1, <3>2 DEF StepOK, OSGrows
  <2>4. Known(r)'
    BY <2>1, <2>3 DEF Known
  <2>5. TypeOK'
    BY <1>1, <1>2, <2>1, <2>2, <2>4 DEF StepOK, ResourcesOK, TypeOK
  <2>6. worker.acked => Initialised(t)'
    BY <1>1, <1>2, GrowsInitialised DEF IInv, WorkerInv, StepOK
  <2>7. \A q \in Revisions \ worker.todo : ProfileId[q] \in Ids(os'[t])
    BY <1>1, <1>2, GrowsIds DEF IInv, WorkerInv, StepOK
  <2>8. WorkerInv'
    BY <2>1, <2>6, <2>7 DEF WorkerInv, Initialised
  <2> QED BY <1>1, <1>2, <2>5, <2>8, AckedKept DEF IInv, StepOK
<1> QED BY <1>2, <1>3, <1>4

LEMMA RefreshFixedKeeps ==
    ASSUME IInv, RefreshFixed
    PROVE  IInv'
<1>1. /\ worker.pc = "fixed"
      /\ UNCHANGED <<tenant, provider, feed, events, periodic, loop>>
      /\ Refresh(worker.rev, "fixed", Finish(worker.rev))
    BY DEF RefreshFixed
<1>2. worker.rev \in Revisions /\ Known(worker.rev)
    BY <1>1 DEF IInv, TypeOK
<1>3. StepOK /\ (worker' = Idle \/ worker' = Finish(worker.rev))
    BY <1>1, RefreshStep
<1>. PICK t \in Tenants : t = worker.req
    BY <1>1 DEF IInv, TypeOK
<1>4. CASE worker' = Idle
    BY <1>1, <1>3, <1>4, EndKeeps
<1>5. CASE worker' = Finish(worker.rev)
  <2>1. PICK r \in Revisions : r = worker.rev
    BY <1>2
  <2>2. ProfileId[r] \in Ids(os[t])
    BY <1>1, <1>2, <2>1, KnownExists DEF IInv
  <2>3. ProfileId[r] \in Ids(os'[t])
    BY <2>2, <1>3, GrowsIds DEF IInv, StepOK
  <2> QED BY <1>1, <1>3, <1>5, <2>1, <2>3, RevisionDone
<1> QED BY <1>3, <1>4, <1>5

\* Every revision has been dealt with.
LEMMA CheckProviderKeeps ==
    ASSUME IInv, CheckProvider
    PROVE  IInv'
<1>1. worker.pc = "profiles" /\ UNCHANGED <<tenant, os, provider>>
    BY DEF CheckProvider, inventory
<1>. PICK t \in Tenants : t = worker.req
    BY <1>1 DEF IInv, TypeOK
<1>2. OSGrows
    BY <1>1, GrowsSame DEF IInv
<1>3. waiting' \in {waiting, waiting \cup {t}} /\ (UNCHANGED faults \/ Fault)
    BY DEF CheckProvider, Continue, GiveUp
<1>4. StepOK
    BY <1>1, <1>2, <1>3, StepType DEF IInv, TypeOK, CheckProvider
<1>5. ProfileIds \subseteq Ids(os[t])
    BY <1>1 DEF CheckProvider, IInv, WorkerInv, ProfileIds
<1>6. worker.acked \in BOOLEAN /\ (worker.acked => Initialised(t))
    BY <1>1 DEF IInv, TypeOK, WorkerInv
<1>7. AckedIsInitialised'
    BY <1>1, <1>2, AckedKept
<1>8. CASE worker' = Idle
    BY <1>1, <1>4, <1>8, EndKeeps
<1>9. CASE worker' = ToAck /\ (~Automation \/ worker.acked \/ t \in provider)
  <2>1. worker'.pc = "ack" /\ worker'.req = t /\ worker'.acked = worker.acked
    BY <1>9 DEF ToAck
  <2>2. Automation => t \in provider
    BY <1>6, <1>9 DEF Initialised
  <2>3. TypeOK'
    BY <1>4, <1>6, <2>1 DEF StepOK, ResourcesOK, TypeOK
  <2>4. WorkerInv'
    BY <1>1, <1>5, <2>1, <2>2 DEF WorkerInv, Initialised
  <2> QED BY <1>7, <2>3, <2>4 DEF IInv
<1>10. CASE worker' = [pc |-> "provider", req |-> worker.req, acked |-> FALSE]
  <2>1. worker'.pc = "provider" /\ worker'.req = t /\ worker'.acked = FALSE
    BY <1>10
  <2>2. TypeOK'
    BY <1>4, <2>1 DEF StepOK, ResourcesOK, TypeOK
  <2>3. WorkerInv'
    BY <1>1, <1>5, <2>1 DEF WorkerInv
  <2> QED BY <1>7, <2>2, <2>3 DEF IInv
<1> QED BY <1>8, <1>9, <1>10 DEF CheckProvider, Continue, GiveUp

LEMMA CreateProviderKeeps ==
    ASSUME IInv, CreateProvider
    PROVE  IInv'
<1>1. worker.pc = "provider" /\ UNCHANGED <<tenant, os>>
    BY DEF CreateProvider
<1>. PICK t \in Tenants : t = worker.req
    BY <1>1 DEF IInv, TypeOK
<1>2. OSGrows
    BY <1>1, GrowsSame DEF IInv
<1>3. /\ waiting' \in {waiting, waiting \cup {t}} /\ (UNCHANGED faults \/ Fault)
      /\ provider' \in {provider, provider \cup {t}}
      /\ worker' = Idle \/ (worker' = ToAck /\ t \in provider')
    BY DEF CreateProvider, ProviderFailure, Continue, GiveUp
<1>4. StepOK
    BY <1>1, <1>2, <1>3, StepType DEF IInv, TypeOK, CreateProvider
<1>5. CASE worker' = Idle
    BY <1>1, <1>4, <1>5, EndKeeps
<1>6. CASE worker' = ToAck /\ t \in provider'
  <2>1. worker'.pc = "ack" /\ worker'.req = t /\ worker'.acked = worker.acked
    BY <1>6 DEF ToAck
  <2>2. worker.acked \in BOOLEAN /\ ProfileIds \subseteq Ids(os[t])
    BY <1>1 DEF IInv, TypeOK, WorkerInv
  <2>3. TypeOK'
    BY <1>4, <2>1, <2>2 DEF StepOK, ResourcesOK, TypeOK
  <2>4. WorkerInv'
    BY <1>1, <1>6, <2>1, <2>2 DEF WorkerInv, Initialised
  <2>5. AckedIsInitialised'
    BY <1>1, <1>4, AckedKept DEF StepOK
  <2> QED BY <2>3, <2>4, <2>5 DEF IInv
<1> QED BY <1>3, <1>5, <1>6

\* The flag is set when both parts of the promise hold.
LEMMA WriteWatcherKeeps ==
    ASSUME IInv, NEW flag \in BOOLEAN, WriteWatcher(flag),
           UNCHANGED <<os, provider, feed, events, periodic, loop>>,
           NEW t \in Tenants, t = worker.req, worker.pc # "idle",
           flag => Initialised(t)
    PROVE  IInv'
<1>1. OSGrows
    BY GrowsSame DEF IInv
<1>2. /\ worker' = Idle /\ (UNCHANGED faults \/ Fault)
      /\ waiting' \in {waiting, waiting \cup {t}}
      /\ tenant' \in {tenant, UpdateTenantOSWatcher(t, flag)}
    BY DEF WriteWatcher, Done, GiveUp
<1>3. tenant \in [Tenants -> Tenant]
    BY DEF IInv, TypeOK
<1>4. /\ UpdateTenantOSWatcher(t, flag) \in [Tenants -> Tenant]
      /\ \A s \in Tenants : UpdateTenantOSWatcher(t, flag)[s].watcher =>
                               tenant[s].watcher \/ (s = t /\ flag)
    BY <1>3 DEF UpdateTenantOSWatcher, Tenant
<1>5. StepOK
    BY <1>1, <1>2, <1>3, <1>4, StepType DEF IInv
<1>6. TypeOK' /\ WorkerInv'
    BY <1>2, <1>5, IdleKeeps DEF IInv, StepOK
<1>7. \A s \in Tenants : tenant'[s].watcher => Initialised(s)
    BY <1>2, <1>4 DEF IInv, AckedIsInitialised
<1>8. AckedIsInitialised'
    BY <1>7 DEF AckedIsInitialised, Initialised
<1> QED BY <1>6, <1>8 DEF IInv

LEMMA AckTenantKeeps ==
    ASSUME IInv, AckTenant
    PROVE  IInv'
<1>1. worker.pc = "ack" /\ UNCHANGED <<os, provider, feed, events, periodic, loop>>
    BY DEF AckTenant
<1>. PICK t \in Tenants : t = worker.req
    BY <1>1 DEF IInv, TypeOK
<1>2. Initialised(t)
    BY <1>1 DEF IInv, WorkerInv, Initialised
<1>3. CASE WriteWatcher(TRUE)
    BY <1>1, <1>2, <1>3, WriteWatcherKeeps
<1>4. CASE Done /\ UNCHANGED <<tenant, faults>>
  <2>1. OSGrows
    BY <1>1, GrowsSame DEF IInv
  <2>2. StepOK
    BY <1>1, <1>4, <2>1, StepType DEF IInv, TypeOK, Done
  <2> QED BY <1>4, <2>2, EndKeeps DEF Done
<1> QED BY <1>3, <1>4 DEF AckTenant

LEMMA ReleaseTenantKeeps ==
    ASSUME IInv, ReleaseTenant
    PROVE  IInv'
<1>1. worker.pc = "release" /\ UNCHANGED <<os, provider, feed, events, periodic, loop>>
    BY DEF ReleaseTenant
<1>. PICK t \in Tenants : t = worker.req
    BY <1>1 DEF IInv, TypeOK
<1> QED BY <1>1, WriteWatcherKeeps DEF ReleaseTenant

-----------------------------------------------------------------------------
(* The theorems *)

LEMMA Inductive ==
    IInv /\ [Next]_vars => IInv'
<1> SUFFICES ASSUME IInv, [Next]_vars PROVE IInv'
    OBVIOUS
<1>1. CASE UNCHANGED vars
  <2>1. UNCHANGED <<tenant, os, provider, worker>> /\ ResourcesOK' /\ OSGrows
    BY <1>1, GrowsSame DEF vars, IInv, TypeOK, ResourcesOK
  <2> QED BY <2>1, StillKeeps, AckedKept DEF IInv
<1>2. CASE \E t \in Tenants : HandleEvent(t) \/ Take(t)
    BY <1>2, LoopKeeps, TakeKeeps
<1>3. CASE Tick \/ ReconcileAll \/ Restart \/ PublishCVEs
    BY <1>3, LoopKeeps
<1>4. CASE Reconcile
    BY <1>4, ReadTenantKeeps, ListOSKeeps, CreateOSKeeps, SkipOSKeeps,
       RefreshExistingKeeps, RefreshFixedKeeps, CheckProviderKeeps,
       CreateProviderKeeps, AckTenantKeeps, ReleaseTenantKeeps DEF Reconcile
<1>5. CASE \E t \in Tenants : CreateTenant(t) \/ DeleteTenant(t) \/ RemoveTenant(t)
    BY <1>5, WorldKeeps
<1> QED BY <1>1, <1>2, <1>3, <1>4, <1>5 DEF Next, World

\* Type correctness: the resources, the queue, and what the worker holds at each
\* of its steps, through events, ticks, failures and restarts.
THEOREM TenantTypeCorrect == Spec => []TypeOK
<1>1. Spec => []IInv
    BY Initially, Inductive, PTL DEF Spec
<1>2. IInv => TypeOK
    BY DEF IInv
<1> QED BY <1>1, <1>2, PTL

\* An acknowledged tenant has all its OS resources and its provider, wherever
\* calls failed half-way, were retried, or the manager died.
THEOREM AckKeepsItsPromise == Spec => []AckedIsInitialised
<1>1. Spec => []IInv
    BY Initially, Inductive, PTL DEF Spec
<1>2. IInv => AckedIsInitialised
    BY DEF IInv
<1> QED BY <1>1, <1>2, PTL

-----------------------------------------------------------------------------
(* No OS resource is created twice *)

DistinctProfiles == \A r, s \in Revisions : ProfileId[r] = ProfileId[s] => r = s

\* What the worker does not know of its remaining revisions does not exist: it
\* is the only one that creates, and it lists before it does.
FreshInv ==
    worker.pc \in {"profiles", "fixed"} =>
        \A r \in worker.todo : ~Known(r) => ProfileId[r] \notin Ids(os[worker.req])

\* The worker stays among the revisions of the same reconciliation.
SameList ==
    /\ worker.pc \in {"profiles", "fixed"}
    /\ worker'.req = worker.req
    /\ worker'.listed = worker.listed
    /\ worker'.todo \subseteq worker.todo

\* A step that creates nothing.
LEMMA NothingCreated ==
    ASSUME IInv, OneOSPerProfile, FreshInv, OSGrows,
           \A t \in Tenants : Len(os'[t]) = Len(os[t]),
           worker'.pc \in {"profiles", "fixed"} => SameList
    PROVE  OneOSPerProfile' /\ FreshInv'
<1>1. \A t \in Tenants : /\ os[t] \in Seq(OSResource) /\ os'[t] \in Seq(OSResource)
                         /\ Len(os[t]) \in Nat
                         /\ DOMAIN os[t] = 1 .. Len(os[t])
                         /\ DOMAIN os'[t] = DOMAIN os[t]
    BY DEF IInv, TypeOK, OSGrows
<1>2. \A t \in Tenants : \A k \in DOMAIN os[t] : os'[t][k].id = os[t][k].id
    BY <1>1 DEF OSGrows
<1>3. OneOSPerProfile'
    BY <1>1, <1>2 DEF OneOSPerProfile
<1>4. \A t \in Tenants : Ids(os'[t]) = Ids(os[t])
    BY <1>1, <1>2 DEF Ids
<1>5. ASSUME worker'.pc \in {"profiles", "fixed"}, NEW r \in worker'.todo, ~Known(r)'
      PROVE  ProfileId[r] \notin Ids(os'[worker'.req])
  <2>1. SameList
    BY <1>5
  <2>. PICK t \in Tenants : t = worker.req
    BY <2>1 DEF SameList, IInv, TypeOK
  <2>2. worker.listed \in 0 .. Len(os[t])
    BY <2>1 DEF SameList, IInv, TypeOK
  <2>3. \A k \in 1 .. worker.listed : os'[t][k].id = os[t][k].id
    BY <1>1, <1>2, <2>2
  <2>4. ~Known(r)
    BY <1>5, <2>1, <2>3 DEF Known, SameList
  <2>5. ProfileId[r] \notin Ids(os[t])
    BY <1>5, <2>1, <2>4 DEF FreshInv, SameList
  <2> QED BY <1>4, <2>1, <2>5 DEF SameList
<1> QED BY <1>3, <1>5 DEF FreshInv

LEMMA ListOSFresh ==
    ASSUME IInv, OneOSPerProfile, FreshInv, ListOS
    PROVE  OneOSPerProfile' /\ FreshInv'
<1>1. worker.pc = "list" /\ UNCHANGED os
    BY DEF ListOS, CallFails, inventory
<1>. PICK t \in Tenants : t = worker.req
    BY <1>1 DEF IInv, TypeOK
<1>2. CASE worker' = Idle
    BY <1>1, <1>2, GrowsSame, NothingCreated DEF Idle, IInv
<1>3. CASE worker' = [pc |-> "profiles", req |-> t, acked |-> worker.acked,
                      listed |-> Len(os[t]), todo |-> Revisions]
  <2>1. worker'.req = t /\ worker'.listed = Len(os'[t])
    BY <1>1, <1>3
  <2>2. DOMAIN os'[t] = 1 .. Len(os'[t])
    BY <1>1 DEF IInv, TypeOK
  <2>3. \A r : Known(r)' <=> ProfileId[r] \in Ids(os'[t])
    BY <2>1, <2>2 DEF Known, Ids
  <2>4. FreshInv'
    BY <2>1, <2>3 DEF FreshInv
  <2> QED BY <1>1, <2>4 DEF OneOSPerProfile
<1> QED BY <1>2, <1>3 DEF ListOS, ListAllResources, CallFails, GiveUp, Continue

\* The resource that is created has a new key, and the keys of the revisions
\* that remain are others.
LEMMA CreateOSFresh ==
    ASSUME DistinctProfiles, IInv, OneOSPerProfile, FreshInv,
           NEW r \in Revisions, CreateOS(r)
    PROVE  OneOSPerProfile' /\ FreshInv'
<1>1. /\ worker.pc = "profiles" /\ r \in worker.todo /\ ~Known(r)
      /\ worker' = Idle \/ worker' = Finish(r)
    BY DEF CreateOS, Continue, GiveUp
<1>. PICK t \in Tenants : t = worker.req
    BY <1>1 DEF IInv, TypeOK
<1>2. worker'.pc \in {"profiles", "fixed"} => SameList /\ worker'.todo = worker.todo \ {r}
    BY <1>1 DEF SameList, Idle, Finish
<1>3. CASE os' = os
    BY <1>2, <1>3, GrowsSame, NothingCreated DEF IInv
<1>4. CASE \E e, f \in {0, feed} : os' = [os EXCEPT ![t] =
                 Append(@, [id |-> ProfileId[r], existing |-> e, fixed |-> f])]
  <2>1. PICK e, f \in {0, feed} : os' = [os EXCEPT ![t] =
                 Append(@, [id |-> ProfileId[r], existing |-> e, fixed |-> f])]
    BY <1>4
  <2> DEFINE rec == [id |-> ProfileId[r], existing |-> e, fixed |-> f]
             n == Len(os[t])
  <2>2. e \in 0 .. MaxFeed /\ f \in 0 .. MaxFeed
    BY OSTenantAssumption DEF IInv, TypeOK
  <2>3. rec \in OSResource /\ rec.id = ProfileId[r]
    BY <2>2 DEF OSResource, ProfileIds
  <2> HIDE DEF rec
  <2>4. os' = [os EXCEPT ![t] = Append(@, rec)]
    BY <2>1 DEF rec
  <2>5. /\ OSGrows
        /\ Len(os'[t]) = n + 1
        /\ os'[t][n + 1] = rec
        /\ \A k \in 1 .. n : os'[t][k] = os[t][k]
        /\ \A s \in Tenants \ {t} : os'[s] = os[s]
    BY <2>3, <2>4, GrowsAppend DEF IInv
  <2>6. n \in Nat /\ DOMAIN os[t] = 1 .. n /\ DOMAIN os'[t] = 1 .. n + 1
    BY <2>5 DEF IInv, TypeOK, OSGrows
  <2> HIDE DEF n
  <2>7. ProfileId[r] \notin Ids(os[t])
    BY <1>1 DEF FreshInv
  <2>8. \A k \in 1 .. n : os'[t][k].id # ProfileId[r]
    BY <2>5, <2>6, <2>7 DEF Ids
  <2>9. \A k \in DOMAIN os'[t] : k \in 1 .. n \/ k = n + 1
    BY <2>6
  <2>10. \A j, k \in DOMAIN os'[t] : os'[t][j].id = os'[t][k].id => j = k
    BY <2>3, <2>5, <2>6, <2>8, <2>9 DEF OneOSPerProfile
  <2>11. OneOSPerProfile'
    BY <2>5, <2>10 DEF OneOSPerProfile
  <2>12. ASSUME worker'.pc \in {"profiles", "fixed"}, NEW s \in worker'.todo, ~Known(s)'
         PROVE  ProfileId[s] \notin Ids(os'[worker'.req])
    <3>1. SameList /\ s \in worker.todo /\ s # r
      BY <1>2, <2>12
    <3>2. worker.listed \in 0 .. n /\ s \in Revisions
      BY <1>1, <3>1 DEF IInv, TypeOK, n
    <3>3. \A k \in 1 .. worker.listed : os'[t][k] = os[t][k]
      BY <2>5, <2>6, <3>2
    <3>4. ~Known(s)
      BY <2>12, <3>1, <3>3 DEF Known, SameList
    <3>5. ProfileId[s] \notin Ids(os[t]) /\ ProfileId[s] # ProfileId[r]
      BY <1>1, <3>1, <3>2, <3>4 DEF FreshInv, DistinctProfiles
    <3>6. \A k \in DOMAIN os'[t] : os'[t][k].id # ProfileId[s]
      BY <2>3, <2>5, <2>6, <2>9, <3>5 DEF Ids
    <3> QED BY <3>1, <3>6 DEF Ids, SameList
  <2> QED BY <2>11, <2>12 DEF FreshInv
<1> QED BY <1>3, <1>4 DEF CreateOS

\* All the other steps.
LEMMA OthersFresh ==
    ASSUME IInv, OneOSPerProfile, FreshInv, [Next]_vars,
           ~ListOS, ~\E r \in Revisions : CreateOS(r)
    PROVE  OneOSPerProfile' /\ FreshInv'
<1>1. CASE \E r \in Revisions : RefreshExisting(r)
  <2>1. PICK r \in Revisions : RefreshExisting(r)
    BY <1>1
  <2> DEFINE next == [pc |-> "fixed", req |-> worker.req, acked |-> worker.acked,
                      listed |-> worker.listed, todo |-> worker.todo, rev |-> r]
  <2>2. /\ worker.pc = "profiles" /\ Refresh(r, "existing", next)
        /\ UNCHANGED <<tenant, provider, feed, events, periodic, loop>>
    BY <2>1 DEF RefreshExisting
  <2>3. worker'.pc \in {"profiles", "fixed"} => SameList
    BY <2>2 DEF Refresh, Continue, GiveUp, Idle, SameList
  <2> QED BY <2>2, <2>3, RefreshStep, NothingCreated DEF StepOK
<1>2. CASE RefreshFixed
  <2>1. /\ worker.pc = "fixed" /\ Refresh(worker.rev, "fixed", Finish(worker.rev))
        /\ UNCHANGED <<tenant, provider, feed, events, periodic, loop>>
    BY <1>2 DEF RefreshFixed
  <2>2. worker'.pc \in {"profiles", "fixed"} => SameList
    BY <2>1 DEF Refresh, Finish, Continue, GiveUp, Idle, SameList
  <2> QED BY <2>1, <2>2, RefreshStep, NothingCreated DEF StepOK
<1>3. CASE \E r \in Revisions : SkipOS(r)
  <2>1. UNCHANGED os /\ SameList
    BY <1>3 DEF SkipOS, Continue, Finish, SameList, inventory
  <2> QED BY <2>1, GrowsSame, NothingCreated DEF IInv
<1>4. CASE UNCHANGED os /\ (worker' = worker \/ worker'.pc \notin {"profiles", "fixed"})
    BY <1>4, GrowsSame, NothingCreated DEF IInv, SameList
<1>5. CASE \/ UNCHANGED vars
           \/ \E t \in Tenants : HandleEvent(t) \/ Take(t)
           \/ Tick \/ ReconcileAll \/ World
    BY <1>4, <1>5 DEF vars, HandleEvent, Take, Tick, ReconcileAll, World, inventory,
       CreateTenant, DeleteTenant, RemoveTenant, Becomes, PublishCVEs, Restart, Idle
<1>6. CASE ReadTenant \/ CheckProvider \/ CreateProvider \/ AckTenant \/ ReleaseTenant
  <2>1. UNCHANGED os
    BY <1>6 DEF ReadTenant, CheckProvider, CreateProvider, AckTenant, ReleaseTenant,
       CallFails, inventory
  <2>2. \/ worker' = Idle
        \/ worker' = ToAck
        \/ worker'.pc \in {"list", "release", "provider"}
    <3>1. CASE ReadTenant
      BY <3>1 DEF ReadTenant, CallFails, Continue, GiveUp, Done
    <3>2. CASE CheckProvider
      BY <3>2 DEF CheckProvider, Continue, GiveUp
    <3>3. CASE CreateProvider \/ AckTenant \/ ReleaseTenant
      BY <3>3 DEF CreateProvider, AckTenant, ReleaseTenant, Continue, GiveUp, Done,
         WriteWatcher, ProviderFailure
    <3> QED BY <1>6, <3>1, <3>2, <3>3
  <2> QED BY <1>4, <2>1, <2>2 DEF ToAck, Idle
<1> QED BY <1>1, <1>2, <1>3, <1>5, <1>6 DEF Next, Reconcile

\* No OS resource is created a second time for a revision, when the revisions
\* of the enabled profiles differ in name or image version.
THEOREM OneResourcePerProfile ==
    ASSUME DistinctProfiles
    PROVE  Spec => []OneOSPerProfile
<1>1. Init => IInv /\ OneOSPerProfile /\ FreshInv
    BY Initially DEF Init, OneOSPerProfile, FreshInv, Idle
<1>2. IInv /\ OneOSPerProfile /\ FreshInv /\ [Next]_vars =>
          IInv' /\ OneOSPerProfile' /\ FreshInv'
    BY Inductive, ListOSFresh, CreateOSFresh, OthersFresh
<1> QED BY <1>1, <1>2, PTL DEF Spec

=============================================================================
