------------------------------- MODULE OSTenant -------------------------------
(***************************************************************************)
(* The OS resource manager (os-resource/internal): for every tenant whose  *)
(* desired state is CREATED it creates one OS resource per revision of the *)
(* enabled OS profiles and the onboarding provider, and then acknowledges  *)
(* the tenant; a tenant that shall be DELETED is released.                 *)
(*                                                                         *)
(* A control loop turns events and ticks into requests, a single worker    *)
(* (parallelism 1) serves them.  One global flag tells the worker whether  *)
(* the CVE lists are fetched.  Every Inventory call is a step; it may fail,*)
(* may be applied although it is reported as failed, and the manager may   *)
(* die between any two.                                                    *)
(***************************************************************************)
EXTENDS Integers, FiniteSets, SequencesExt

CONSTANTS
    Tenants,        \* identifiers of tenants
    Revisions,      \* revisions of the enabled profiles in the Release Service
    ProfileId,      \* profile name and image version of each revision
    Default,        \* first revision of the default profile
    Automation,     \* disableProviderAutomation is not set
    AutoProvision,  \* the provider refers to the default OS
    MaxFeed,        \* bound of the versions of the CVE lists
    MaxFaults       \* bound of the failing calls and restarts

ASSUME OSTenantAssumption ==
    /\ Default \in Revisions
    /\ Automation \in BOOLEAN
    /\ AutoProvision \in BOOLEAN
    /\ MaxFeed \in Nat \ {0}
    /\ MaxFaults \in Nat

VARIABLES
    tenant,     \* tenant resources
    os,         \* OS resources of each tenant, in the order of their creation
    provider,   \* tenants that have the provider "infra_onboarding"
    feed,       \* version of the CVE lists in the Release Service
    events,     \* tenants with a change notification in the Watcher channel
    periodic,   \* periodicReconciliationFlag
    loop,       \* what the control loop is doing
    waiting,    \* tenants in the queue of the reconciler, or waiting for a retry
    worker,     \* the reconciliation in progress
    faults      \* failures so far

inventory == <<tenant, os, provider>>
vars == <<tenant, os, provider, feed, events, periodic, loop, waiting, worker, faults>>

-----------------------------------------------------------------------------
(* Data *)

\* "none": not created yet, "gone": removed by the tenant controller.
Desired == {"none", "created", "deleted", "gone"}
Tenant  == [desired : Desired, watcher : BOOLEAN]
Exists(t) == tenant[t].desired \in {"created", "deleted"}

ProfileIds == {ProfileId[r] : r \in Revisions}

\* Version 0 of a CVE list is the empty text.
OSResource == [id : ProfileIds, existing : 0 .. MaxFeed, fixed : 0 .. MaxFeed]

Idle == [pc |-> "idle"]

Ids(list) == {list[k].id : k \in DOMAIN list}

\* The map of the OS resources that were listed has an entry.
Known(r) == \E k \in 1 .. worker.listed : os[worker.req][k].id = ProfileId[r]

\* Of two resources with the same key the map holds the later one.
IsKnownAs(r, k) ==
    /\ k =< worker.listed
    /\ os[worker.req][k].id = ProfileId[r]
    /\ \A m \in k + 1 .. worker.listed : os[worker.req][m].id # ProfileId[r]

Initialised(t) ==
    /\ ProfileIds \subseteq Ids(os[t])
    /\ Automation => t \in provider

-----------------------------------------------------------------------------
(* The end of a reconciliation *)

\* request.Ack
Done ==
    /\ worker' = Idle
    /\ UNCHANGED waiting

\* HandleInventoryError: the request is dropped or tried again, by the code of
\* the error.
GiveUp ==
    /\ worker' = Idle
    /\ waiting' \in {waiting, waiting \cup {worker.req}}

Continue(next) ==
    /\ worker' = next
    /\ UNCHANGED waiting

Fault ==
    /\ faults < MaxFaults
    /\ faults' = faults + 1

\* A call that fails before anything is changed.
CallFails ==
    /\ Fault
    /\ GiveUp
    /\ UNCHANGED inventory

-----------------------------------------------------------------------------
(* The control loop *)

\* An event of a tenant, of any kind.
HandleEvent(t) ==
    /\ loop = "events"
    /\ t \in events
    /\ events' = events \ {t}
    /\ periodic' = FALSE
    /\ waiting' = waiting \cup {t}
    /\ UNCHANGED <<inventory, feed, loop, worker, faults>>

\* Defect: the tick does not set the flag.
TickUnflagged ==
    /\ loop = "events"
    /\ loop' = "tick"
    /\ UNCHANGED <<inventory, feed, events, periodic, waiting, worker, faults>>

\* The ticker fires: reconcileAll(true) sets the flag first.
Tick ==
    /\ loop = "events"
    /\ loop' = "tick"
    /\ periodic' = TRUE
    /\ UNCHANGED <<inventory, feed, events, waiting, worker, faults>>

\* Defect: tenants that shall be deleted are not looked at.
CreatedTenants == {t \in Tenants : tenant[t].desired = "created"}

\* FindAllResources
AllTenants == {t \in Tenants : Exists(t)}

\* The rest of reconcileAll.  An error ends the tick; at the start it ends the
\* process, which starts again.
ReconcileAll ==
    /\ loop \in {"start", "tick"}
    /\ \/ /\ waiting' = waiting \cup AllTenants
          /\ loop' = "events"
          /\ UNCHANGED faults
       \/ /\ Fault
          /\ loop' = IF loop = "tick" THEN "events" ELSE "start"
          /\ UNCHANGED waiting
    /\ UNCHANGED <<inventory, feed, events, periodic, worker>>

-----------------------------------------------------------------------------
(* The worker *)

Take(t) ==
    /\ worker.pc = "idle"
    /\ t \in waiting
    /\ waiting' = waiting \ {t}
    /\ worker' = [pc |-> "tenant", req |-> t]
    /\ UNCHANGED <<inventory, feed, events, periodic, loop, faults>>

\* GetTenantByResourceID; a tenant that is gone is NotFound.
ReadTenant ==
    /\ worker.pc = "tenant"
    /\ LET t == worker.req IN
          \/ /\ tenant[t].desired = "created"
             /\ Continue([pc |-> "list", req |-> worker.req,
                          acked |-> tenant[t].watcher])
             /\ UNCHANGED <<inventory, faults>>
          \/ /\ tenant[t].desired = "deleted"
             /\ Continue([pc |-> "release", req |-> worker.req])
             /\ UNCHANGED <<inventory, faults>>
          \/ /\ ~Exists(t)
             /\ Done
             /\ UNCHANGED <<inventory, faults>>
          \/ CallFails
    /\ UNCHANGED <<feed, events, periodic, loop>>

\* Defect: a failed query is taken for an empty list.
ListAllResourcesLenient(n) ==
    \/ n = Len(os[worker.req]) /\ UNCHANGED faults
    \/ n = 0 /\ Fault

\* listAllResources tolerates NotFound only.
ListAllResources(n) == n = Len(os[worker.req]) /\ UNCHANGED faults

\* GetLatestOsProfiles and ListOSResourcesForTenant, and the map of what exists.
ListOS ==
    /\ worker.pc = "list"
    /\ \/ \E n \in 0 .. Len(os[worker.req]) :
             /\ ListAllResources(n)
             /\ Continue([pc |-> "profiles", req |-> worker.req, acked |-> worker.acked,
                          listed |-> n, todo |-> Revisions])
             /\ UNCHANGED inventory
       \/ CallFails
    /\ UNCHANGED <<feed, events, periodic, loop>>

\* On to the next revision.
Finish(r) == [pc |-> "profiles", req |-> worker.req, acked |-> worker.acked,
              listed |-> worker.listed, todo |-> worker.todo \ {r}]

\* createNewOSResourceFromOSProfile: the CVE lists are fetched when the flag is
\* set now, and an error of a fetch leaves the text empty.  The conversion, the
\* package manifest and the creation may fail, and the creation may be applied
\* all the same.
CreateOS(r) ==
    /\ worker.pc = "profiles"
    /\ r \in worker.todo
    /\ ~Known(r)
    /\ \E e, f \in {0, feed} :
          LET created == [os EXCEPT ![worker.req] =
                 Append(@, [id |-> ProfileId[r], existing |-> e, fixed |-> f])]
          IN  /\ periodic \/ (e = 0 /\ f = 0)
              /\ \/ /\ os' = created
                    /\ IF periodic /\ 0 \in {e, f} THEN Fault ELSE UNCHANGED faults
                    /\ Continue(Finish(r))
                 \/ /\ Fault
                    /\ os' \in {os, created}
                    /\ GiveUp
    /\ UNCHANGED <<tenant, provider, feed, events, periodic, loop>>

\* updateOSResourceFromOSProfile: nothing to do unless the flag is set now.
SkipOS(r) ==
    /\ worker.pc = "profiles"
    /\ r \in worker.todo
    /\ Known(r)
    /\ ~periodic
    /\ Continue(Finish(r))
    /\ UNCHANGED <<inventory, feed, events, periodic, loop, faults>>

\* One list of CVEs: fetched, compared, and written when it differs.
Refresh(r, field, next) ==
    LET t       == worker.req
        written == [os EXCEPT ![t] = [k \in DOMAIN @ |->
                      IF IsKnownAs(r, k) THEN [@[k] EXCEPT ![field] = feed] ELSE @[k]]]
    IN  \/ /\ os' = written
           /\ Continue(next)
           /\ UNCHANGED faults
        \/ /\ Fault
           /\ UNCHANGED os
           /\ Continue(next)
        \/ /\ written # os
           /\ Fault
           /\ os' \in {os, written}
           /\ GiveUp

RefreshExisting(r) ==
    /\ worker.pc = "profiles"
    /\ r \in worker.todo
    /\ Known(r)
    /\ periodic
    /\ Refresh(r, "existing",
               [pc |-> "fixed", req |-> worker.req, acked |-> worker.acked,
                listed |-> worker.listed, todo |-> worker.todo, rev |-> r])
    /\ UNCHANGED <<tenant, provider, feed, events, periodic, loop>>

RefreshFixed ==
    /\ worker.pc = "fixed"
    /\ Refresh(worker.rev, "fixed", Finish(worker.rev))
    /\ UNCHANGED <<tenant, provider, feed, events, periodic, loop>>

\* FindOSResourceID wants exactly one OS resource.
FindsDefault(t) ==
    Cardinality({k \in DOMAIN os[t] : os[t][k].id = ProfileId[Default]}) = 1

ToAck == [pc |-> "ack", req |-> worker.req, acked |-> worker.acked]

\* initializeProviderIfNeeded up to the creation.
CheckProvider ==
    /\ worker.pc = "profiles"
    /\ worker.todo = {}
    /\ LET t == worker.req IN
          \/ /\ ~Automation \/ worker.acked \/ t \in provider
             /\ Continue(ToAck)
             /\ UNCHANGED faults
          \/ /\ Automation /\ ~worker.acked /\ t \notin provider
             /\ IF AutoProvision => FindsDefault(t)
                THEN Continue([pc |-> "provider", req |-> worker.req, acked |-> FALSE])
                ELSE GiveUp
             /\ UNCHANGED faults
          \/ /\ Automation /\ ~worker.acked
             /\ Fault
             /\ GiveUp
    /\ UNCHANGED <<inventory, feed, events, periodic, loop>>

\* Defect: an error of the creation is only logged.
ProviderFailureEnds == Continue(ToAck)

ProviderFailure == GiveUp

\* CreateProvider; AlreadyExists counts as success.
CreateProvider ==
    /\ worker.pc = "provider"
    /\ LET added == provider \cup {worker.req} IN
          \/ /\ provider' = added
             /\ Continue(ToAck)
             /\ UNCHANGED faults
          \/ /\ Fault
             /\ provider' \in {provider, added}
             /\ ProviderFailure
    /\ UNCHANGED <<tenant, os, feed, events, periodic, loop>>

\* Defect: the update has no field mask.
UpdateWholeTenant(t, flag) ==
    IF Exists(t) THEN [tenant EXCEPT ![t] = [desired |-> "unspecified", watcher |-> flag]]
    ELSE tenant

\* UpdateTenantOSWatcher writes the one field; a tenant that is gone is NotFound.
UpdateTenantOSWatcher(t, flag) ==
    IF Exists(t) THEN [tenant EXCEPT ![t].watcher = flag] ELSE tenant

WriteWatcher(flag) ==
    LET written == UpdateTenantOSWatcher(worker.req, flag) IN
       \/ /\ tenant' = written
          /\ Done
          /\ UNCHANGED faults
       \/ /\ Fault
          /\ tenant' \in {tenant, written}
          /\ GiveUp

\* Defect: a tenant that has its provider counts as acknowledged.
AckNotNeededIfProvided == worker.acked \/ worker.req \in provider

\* ackOsWatcherIfNeeded looks at the tenant that was read at the start.
AckNotNeeded == worker.acked

AckTenant ==
    /\ worker.pc = "ack"
    /\ \/ AckNotNeeded /\ Done /\ UNCHANGED <<tenant, faults>>
       \/ ~AckNotNeeded /\ WriteWatcher(TRUE)
    /\ UNCHANGED <<os, provider, feed, events, periodic, loop>>

\* The desired state is DELETED.
ReleaseTenant ==
    /\ worker.pc = "release"
    /\ WriteWatcher(FALSE)
    /\ UNCHANGED <<os, provider, feed, events, periodic, loop>>

Reconcile ==
    \/ ReadTenant
    \/ ListOS
    \/ \E r \in Revisions : CreateOS(r) \/ SkipOS(r) \/ RefreshExisting(r)
    \/ RefreshFixed
    \/ CheckProvider
    \/ CreateProvider
    \/ AckTenant
    \/ ReleaseTenant

-----------------------------------------------------------------------------
(* The rest of the system *)

\* A notification may get lost.
Notify(t) == events' \in {events, events \cup {t}}

\* The tenant controller creates a tenant, asks for its deletion, and removes
\* it when no manager holds it.
Becomes(t, from, to) ==
    /\ tenant[t].desired = from
    /\ tenant' = [tenant EXCEPT ![t].desired = to]
    /\ Notify(t)
    /\ UNCHANGED <<os, provider, feed, periodic, loop, waiting, worker, faults>>

CreateTenant(t) == Becomes(t, "none", "created")
DeleteTenant(t) == Becomes(t, "created", "deleted")
RemoveTenant(t) == ~tenant[t].watcher /\ Becomes(t, "deleted", "gone")

PublishCVEs ==
    /\ feed < MaxFeed
    /\ feed' = feed + 1
    /\ UNCHANGED <<inventory, events, periodic, loop, waiting, worker, faults>>

\* The manager dies, or ends itself when its event stream is closed.
Restart ==
    /\ Fault
    /\ loop' = "start"
    /\ periodic' = FALSE
    /\ events' = {}
    /\ waiting' = {}
    /\ worker' = Idle
    /\ UNCHANGED <<inventory, feed>>

World ==
    \/ \E t \in Tenants : CreateTenant(t) \/ DeleteTenant(t) \/ RemoveTenant(t)
    \/ PublishCVEs
    \/ Restart

Init ==
    /\ tenant = [t \in Tenants |-> [desired |-> "none", watcher |-> FALSE]]
    /\ os = [t \in Tenants |-> <<>>]
    /\ provider = {}
    /\ feed = 1
    /\ events = {}
    /\ periodic = FALSE
    /\ loop = "start"
    /\ waiting = {}
    /\ worker = Idle
    /\ faults = 0

Next ==
    \/ \E t \in Tenants : HandleEvent(t) \/ Take(t)
    \/ Tick
    \/ ReconcileAll
    \/ Reconcile
    \/ World

Spec == Init /\ [][Next]_vars

\* The goroutines are scheduled, the ticker goes on firing, and the queue is
\* served in order.
Fairness ==
    /\ WF_vars(Reconcile)
    /\ WF_vars(ReconcileAll)
    /\ SF_vars(Tick)
    /\ \A t \in Tenants : SF_vars(HandleEvent(t)) /\ SF_vars(Take(t))

FairSpec == Spec /\ Fairness

-----------------------------------------------------------------------------
(* Properties *)

\* Type correctness: the resources, the queue, and what the worker holds.
TypeOK ==
    /\ tenant \in [Tenants -> Tenant]
    /\ os \in [Tenants -> Seq(OSResource)]
    /\ provider \subseteq Tenants
    /\ feed \in 1 .. MaxFeed
    /\ events \subseteq Tenants
    /\ periodic \in BOOLEAN
    /\ loop \in {"start", "events", "tick"}
    /\ waiting \subseteq Tenants
    /\ faults \in 0 .. MaxFaults
    /\ worker.pc \in {"idle", "tenant", "list", "profiles", "fixed", "provider",
                      "ack", "release"}
    /\ worker.pc # "idle" => worker.req \in Tenants
    /\ worker.pc \in {"list", "profiles", "fixed", "provider", "ack"} =>
          worker.acked \in BOOLEAN
    /\ worker.pc \in {"profiles", "fixed"} =>
          /\ worker.listed \in 0 .. Len(os[worker.req])
          /\ worker.todo \subseteq Revisions
    /\ worker.pc = "fixed" => worker.rev \in worker.todo /\ Known(worker.rev)

\* What an acknowledgement promises to the tenant controller: all OS resources
\* of the tenant and its provider exist, through calls that fail half-way,
\* retries of a half-finished reconciliation and restarts.
AckedIsInitialised ==
    \A t \in Tenants : tenant[t].watcher => Initialised(t)

\* "Profile ID is a unique identifier of OS profile and OS resource": no OS
\* resource is created a second time, although a creation reported as failed
\* may have been applied and the list of the existing ones is only read once.
OneOSPerProfile ==
    \A t \in Tenants : \A j, k \in DOMAIN os[t] :
        os[t][j].id = os[t][k].id => j = k

\* A tenant is acknowledged, unless it shall be deleted before.
CreatedIsAcked ==
    \A t \in Tenants :
        tenant[t].desired = "created" ~>
            tenant[t].watcher \/ tenant[t].desired # "created"

\* A tenant that shall be deleted is let go for good: an acknowledgement that
\* was under way when the deletion was asked for does not hold it back.
DeletedIsReleased ==
    \A t \in Tenants : tenant[t].desired = "deleted" ~> [](~tenant[t].watcher)

\* Every OS resource gets the published CVE lists, although each event turns the
\* global flag off while the requests of a tick are still waiting.
CVEsConverge ==
    \A t \in Tenants : <>[](tenant[t].desired = "created" =>
        \A k \in DOMAIN os[t] : os[t][k].existing = feed /\ os[t][k].fixed = feed)
=============================================================================
