-------------------------- MODULE HostAvailability --------------------------
(***************************************************************************)
(* How the host manager keeps the shown status of edge hosts in line with  *)
(* the reports of their node agents.                                       *)
(*                                                                         *)
(*   - alivemgr: a map from host to heartbeat object (timer + lock), a     *)
(*     periodic sweep that spawns one check goroutine per entry, and a     *)
(*     bounded channel of hosts whose timer expired;                       *)
(*   - hostmgr.StartAvailableManager: one goroutine per lost host, which   *)
(*     reads the host and then writes "No Connection", with retries;       *)
(*   - the gRPC handlers that turn an agent's report into a heartbeat and  *)
(*     a status write, from a host they read earlier;                      *)
(*   - the northbound handler: Inventory events, the periodic full         *)
(*     reconciliation, and the reload of the map when the manager starts.  *)
(*                                                                         *)
(* Inventory is an external database: each call to it is one step, and any *)
(* of them may fail, or be applied and still be reported as failed.        *)
(* One tick of "now" is one second, the unit of HostStatusTimestamp.       *)
(***************************************************************************)
EXTENDS Integers, Sequences, FiniteSets

CONSTANTS
    Host,        \* hosts known to Inventory (tenant ID, resource ID)
    Rpc,         \* concurrent status reports being handled
    Task,        \* concurrent lost-connection goroutines
    MaxHb,       \* heartbeat objects of one host alive at the same time
    ChanCap,     \* capacity of loseConnHostsChan
    EventCap,    \* Inventory events waiting for the control loop
    Timeout,     \* timeoutTimes * baseTimeDuration, in seconds
    InvTimeout,  \* bound of one Inventory call, in seconds
    MaxRetries,  \* backoffRetries
    Reported,    \* host statuses that the agents report
    MaxTime,     \* bound of the clock
    Changes,     \* kinds of changes made by everybody else
    MaxEnv       \* bound of the number of such changes

\* The default alive timeout is 30s and the default Inventory timeout 5s; no
\* flag validation enforces the order.
ASSUME HostAvailabilityAssumption ==
    /\ MaxHb \in Nat \ {0}
    /\ ChanCap \in Nat \ {0}
    /\ EventCap \in Nat
    /\ Timeout \in Nat \ {0}
    /\ InvTimeout \in Nat \ {0}
    /\ InvTimeout =< Timeout
    /\ MaxRetries \in Nat
    /\ Reported \subseteq {"unknown", "running", "error"}
    /\ MaxTime \in Nat
    /\ Changes \subseteq {"crash", "state", "instance", "maintenance", "agent"}
    /\ MaxEnv \in Nat

VARIABLES
    now,       \* the clock, in seconds
    inv,       \* Inventory: the host resource and its instance
    agent,     \* agent[h]: the node agent of h is running and reports
    env,       \* how many changes the rest of the system made
    up,        \* the host manager serves
    tracked,   \* hostHeartbeatMap: the heartbeat object of a host, or NoHb
    timer,     \* timer[h][i]: when the timer of object i fires, or NoTimer
    checks,    \* check goroutines that have not taken the lock
    sending,   \* check goroutines blocked on the full channel, lock held
    lossChan,  \* loseConnHostsChan
    task,      \* the goroutines of StartAvailableManager
    rpc,       \* the gRPC handlers
    events,    \* the Inventory event stream
    nbPc,      \* the northbound control loop: "loop" or "sync"
    found,     \* what FindAllTrustedHosts returned to reconcileAll
    gaveUp     \* history: the last loss of h was dropped after all retries

vars == <<now, inv, agent, env, up, tracked, timer, checks, sending, lossChan,
          task, rpc, events, nbPc, found, gaveUp>>

\* What one action seldom touches, grouped for UNCHANGED.
world    == <<now, agent, env, up>>
checking == <<checks, sending, lossChan>>
northb   == <<events, nbPc, found>>

-----------------------------------------------------------------------------
(* Data *)

HbId    == 1..MaxHb
NoHb    == 0
NoTimer == 0
Idle    == [pc |-> "idle"]

Status == {"unknown", "booting", "running", "error", "noConnection"}

\* The statuses SetHostAsConnectionLost may overwrite.
Connected == {"running", "booting", "error"}

\* Desired and current state of a host: "invalidating" is desired UNTRUSTED,
\* "untrusted" is current UNTRUSTED, "deleting" is desired DELETED, and a
\* host that is "gone" is no longer in Inventory.
HostState == {"trusted", "invalidating", "untrusted", "deleting", "gone"}
InstState == {"installing", "provisioned", "running"}

HostRecord == [status : Status, ts : 0..MaxTime, state : HostState,
               inst : InstState, maint : BOOLEAN]

\* A host that is being onboarded, and one that already serves.
InitHost ==
    {[status |-> "booting", ts |-> 0, state |-> "trusted",
      inst |-> "installing", maint |-> FALSE],
     [status |-> "running", ts |-> 0, state |-> "trusted",
      inst |-> "running", maint |-> FALSE]}

\* plan: the status to write, or "skip", or "refuse"; inst: the instance is
\* to become RUNNING; since: when the heartbeat began.
RpcState == [pc : {"load", "beat", "put", "inst"}, host : Host,
             plan : Reported \cup {"skip", "refuse"}, inst : BOOLEAN,
             hb : HbId \cup {NoHb}, since : 0..MaxTime, ts : 0..MaxTime]

TaskState == [pc : {"get", "put"}, host : Host, ts : 0..MaxTime,
              left : 0..MaxRetries]

Event == [kind : {"host", "instance"}, host : Host]

TypeOK ==
    /\ now \in 0..MaxTime
    /\ inv \in [Host -> HostRecord]
    /\ agent \in [Host -> BOOLEAN]
    /\ env \in 0..MaxEnv
    /\ up \in BOOLEAN
    /\ tracked \in [Host -> HbId \cup {NoHb}]
    /\ timer \in [Host -> [HbId -> 0..(MaxTime + Timeout)]]
    /\ checks \subseteq Host \X HbId
    /\ sending \subseteq Host \X HbId
    /\ lossChan \in Seq(Host) /\ Len(lossChan) =< ChanCap
    /\ task \in [Task -> TaskState \cup {Idle}]
    /\ rpc \in [Rpc -> RpcState \cup {Idle}]
    /\ \A r \in Rpc : rpc[r].pc = "put" => rpc[r].plan \in Reported
    /\ events \in Seq(Event) /\ Len(events) =< EventCap
    /\ nbPc \in {"loop", "sync"}
    /\ found \subseteq Host
    /\ gaveUp \in [Host -> BOOLEAN]

\* The host manager is down, nothing is in flight.
Init ==
    /\ now = 0
    /\ inv \in [Host -> InitHost]
    /\ agent = [h \in Host |-> TRUE]
    /\ env = 0
    /\ up = FALSE
    /\ tracked = [h \in Host |-> NoHb]
    /\ timer = [h \in Host |-> [i \in HbId |-> NoTimer]]
    /\ checks = {} /\ sending = {} /\ lossChan = <<>>
    /\ task = [t \in Task |-> Idle]
    /\ rpc = [r \in Rpc |-> Idle]
    /\ events = <<>> /\ nbPc = "loop" /\ found = {}
    /\ gaveUp = [h \in Host |-> FALSE]

-----------------------------------------------------------------------------
(* Heartbeat objects *)

\* Objects of h that neither the map nor a goroutine refers to.
FreeHb(h) ==
    {i \in HbId : /\ i # tracked[h]
                  /\ <<h, i>> \notin checks \cup sending
                  /\ \A r \in Rpc : rpc[r].pc = "beat" =>
                        ~(rpc[r].host = h /\ rpc[r].hb = i)}

\* Store(hbk, newheartbeat()): a fresh object with a running timer.
StoreHeartbeat(h) ==
    /\ FreeHb(h) # {}
    /\ LET i == CHOOSE i \in FreeHb(h) : TRUE
       IN  /\ tracked' = [tracked EXCEPT ![h] = i]
           /\ timer' = [timer EXCEPT ![h][i] = now + Timeout]
    /\ gaveUp' = [gaveUp EXCEPT ![h] = FALSE]

\* Defect: a timer that was consumed by a check is not created anew.
ResetTimerIfRunning(h, i) ==
    /\ <<h, i>> \notin sending
    /\ timer' = [timer EXCEPT ![h][i] = IF @ = NoTimer THEN @ ELSE now + Timeout]
    /\ gaveUp' = [gaveUp EXCEPT ![h] = FALSE]
    /\ UNCHANGED tracked

\* resetTimer waits for the lock, which a blocked check holds.
ResetTimer(h, i) ==
    /\ <<h, i>> \notin sending
    /\ timer' = [timer EXCEPT ![h][i] = now + Timeout]
    /\ gaveUp' = [gaveUp EXCEPT ![h] = FALSE]
    /\ UNCHANGED tracked

\* A change of a resource is streamed to the manager while it is up. A
\* notification may be lost, and Inventory need not echo the manager's own
\* writes. Events the filter or the handler ignores are left out.
Notify(event, relevant) ==
    \/ UNCHANGED events
    \/ /\ up /\ relevant /\ Len(events) < EventCap
       /\ events' = Append(events, event)

Deauthorised(state) == state \in {"invalidating", "untrusted", "deleting"}

NotifyHost(h, state) ==
    Notify([kind |-> "host", host |-> h], Deauthorised(state))

NotifyInstance(h, inst) ==
    Notify([kind |-> "instance", host |-> h], inst = "running")

-----------------------------------------------------------------------------
(* Status reports of the agents: UpdateHostStatusByHostGuid ("host") and    *)
(* UpdateInstanceStateStatusByHostGUID ("instance").                        *)

IsHostUntrusted(state) == state \in {"invalidating", "untrusted"}

IsHostNotProvisioned(host) == host.inst = "installing"

\* Defect: a host shown as disconnected is taken for one without news.
StatusPlanKeepLost(host, want) ==
    CASE host.maint                 -> "skip"
      [] IsHostNotProvisioned(host) -> "refuse"
      [] host.status \in {want, "noConnection"} -> "skip"
      [] OTHER                      -> want

\* What updateHostStatusIfNeeded will do with the host it was handed: under
\* maintenance wins over not provisioned, which wins over an equal status.
StatusPlan(host, want) ==
    CASE host.maint                 -> "skip"
      [] IsHostNotProvisioned(host) -> "refuse"
      [] host.status = want         -> "skip"
      [] OTHER                      -> want

\* The handler reads the host. From here on it acts on this copy: the model
\* keeps the decisions that follow from it. A report on an untrusted host, on
\* an unknown one, or whose read fails, changes nothing.
ReadHost(r, h, kind, want) ==
    /\ up /\ agent[h] /\ rpc[r] = Idle
    /\ ~IsHostUntrusted(inv[h].state) /\ inv[h].state # "gone"
    /\ rpc' = [rpc EXCEPT ![r] =
                 [pc |-> "load", host |-> h, plan |-> StatusPlan(inv[h], want),
                  inst |-> kind = "instance" /\ inv[h].inst = "provisioned",
                  hb |-> NoHb, since |-> 0, ts |-> 0]]
    /\ UNCHANGED <<world, inv, tracked, timer, checking, task, northb, gaveUp>>

\* UpdateHostHeartBeat, first half: hostHeartbeatMap.Load.
LoadHeartbeat(r) ==
    /\ rpc[r].pc = "load"
    /\ rpc' = [rpc EXCEPT ![r].pc = "beat", ![r].since = now,
                          ![r].hb = tracked[rpc[r].host]]
    /\ UNCHANGED <<world, inv, tracked, timer, checking, task, northb, gaveUp>>

\* The handler goes on to the instance, all else it knew is done with.
PutNext(m) == [m EXCEPT !.pc = "inst", !.plan = "skip", !.hb = NoHb,
                        !.since = 0, !.ts = 0]

\* What follows the heartbeat: the status write, else the instance write.
AfterBeat(m) ==
    IF m.plan \in Reported THEN [m EXCEPT !.pc = "put", !.ts = now]
    ELSE IF m.plan = "skip" /\ m.inst THEN PutNext(m)
    ELSE Idle

\* UpdateHostHeartBeat, second half: reset the timer of the object that Load
\* returned, or store a new object.
Beat(r) ==
    /\ rpc[r].pc = "beat"
    /\ \/ rpc[r].hb # NoHb /\ ResetTimer(rpc[r].host, rpc[r].hb)
       \/ rpc[r].hb = NoHb /\ StoreHeartbeat(rpc[r].host)
    /\ rpc' = [rpc EXCEPT ![r] = AfterBeat(rpc[r])]
    /\ UNCHANGED <<world, inv, checking, task, northb>>

\* A status write of the manager as Inventory applies it.
WriteStatus(h, status, ts) ==
    /\ inv[h].state # "gone"
    /\ inv' = [inv EXCEPT ![h].status = status, ![h].ts = ts]
    /\ NotifyHost(h, inv[h].state)

\* SetHostStatus succeeds; a report of an instance goes on with the instance.
StatusWritten(r) ==
    LET m == rpc[r] IN
    /\ m.pc = "put"
    /\ WriteStatus(m.host, m.plan, m.ts)
    /\ rpc' = [rpc EXCEPT ![r] = IF m.inst THEN PutNext(m) ELSE Idle]
    /\ UNCHANGED <<world, tracked, timer, checking, task, nbPc, found, gaveUp>>

\* SetHostStatus fails and the handler returns the error. Inventory may have
\* applied the write all the same.
StatusRefused(r) ==
    /\ rpc[r].pc = "put"
    /\ \/ WriteStatus(rpc[r].host, rpc[r].plan, rpc[r].ts)
       \/ UNCHANGED <<inv, events>>
    /\ rpc' = [rpc EXCEPT ![r] = Idle]
    /\ UNCHANGED <<world, tracked, timer, checking, task, nbPc, found, gaveUp>>

\* updateInstanceStateStatusByHostGUID: the instance becomes RUNNING.
PutInstance(r) ==
    LET h == rpc[r].host IN
    /\ rpc[r].pc = "inst"
    /\ rpc' = [rpc EXCEPT ![r] = Idle]
    /\ \/ /\ inv[h].state # "gone"
          /\ inv' = [inv EXCEPT ![h].inst = "running"]
          /\ NotifyInstance(h, "running")
       \/ UNCHANGED <<inv, events>>
    /\ UNCHANGED <<world, tracked, timer, checking, task, nbPc, found, gaveUp>>

RpcStep(r) ==
    \/ LoadHeartbeat(r)
    \/ Beat(r)
    \/ StatusWritten(r) \/ StatusRefused(r)
    \/ PutInstance(r)

-----------------------------------------------------------------------------
(* The availability manager *)

\* One round of initAlvMgr: a check goroutine for every entry of the map. A
\* goroutine keeps the object it was given even if the map changes.
Sweep ==
    /\ up
    /\ checks' = checks \cup {<<h, tracked[h]>> :
                                h \in {g \in Host : tracked[g] # NoHb}}
    /\ UNCHANGED <<world, inv, tracked, timer, sending, lossChan, task, rpc,
                   northb, gaveUp>>

\* Defect: a timer that was consumed counts as expired at every check.
ExpiredForEver(h, i) == timer[h][i] =< now

Expired(h, i) == timer[h][i] # NoTimer /\ timer[h][i] =< now

\* Defect: a non-blocking send drops the loss when the channel is full.
CheckHeartbeatDropIfFull(h, i) ==
    /\ <<h, i>> \in checks /\ <<h, i>> \notin sending
    /\ checks' = checks \ {<<h, i>>}
    /\ IF Expired(h, i)
       THEN /\ timer' = [timer EXCEPT ![h][i] = NoTimer]
            /\ gaveUp' = [gaveUp EXCEPT ![h] = FALSE]
            /\ lossChan' = IF Len(lossChan) < ChanCap THEN Append(lossChan, h)
                                                     ELSE lossChan
       ELSE UNCHANGED <<timer, gaveUp, lossChan>>
    /\ UNCHANGED <<world, inv, tracked, sending, task, rpc, northb>>

\* checkHeartbeat with the lock held. An expired timer is consumed and the
\* host goes to the channel; if that is full the goroutine blocks there and
\* keeps the lock.
CheckHeartbeat(h, i) ==
    /\ <<h, i>> \in checks /\ <<h, i>> \notin sending
    /\ checks' = checks \ {<<h, i>>}
    /\ IF Expired(h, i)
       THEN /\ timer' = [timer EXCEPT ![h][i] = NoTimer]
            /\ gaveUp' = [gaveUp EXCEPT ![h] = FALSE]
            /\ IF Len(lossChan) < ChanCap
               THEN lossChan' = Append(lossChan, h) /\ UNCHANGED sending
               ELSE sending' = sending \cup {<<h, i>>} /\ UNCHANGED lossChan
       ELSE UNCHANGED <<timer, gaveUp, lossChan, sending>>
    /\ UNCHANGED <<world, inv, tracked, task, rpc, northb>>

\* A blocked send goes through and the lock is released.
SendLoss(h, i) ==
    /\ <<h, i>> \in sending /\ Len(lossChan) < ChanCap
    /\ lossChan' = Append(lossChan, h)
    /\ sending' = sending \ {<<h, i>>}
    /\ UNCHANGED <<world, inv, tracked, timer, checks, task, rpc, northb, gaveUp>>

-----------------------------------------------------------------------------
(* Marking a host as lost: StartAvailableManager *)

\* A goroutine per lost host; the time of the loss is read once.
TakeLoss(t) ==
    /\ up /\ lossChan # <<>> /\ task[t] = Idle
    /\ lossChan' = Tail(lossChan)
    /\ task' = [task EXCEPT ![t] = [pc |-> "get", host |-> Head(lossChan),
                                    ts |-> now, left |-> MaxRetries]]
    /\ UNCHANGED <<world, inv, tracked, timer, checks, sending, rpc, northb, gaveUp>>

\* Defect: retries are not counted against the limit.
RetryForever(t) ==
    /\ task' = [task EXCEPT ![t].pc = "get", ![t].left = @ - 1]
    /\ UNCHANGED gaveUp

\* backoff.Retry after a failed attempt; the last failure is only logged.
RetryOrGiveUp(t) ==
    IF task[t].left > 0
    THEN /\ task' = [task EXCEPT ![t].pc = "get", ![t].left = @ - 1]
         /\ UNCHANGED gaveUp
    ELSE /\ task' = [task EXCEPT ![t] = Idle]
         /\ gaveUp' = [gaveUp EXCEPT ![task[t].host] = TRUE]

\* Defect: the times are compared the wrong way round.
MayMarkLostSwapped(host, ts) == ts < host.ts /\ host.status \in Connected

\* The condition of SetHostAsConnectionLost on the host it has read.
MayMarkLost(host, ts) == host.ts < ts /\ host.status \in Connected

\* SetHostAsConnectionLost, the read: go on to the write, skip, or fail.
GetLostHost(t) ==
    LET host == inv[task[t].host] IN
    /\ task[t].pc = "get"
    /\ \/ /\ host.state # "gone"
          /\ task' = [task EXCEPT ![t] =
                        IF MayMarkLost(host, task[t].ts)
                        THEN [task[t] EXCEPT !.pc = "put"] ELSE Idle]
          /\ UNCHANGED gaveUp
       \/ RetryOrGiveUp(t)
    /\ UNCHANGED <<world, inv, tracked, timer, checking, rpc, northb>>

\* SetHostAsConnectionLost, the write, with the time of the loss.
PutLostHost(t) ==
    LET h == task[t].host IN
    /\ task[t].pc = "put"
    /\ \/ /\ WriteStatus(h, "noConnection", task[t].ts)
          /\ \/ task' = [task EXCEPT ![t] = Idle] /\ UNCHANGED gaveUp
             \/ RetryOrGiveUp(t)
       \/ RetryOrGiveUp(t) /\ UNCHANGED <<inv, events>>
    /\ UNCHANGED <<world, tracked, timer, checking, rpc, nbPc, found>>

TaskStep(t) == GetLostHost(t) \/ PutLostHost(t)

-----------------------------------------------------------------------------
(* The northbound handler: one goroutine that takes events and ticks *)

\* reconcileHost forgets a host that is being deauthorised or deleted;
\* monitorInstanceRunning starts to watch a host that is not watched yet.
HandleEvent ==
    /\ up /\ nbPc = "loop" /\ events # <<>>
    /\ events' = Tail(events)
    /\ LET e == Head(events) IN
       \/ /\ e.kind = "host"
          /\ tracked' = [tracked EXCEPT ![e.host] = NoHb]
          /\ UNCHANGED <<timer, gaveUp>>
       \/ /\ e.kind = "instance" /\ tracked[e.host] = NoHb
          /\ StoreHeartbeat(e.host)
       \/ /\ e.kind = "instance" /\ tracked[e.host] # NoHb
          /\ UNCHANGED <<tracked, timer, gaveUp>>
    /\ UNCHANGED <<world, inv, checking, task, rpc, nbPc, found>>

\* Defects: the filter is dropped; hosts without connection are left out.
AllHosts       == {h \in Host : inv[h].state # "gone"}
ConnectedHosts == {h \in Host : inv[h].state \notin {"untrusted", "gone"}
                                 /\ inv[h].status \in Connected}

\* FindAllTrustedHosts: whatever exists and is not currently UNTRUSTED.
TrustedHosts == {h \in Host : inv[h].state \notin {"untrusted", "gone"}}

\* reconcileAll, first half. A failed query changes nothing.
FindTrusted ==
    /\ up /\ nbPc = "loop"
    /\ found' = TrustedHosts
    /\ nbPc' = "sync"
    /\ UNCHANGED <<world, inv, tracked, timer, checking, task, rpc, events, gaveUp>>

\* reconcileAll, second half: the map is cut down to what was found.
SyncHosts ==
    /\ nbPc = "sync"
    /\ tracked' = [h \in Host |-> IF h \in found THEN tracked[h] ELSE NoHb]
    /\ nbPc' = "loop" /\ found' = {}
    /\ UNCHANGED <<world, inv, timer, checking, task, rpc, events, gaveUp>>

\* Defect: only the instance is looked at.
HostsWithRunningInstance ==
    {h \in Host : inv[h].state # "gone" /\ inv[h].inst = "running"}

\* initializeAliveMgrWithHosts: the hosts to watch after a start.
HostsToWatch ==
    {h \in Host : /\ inv[h].state # "gone"
                  /\ inv[h].status = "running" \/ inv[h].inst = "running"}

\* Start: the map is reloaded from Inventory before reports are served. A
\* start that cannot list the hosts is fatal and leaves the manager down.
Start ==
    /\ ~up
    /\ up' = TRUE
    /\ tracked' = [h \in Host |-> IF h \in HostsToWatch THEN 1 ELSE NoHb]
    /\ timer' = [h \in Host |-> [i \in HbId |->
                    IF h \in HostsToWatch /\ i = 1 THEN now + Timeout
                    ELSE NoTimer]]
    /\ gaveUp' = [h \in Host |-> FALSE]
    /\ UNCHANGED <<now, agent, env, inv, checking, task, rpc, northb>>

-----------------------------------------------------------------------------
(* The rest of the system *)

Outside(kind) ==
    /\ kind \in Changes /\ env < MaxEnv
    /\ env' = env + 1
    /\ UNCHANGED now

\* The manager process dies: everything it keeps in memory is gone.
Crash ==
    /\ up
    /\ Outside("crash")
    /\ up' = FALSE
    /\ tracked' = [h \in Host |-> NoHb]
    /\ timer' = [h \in Host |-> [i \in HbId |-> NoTimer]]
    /\ checks' = {} /\ sending' = {} /\ lossChan' = <<>>
    /\ task' = [t \in Task |-> Idle]
    /\ rpc' = [r \in Rpc |-> Idle]
    /\ events' = <<>> /\ nbPc' = "loop" /\ found' = {}
    /\ gaveUp' = [h \in Host |-> FALSE]
    /\ UNCHANGED <<inv, agent>>

\* A user deauthorises or deletes the host; the onboarding manager follows.
Lifecycle == {<<"trusted", "invalidating">>, <<"invalidating", "untrusted">>,
              <<"trusted", "deleting">>, <<"untrusted", "gone">>,
              <<"deleting", "gone">>}

ChangeHostState(h, state) ==
    /\ <<inv[h].state, state>> \in Lifecycle
    /\ Outside("state")
    /\ inv' = [inv EXCEPT ![h].state = state]
    /\ NotifyHost(h, state)
    /\ UNCHANGED <<agent, up, tracked, timer, checking, task, rpc, nbPc, found,
                   gaveUp>>

\* The onboarding manager provisions the instance.
Onboard(h, inst) ==
    /\ <<inv[h].inst, inst>> \in {<<"installing", "provisioned">>,
                                  <<"provisioned", "running">>}
    /\ Outside("instance")
    /\ inv' = [inv EXCEPT ![h].inst = inst]
    /\ NotifyInstance(h, inst)
    /\ UNCHANGED <<agent, up, tracked, timer, checking, task, rpc, nbPc, found,
                   gaveUp>>

\* The maintenance manager starts or ends an update of the instance.
Maintain(h) ==
    /\ Outside("maintenance")
    /\ inv' = [inv EXCEPT ![h].maint = ~@]
    /\ NotifyInstance(h, inv[h].inst)
    /\ UNCHANGED <<agent, up, tracked, timer, checking, task, rpc, nbPc, found,
                   gaveUp>>

\* The agent, its host or its network stops, or comes back.
ToggleAgent(h) ==
    /\ Outside("agent")
    /\ agent' = [agent EXCEPT ![h] = ~@]
    /\ UNCHANGED <<inv, up, tracked, timer, checking, task, rpc, northb, gaveUp>>

World ==
    \/ Crash
    \/ \E h \in Host :
          \/ \E state \in HostState : ChangeHostState(h, state)
          \/ \E inst \in InstState : Onboard(h, inst)
          \/ Maintain(h)
          \/ ToggleAgent(h)

\* Time passes, but not beyond the deadline of the Inventory call of a
\* handler: UpdateInvResourceFields gives up after InventoryTimeout, and what
\* the handler does before that, the lock included, takes no time.
Tick ==
    /\ now < MaxTime
    /\ \A r \in Rpc : rpc[r].pc \in {"beat", "put"} =>
                         now + 1 < rpc[r].since + InvTimeout
    /\ now' = now + 1
    /\ UNCHANGED <<inv, agent, env, up, tracked, timer, checking, task, rpc,
                   northb, gaveUp>>

-----------------------------------------------------------------------------
(* Specification *)

Report(h) ==
    \E r \in Rpc, kind \in {"host", "instance"}, want \in Reported :
        ReadHost(r, h, kind, want)

Next ==
    \/ Tick
    \/ World
    \/ Start
    \/ Sweep
    \/ \E h \in Host : Report(h)
    \/ \E r \in Rpc : RpcStep(r)
    \/ \E h \in Host, i \in HbId : CheckHeartbeat(h, i) \/ SendLoss(h, i)
    \/ \E t \in Task : TakeLoss(t) \/ TaskStep(t)
    \/ HandleEvent
    \/ FindTrusted
    \/ SyncHosts

Spec == Init /\ [][Next]_vars

\* Every goroutine is scheduled, the process is restarted, and time passes.
\* Strong fairness where something else can disable the step in between:
\* blocked senders are served in order, select picks among ready cases at
\* random, and handlers come and go while the clock runs.
Fairness ==
    /\ SF_vars(Tick)
    /\ WF_vars(Start)
    /\ WF_vars(Sweep)
    /\ \A r \in Rpc : WF_vars(RpcStep(r))
    /\ \A h \in Host, i \in HbId : /\ WF_vars(CheckHeartbeat(h, i))
                                   /\ SF_vars(SendLoss(h, i))
    /\ SF_vars(\E t \in Task : TakeLoss(t))
    /\ \A t \in Task : WF_vars(TaskStep(t))
    /\ SF_vars(HandleEvent)
    /\ SF_vars(FindTrusted)
    /\ WF_vars(SyncHosts)

FairSpec == Spec /\ Fairness

-----------------------------------------------------------------------------
(* Properties *)

Watched(h) == tracked[h] # NoHb
Armed(h)   == Watched(h) /\ timer[h][tracked[h]] # NoTimer

\* A loss of h is on its way: in the channel, blocked in front of it, or
\* being written by a goroutine.
LossPending(h) ==
    \/ \E k \in 1..Len(lossChan) : lossChan[k] = h
    \/ \E i \in HbId : <<h, i>> \in sending
    \/ \E t \in Task : task[t].pc # "idle" /\ task[t].host = h

\* A trusted host that Inventory shows as Running is watched by the manager:
\* whatever the order of reports, events, reconciliations and restarts, no
\* such host is left whose silence would never be noticed.
RunningHostIsWatched ==
    \A h \in Host :
        up /\ inv[h].state = "trusted" /\ inv[h].status = "running"
            => Watched(h)

\* A host whose timer has fired is not left shown as connected: the status
\* was overwritten, or its loss is still on its way, or Inventory refused
\* every retry. In particular no late status write of a handler brings back
\* a host that was found silent after that handler's heartbeat.
SilenceIsReported ==
    \A h \in Host :
        Watched(h) /\ ~Armed(h) /\ ~LossPending(h) /\ ~gaveUp[h]
            => inv[h].status \notin Connected

\* A trusted host is never dropped from the heartbeat map: neither an event
\* that was handled late nor a reconciliation that worked on an old list
\* forgets a host that is still to be watched.
TrustedHostStaysWatched ==
    [][\A h \in Host : inv[h].state = "trusted" /\ Watched(h) /\ up'
            => Watched(h)']_vars

\* "Skip if current status is newer than when we started to try to set the
\* connection lost" (src/host/pkg/invclient/invclient.go:587): a write of
\* No Connection never replaces a status that is newer than the loss.
NewerStatusIsNotOverwritten ==
    [][\A h \in Host :
          inv[h].status # "noConnection" /\ inv'[h].status = "noConnection"
              => inv[h].ts =< inv'[h].ts]_vars

InFlight(h) == \E r \in Rpc : rpc[r].pc # "idle" /\ rpc[r].host = h

\* A trusted host that is shown Running and has gone silent ends up with
\* another status, unless Inventory refused every retry. The clock must reach
\* the deadline of its timer, and a deauthorised host, a crash or a returning
\* agent ends the obligation.
SilentHostIsMarked ==
    \A h \in Host :
        (/\ up /\ ~agent[h] /\ ~InFlight(h)
         /\ inv[h].state = "trusted" /\ inv[h].status = "running"
         /\ Watched(h) /\ timer[h][tracked[h]] =< MaxTime)
        ~> (\/ inv[h].status \notin Connected \/ gaveUp[h]
            \/ ~up \/ agent[h] \/ inv[h].state # "trusted")

\* A deauthorised host is eventually out of the heartbeat map for good, even
\* if a handler or an event put it back after it was forgotten, and even if
\* the notification of the deauthorisation was lost.
UntrustedHostIsForgotten ==
    \A h \in Host : <>[](inv[h].state = "untrusted" => ~Watched(h))

\* Agents that are up keep reporting Running, and Inventory does not refuse
\* the status writes of the handlers for ever.
KeepsReporting ==
    /\ \A h \in Host : SF_vars(\E r \in Rpc : ReadHost(r, h, "host", "running"))
    /\ \A r \in Rpc : SF_vars(StatusWritten(r))

\* A host that keeps reporting Running is not shown as disconnected for ever:
\* a loss that was reported wrongly or late is undone by the next report.
ReportingHostRecovers ==
    KeepsReporting =>
        \A h \in Host :
            <>[](/\ agent[h] /\ inv[h].state = "trusted" /\ ~inv[h].maint
                 /\ inv[h].inst # "installing")
            => []<>(inv[h].status # "noConnection")

-----------------------------------------------------------------------------
(* Refinement *)

WatchState(h) ==
    IF ~Watched(h) THEN "off"
    ELSE IF Armed(h) THEN "armed"
    ELSE IF gaveUp[h] THEN "abandoned" ELSE "silent"

\* A goroutine is about to check a heartbeat object that the map let go.
Stray(h) == \E i \in HbId \ {tracked[h]} : <<h, i>> \in checks

Life(h) == INSTANCE HostWatch WITH
    trusted <- inv[h].state = "trusted",
    watch   <- WatchState(h),
    shown   <- inv[h].status,
    loss    <- LossPending(h),
    stray   <- Stray(h)

\* Whatever the handlers, checks, goroutines, events and reconciliations do,
\* and however often the manager dies, the life of every host is one that
\* HostWatch allows: its watch, its losses and its shown status only change
\* together in the ways promised there.
ImplementsWatch ==
    /\ \A h \in Host : Life(h)!WatchInit
    /\ [][\A h \in Host : [Life(h)!WatchNext]_(Life(h)!watchVars)]_vars

-----------------------------------------------------------------------------
(* The inductive invariant behind RunningHostIsWatched and SilenceIsReported. *)

\* A manager that is down keeps nothing.
DownIsEmpty ==
    ~up => /\ \A h \in Host : tracked[h] = NoHb
           /\ \A r \in Rpc : rpc[r] = Idle
           /\ \A t \in Task : task[t] = Idle
           /\ checks = {} /\ sending = {} /\ lossChan = <<>> /\ events = <<>>
           /\ nbPc = "loop"

\* A handler that has found or stored a heartbeat object works on a watched
\* host, for as long as the host is trusted.
HandlerIsWatched ==
    \A r \in Rpc :
        \/ rpc[r].pc = "put"
        \/ rpc[r].pc = "beat" /\ rpc[r].hb # NoHb
        => (inv[rpc[r].host].state = "trusted" => Watched(rpc[r].host))

\* Only hosts that are no longer trusted are about to be forgotten.
ForgetsUntrusted ==
    /\ \A k \in 1..Len(events) :
          events[k].kind = "host" => inv[events[k].host].state # "trusted"
    /\ nbPc = "sync" =>
          \A h \in Host \ found : inv[h].state # "trusted"

\* Nothing carries a time of the future; a handler is within its deadline.
Timely ==
    /\ \A h \in Host : inv[h].ts =< now
    /\ \A t \in Task : task[t].pc # "idle" => task[t].ts =< now
    /\ \A r \in Rpc :
          rpc[r].pc \in {"beat", "put"} =>
             /\ rpc[r].since =< now /\ now < rpc[r].since + InvTimeout
             /\ rpc[r].pc = "put" => rpc[r].ts =< now

\* While a handler is between its heartbeat and its write, the timer of its
\* host cannot fire: not the one it has reset, and not one that was started
\* since it looked the object up.
HandlerKeepsTimer ==
    \A r \in Rpc :
        LET h == rpc[r].host IN
        \/ rpc[r].pc = "put" /\ Watched(h)
        \/ rpc[r].pc = "beat" /\ Watched(h) /\ tracked[h] # rpc[r].hb
        => timer[h][tracked[h]] >= rpc[r].since + Timeout

\* A loss that is still to be written over the status now shown.
EffectiveLoss(h) ==
    \/ \E k \in 1..Len(lossChan) : lossChan[k] = h
    \/ \E i \in HbId : <<h, i>> \in sending
    \/ \E t \in Task : /\ task[t].pc # "idle" /\ task[t].host = h
                       /\ inv[h].ts < task[t].ts

\* The status shown is older than the deadline of the timer, and once the
\* timer has fired, older than the present and about to be overwritten.
StatusAge ==
    \A h \in Host :
        Watched(h) /\ inv[h].status \in Connected =>
            /\ Armed(h) => inv[h].ts < timer[h][tracked[h]]
            /\ ~Armed(h) => inv[h].ts < now /\ (gaveUp[h] \/ EffectiveLoss(h))

IndInv ==
    /\ TypeOK
    /\ RunningHostIsWatched
    /\ DownIsEmpty
    /\ HandlerIsWatched
    /\ ForgetsUntrusted
    /\ Timely
    /\ HandlerKeepsTimer
    /\ StatusAge
=============================================================================
