----------------------- MODULE HostAvailabilitySafety -----------------------
(***************************************************************************)
(* IndInv is an inductive invariant of HostAvailability, and what follows  *)
(* from it: a trusted host shown Running is watched, the silence of a host *)
(* is reported, and a trusted host stays watched. One lemma for each part  *)
(* of IndInv. From IndInv it also follows that HostWatch allows each step  *)
(* in the life of every host.                                              *)
(***************************************************************************)
EXTENDS HostAvailabilityProofs

\* A change of one field of one host leaves the other fields as they are.
LEMMA FieldKept ==
    ASSUME TypeOK, NEW g \in Host, NEW x, NEW h \in Host
    PROVE  /\ inv' = [inv EXCEPT ![g].inst = x] =>
                 /\ inv'[h].state = inv[h].state /\ inv'[h].status = inv[h].status
                 /\ inv'[h].ts = inv[h].ts
           /\ inv' = [inv EXCEPT ![g].maint = x] =>
                 /\ inv'[h].state = inv[h].state /\ inv'[h].status = inv[h].status
                 /\ inv'[h].ts = inv[h].ts
           /\ inv' = [inv EXCEPT ![g].state = x] =>
                 /\ inv'[h].state = (IF g = h THEN x ELSE inv[h].state)
                 /\ inv'[h].status = inv[h].status /\ inv'[h].ts = inv[h].ts
  <1>1. inv[g] \in HostRecord
    BY DEF TypeOK
  <1>2. /\ [inv[g] EXCEPT !.inst = x].state = inv[g].state
        /\ [inv[g] EXCEPT !.inst = x].status = inv[g].status
        /\ [inv[g] EXCEPT !.inst = x].ts = inv[g].ts
    BY <1>1 DEF HostRecord
  <1>3. /\ [inv[g] EXCEPT !.maint = x].state = inv[g].state
        /\ [inv[g] EXCEPT !.maint = x].status = inv[g].status
        /\ [inv[g] EXCEPT !.maint = x].ts = inv[g].ts
    BY <1>1 DEF HostRecord
  <1>4. /\ [inv[g] EXCEPT !.state = x].state = x
        /\ [inv[g] EXCEPT !.state = x].status = inv[g].status
        /\ [inv[g] EXCEPT !.state = x].ts = inv[g].ts
    BY <1>1 DEF HostRecord
  <1>5. ASSUME inv' = [inv EXCEPT ![g].inst = x]
        PROVE  /\ inv'[h].state = inv[h].state /\ inv'[h].status = inv[h].status
               /\ inv'[h].ts = inv[h].ts
    BY <1>2, <1>5 DEF TypeOK
  <1>6. ASSUME inv' = [inv EXCEPT ![g].maint = x]
        PROVE  /\ inv'[h].state = inv[h].state /\ inv'[h].status = inv[h].status
               /\ inv'[h].ts = inv[h].ts
    BY <1>3, <1>6 DEF TypeOK
  <1>7. ASSUME inv' = [inv EXCEPT ![g].state = x]
        PROVE  /\ inv'[h].state = (IF g = h THEN x ELSE inv[h].state)
               /\ inv'[h].status = inv[h].status /\ inv'[h].ts = inv[h].ts
    BY <1>4, <1>7 DEF TypeOK
  <1> QED BY <1>5, <1>6, <1>7

\* A status write sets status and time of one host and nothing else.
LEMMA Written ==
    ASSUME TypeOK, NEW g \in Host, NEW status, NEW ts, WriteStatus(g, status, ts),
           NEW h \in Host
    PROVE  /\ inv'[h].state = inv[h].state
           /\ inv'[h].status = (IF g = h THEN status ELSE inv[h].status)
           /\ inv'[h].ts = (IF g = h THEN ts ELSE inv[h].ts)
  <1> DEFINE m == [inv[g] EXCEPT !.status = status, !.ts = ts]
  <1>1. m.state = inv[g].state /\ m.status = status /\ m.ts = ts
    <2>1. inv[g] \in HostRecord
      BY DEF TypeOK
    <2> QED BY <2>1 DEF HostRecord
  <1>2. inv' = [inv EXCEPT ![g] = m]
    BY DEF WriteStatus, TypeOK
  <1> HIDE DEF m
  <1> QED BY <1>1, <1>2 DEF TypeOK

\* Nobody gives a host its trust back.
LEMMA TrustKept ==
    ASSUME TypeOK, [Next]_vars, NEW h \in Host, inv'[h].state = "trusted"
    PROVE  inv[h].state = "trusted"
  <1>1. CASE UNCHANGED inv
    BY <1>1
  <1>2. ASSUME NEW g \in Host, NEW status, NEW ts, WriteStatus(g, status, ts)
        PROVE  inv[h].state = "trusted"
    BY <1>2, Written
  <1>3. CASE \E r \in Rpc : RpcStep(r)
    <2>1. PICK r \in Rpc : RpcStep(r)
      BY <1>3
    <2>2. rpc[r].host \in Host
      BY <2>1, BusyRpc, RpcFields DEF RpcStep, LoadHeartbeat, Beat, StatusWritten,
                                      StatusRefused, PutInstance
    <2>3. CASE PutInstance(r)
      BY <1>1, <2>2, <2>3, FieldKept DEF PutInstance
    <2> QED BY <1>1, <1>2, <2>1, <2>2, <2>3
            DEF RpcStep, LoadHeartbeat, Beat, StatusWritten, StatusRefused
  <1>4. CASE \E t \in Task : TaskStep(t)
    <2>1. PICK t \in Task : TaskStep(t)
      BY <1>4
    <2>2. task[t].host \in Host
      BY <2>1, BusyTask DEF TaskStep, GetLostHost, PutLostHost
    <2> QED BY <1>1, <1>2, <2>1, <2>2 DEF TaskStep, GetLostHost, PutLostHost
  <1>5. CASE World
    <2>1. CASE Crash \/ \E g \in Host : ToggleAgent(g)
      BY <1>1, <2>1 DEF Crash, ToggleAgent
    <2>2. CASE \E g \in Host, state \in HostState : ChangeHostState(g, state)
      BY <2>2, FieldKept DEF ChangeHostState, Lifecycle
    <2>3. CASE \E g \in Host, inst \in InstState : Onboard(g, inst)
      BY <2>3, FieldKept DEF Onboard
    <2>4. CASE \E g \in Host : Maintain(g)
      BY <2>4, FieldKept DEF Maintain
    <2> QED BY <1>5, <2>1, <2>2, <2>3, <2>4 DEF World
  <1>6. CASE Tick \/ Start \/ Sweep \/ HandleEvent \/ FindTrusted \/ SyncHosts
    BY <1>1, <1>6 DEF Tick, Start, Sweep, HandleEvent, FindTrusted, SyncHosts
  <1>7. CASE \/ \E g \in Host : Report(g)
             \/ \E g \in Host, i \in HbId : CheckHeartbeat(g, i) \/ SendLoss(g, i)
             \/ \E t \in Task : TakeLoss(t)
    BY <1>1, <1>7 DEF Report, ReadHost, CheckHeartbeat, SendLoss, TakeLoss
  <1> QED BY <1>1, <1>3, <1>4, <1>5, <1>6, <1>7 DEF Next, vars

LEMMA DownStep ==
    ASSUME TypeOK, DownIsEmpty, [Next]_vars
    PROVE  DownIsEmpty'
  <1> SUFFICES ASSUME ~up' PROVE DownIsEmpty'
    BY DEF DownIsEmpty
  <1>1. CASE Crash
    BY <1>1 DEF Crash, DownIsEmpty
  <1>2. CASE up /\ ~Crash
    BY <1>2 DEF Next, vars, world, Tick, World, ChangeHostState, Onboard, Maintain,
                ToggleAgent, Start, Sweep, Report, ReadHost, RpcStep, LoadHeartbeat,
                Beat, StatusWritten, StatusRefused, PutInstance, CheckHeartbeat,
                SendLoss, TakeLoss, TaskStep, GetLostHost, PutLostHost, HandleEvent,
                FindTrusted, SyncHosts
  <1>3. CASE ~up
    <2>1. /\ \A r \in Rpc : ~RpcStep(r)
          /\ \A t \in Task : ~TaskStep(t) /\ ~TakeLoss(t)
          /\ \A h \in Host, i \in HbId : ~CheckHeartbeat(h, i) /\ ~SendLoss(h, i)
          /\ ~SyncHosts
      <3>1. Idle.pc = "idle"
        BY DEF Idle
      <3> QED BY <1>3, <3>1 DEF DownIsEmpty, RpcStep, LoadHeartbeat, Beat,
                 StatusWritten, StatusRefused, PutInstance, TakeLoss, TaskStep,
                 GetLostHost, PutLostHost, CheckHeartbeat, SendLoss, SyncHosts
    <2>2. ~HandleEvent /\ ~FindTrusted /\ ~Sweep /\ ~Crash /\ ~Start
      BY <1>3 DEF HandleEvent, FindTrusted, Sweep, Crash, Start
    <2>3. \A h \in Host : ~Report(h)
      BY <1>3 DEF Report, ReadHost
    <2>4. CASE Tick \/ UNCHANGED vars
      BY <1>3, <2>4 DEF Tick, vars, checking, northb, DownIsEmpty
    <2>5. CASE World
      BY <1>3, <2>2, <2>5 DEF World, ChangeHostState, Onboard, Maintain,
         ToggleAgent, NotifyHost, NotifyInstance, Notify, checking, northb, DownIsEmpty
    <2> QED BY <2>1, <2>2, <2>3, <2>4, <2>5 DEF Next
  <1> QED BY <1>1, <1>2, <1>3

(* What a step may do to one handler, goroutine or host. *)

LEMMA HandlerStep ==
    ASSUME TypeOK, NEW r \in Rpc, RpcStep(r)
    PROVE  /\ rpc[r] \in RpcState /\ rpc[r].host \in Host
           /\ \A q \in Rpc \ {r} : rpc'[q] = rpc[q]
           /\ rpc'[r].pc = "beat" =>
                 /\ LoadHeartbeat(r) /\ rpc'[r].host = rpc[r].host
                 /\ rpc'[r].since = now /\ rpc'[r].hb = tracked[rpc[r].host]
           /\ rpc'[r].pc = "put" =>
                 /\ Beat(r) /\ rpc'[r].host = rpc[r].host
                 /\ rpc'[r].since = rpc[r].since /\ rpc'[r].ts = now
  <1>1. rpc[r] \in RpcState /\ rpc[r].host \in Host
    BY BusyRpc, RpcFields DEF RpcStep, LoadHeartbeat, Beat, StatusWritten,
                              StatusRefused, PutInstance
  <1>2. Idle.pc = "idle"
    BY DEF Idle
  <1>3. PutNext(rpc[r]).pc = "inst"
    BY <1>1, AfterBeatType
  <1>4. CASE LoadHeartbeat(r)
    <2> DEFINE m == [rpc[r] EXCEPT !.pc = "beat", !.since = now,
                                   !.hb = tracked[rpc[r].host]]
    <2>1. /\ m.pc = "beat" /\ m.since = now /\ m.hb = tracked[rpc[r].host]
          /\ m.host = rpc[r].host
      BY <1>1 DEF RpcState
    <2>2. rpc' = [rpc EXCEPT ![r] = m]
      BY <1>4 DEF LoadHeartbeat, TypeOK
    <2> HIDE DEF m
    <2> QED BY <1>1, <1>4, <2>1, <2>2 DEF TypeOK
  <1>5. CASE Beat(r)
    <2> DEFINE m == AfterBeat(rpc[r])
    <2>1. CASE rpc[r].plan \in Reported
      <3>1. m = [rpc[r] EXCEPT !.pc = "put", !.ts = now]
        BY <2>1 DEF AfterBeat
      <3>2. /\ m.pc = "put" /\ m.ts = now /\ m.since = rpc[r].since
            /\ m.host = rpc[r].host
        BY <1>1, <3>1 DEF RpcState
      <3>3. rpc' = [rpc EXCEPT ![r] = m]
        BY <1>5 DEF Beat
      <3> HIDE DEF m
      <3> QED BY <1>1, <1>5, <3>2, <3>3 DEF TypeOK
    <2>2. CASE rpc[r].plan \notin Reported
      <3>1. m.pc \in {"inst", "idle"}
        BY <1>2, <1>3, <2>2 DEF AfterBeat
      <3>2. rpc' = [rpc EXCEPT ![r] = m]
        BY <1>5 DEF Beat
      <3> HIDE DEF m
      <3> QED BY <1>1, <3>1, <3>2 DEF TypeOK
    <2> QED BY <2>1, <2>2
  <1>6. CASE StatusWritten(r) \/ StatusRefused(r) \/ PutInstance(r)
    <2>1. \/ rpc' = [rpc EXCEPT ![r] = Idle]
          \/ rpc' = [rpc EXCEPT ![r] = PutNext(rpc[r])]
      BY <1>6 DEF StatusWritten, StatusRefused, PutInstance
    <2> QED BY <1>1, <1>2, <1>3, <2>1 DEF TypeOK
  <1> QED BY <1>4, <1>5, <1>6 DEF RpcStep

\* A handler begins its heartbeat with LoadHeartbeat, its write with Beat.
LEMMA HandlerEffect ==
    ASSUME TypeOK, [Next]_vars, NEW r \in Rpc, rpc'[r].pc \in {"beat", "put"}
    PROVE  \/ rpc'[r] = rpc[r]
           \/ /\ LoadHeartbeat(r) /\ rpc'[r].pc = "beat"
              /\ rpc'[r].host = rpc[r].host /\ rpc'[r].since = now
              /\ rpc'[r].hb = tracked[rpc[r].host]
           \/ /\ Beat(r) /\ rpc'[r].pc = "put" /\ rpc'[r].host = rpc[r].host
              /\ rpc'[r].since = rpc[r].since /\ rpc'[r].ts = now
  <1>1. CASE UNCHANGED rpc
    BY <1>1
  <1>2. CASE \E q \in Rpc : RpcStep(q)
    BY <1>2, HandlerStep
  <1>3. CASE \E h \in Host : Report(h)
    <2>1. PICK q \in Rpc, h \in Host, kind \in {"host", "instance"}, want \in Reported :
              ReadHost(q, h, kind, want)
      BY <1>3 DEF Report
    <2>2. rpc'[q].pc = "load" /\ \A p \in Rpc \ {q} : rpc'[p] = rpc[p]
      BY <2>1 DEF ReadHost, TypeOK
    <2> QED BY <2>2
  <1>4. CASE World
    <2>1. CASE Crash
      BY <2>1 DEF Crash, Idle
    <2> QED BY <1>1, <1>4, <2>1
            DEF World, ChangeHostState, Onboard, Maintain, ToggleAgent
  <1>5. CASE Tick \/ Start \/ Sweep \/ HandleEvent \/ FindTrusted \/ SyncHosts
    BY <1>1, <1>5 DEF Tick, Start, Sweep, HandleEvent, FindTrusted, SyncHosts
  <1>6. CASE \/ \E g \in Host, i \in HbId : CheckHeartbeat(g, i) \/ SendLoss(g, i)
             \/ \E t \in Task : TakeLoss(t) \/ TaskStep(t)
    BY <1>1, <1>6 DEF CheckHeartbeat, SendLoss, TakeLoss, TaskStep, GetLostHost,
                      PutLostHost
  <1> QED BY <1>1, <1>2, <1>3, <1>4, <1>5, <1>6 DEF Next, vars

LEMMA TaskEffect ==
    ASSUME TypeOK, [Next]_vars, NEW t \in Task, task'[t].pc # "idle"
    PROVE  \/ /\ task[t].pc # "idle" /\ task'[t].host = task[t].host
              /\ task'[t].ts = task[t].ts
           \/ TakeLoss(t) /\ task'[t].ts = now /\ task'[t].host = Head(lossChan)
  <1>1. CASE UNCHANGED task
    BY <1>1
  <1>2. CASE \E u \in Task : TaskStep(u)
    <2>1. PICK u \in Task : TaskStep(u)
      BY <1>2
    <2>2. task[u] \in TaskState /\ task[u].pc # "idle" /\ Idle.pc = "idle"
      BY <2>1, BusyTask DEF TaskStep, GetLostHost, PutLostHost, Idle
    <2> DEFINE m == [task[u] EXCEPT !.pc = "put"]
               n == [task[u] EXCEPT !.pc = "get", !.left = @ - 1]
    <2>3. /\ m.host = task[u].host /\ m.ts = task[u].ts
          /\ n.host = task[u].host /\ n.ts = task[u].ts
      BY <2>2 DEF TaskState
    <2>4. \/ task' = [task EXCEPT ![u] = m]
          \/ task' = [task EXCEPT ![u] = n]
          \/ task' = [task EXCEPT ![u] = Idle]
      BY <2>1 DEF TaskStep, GetLostHost, PutLostHost, RetryOrGiveUp, TypeOK
    <2> HIDE DEF m, n
    <2> QED BY <2>2, <2>3, <2>4 DEF TypeOK
  <1>3. CASE \E u \in Task : TakeLoss(u)
    <2>1. PICK u \in Task : TakeLoss(u)
      BY <1>3
    <2> DEFINE m == [pc |-> "get", host |-> Head(lossChan), ts |-> now,
                     left |-> MaxRetries]
    <2>2. m.host = Head(lossChan) /\ m.ts = now
      OBVIOUS
    <2>3. task' = [task EXCEPT ![u] = m]
      BY <2>1 DEF TakeLoss
    <2> HIDE DEF m
    <2> QED BY <2>1, <2>2, <2>3 DEF TypeOK
  <1>4. CASE World
    <2>1. CASE Crash
      BY <2>1 DEF Crash, Idle
    <2> QED BY <1>1, <1>4, <2>1
            DEF World, ChangeHostState, Onboard, Maintain, ToggleAgent
  <1>5. CASE Tick \/ Start \/ Sweep \/ HandleEvent \/ FindTrusted \/ SyncHosts
    BY <1>1, <1>5 DEF Tick, Start, Sweep, HandleEvent, FindTrusted, SyncHosts
  <1>6. CASE \/ \E g \in Host, i \in HbId : CheckHeartbeat(g, i) \/ SendLoss(g, i)
             \/ \E r \in Rpc : RpcStep(r)
             \/ \E h \in Host : Report(h)
    BY <1>1, <1>6 DEF CheckHeartbeat, SendLoss, RpcStep, LoadHeartbeat, Beat,
                      StatusWritten, StatusRefused, PutInstance, Report, ReadHost
  <1> QED BY <1>1, <1>2, <1>3, <1>4, <1>5, <1>6 DEF Next, vars

\* Only a handler and a lost-connection goroutine write the status of a host.
LEMMA StatusEffect ==
    ASSUME TypeOK, [Next]_vars, NEW h \in Host
    PROVE  \/ inv'[h].status = inv[h].status /\ inv'[h].ts = inv[h].ts
           \/ \E r \in Rpc :
                 /\ rpc[r].pc = "put" /\ rpc[r].host = h
                 /\ inv'[h].status = rpc[r].plan /\ inv'[h].ts = rpc[r].ts
                 /\ UNCHANGED <<now, tracked, timer>>
           \/ \E t \in Task :
                 /\ task[t].pc = "put" /\ task[t].host = h
                 /\ inv'[h].status = "noConnection" /\ inv'[h].ts = task[t].ts
                 /\ UNCHANGED now
  <1>1. CASE UNCHANGED inv
    BY <1>1
  <1>2. CASE \E r \in Rpc : RpcStep(r)
    <2>1. PICK r \in Rpc : RpcStep(r)
      BY <1>2
    <2>2. rpc[r].host \in Host
      BY <2>1, HandlerStep
    <2>3. CASE PutInstance(r)
      BY <1>1, <2>2, <2>3, FieldKept DEF PutInstance
    <2>4. CASE StatusWritten(r) \/ StatusRefused(r)
      <3>1. CASE WriteStatus(rpc[r].host, rpc[r].plan, rpc[r].ts)
        BY <2>2, <2>4, <3>1, Written DEF StatusWritten, StatusRefused, world
      <3> QED BY <1>1, <2>4, <3>1 DEF StatusWritten, StatusRefused
    <2> QED BY <1>1, <2>1, <2>3, <2>4 DEF RpcStep, LoadHeartbeat, Beat
  <1>3. CASE \E t \in Task : TaskStep(t)
    <2>1. PICK t \in Task : TaskStep(t)
      BY <1>3
    <2>2. task[t].host \in Host
      BY <2>1, BusyTask DEF TaskStep, GetLostHost, PutLostHost
    <2>3. CASE PutLostHost(t) /\ WriteStatus(task[t].host, "noConnection", task[t].ts)
      BY <2>2, <2>3, Written DEF PutLostHost, world
    <2> QED BY <1>1, <2>1, <2>3 DEF TaskStep, GetLostHost, PutLostHost
  <1>4. CASE World
    <2>1. CASE Crash \/ \E g \in Host : ToggleAgent(g)
      BY <1>1, <2>1 DEF Crash, ToggleAgent
    <2>2. CASE \E g \in Host, state \in HostState : ChangeHostState(g, state)
      BY <2>2, FieldKept DEF ChangeHostState
    <2>3. CASE \E g \in Host, inst \in InstState : Onboard(g, inst)
      BY <2>3, FieldKept DEF Onboard
    <2>4. CASE \E g \in Host : Maintain(g)
      BY <2>4, FieldKept DEF Maintain
    <2> QED BY <1>4, <2>1, <2>2, <2>3, <2>4 DEF World
  <1>5. CASE Tick \/ Start \/ Sweep \/ HandleEvent \/ FindTrusted \/ SyncHosts
    BY <1>1, <1>5 DEF Tick, Start, Sweep, HandleEvent, FindTrusted, SyncHosts
  <1>6. CASE \/ \E g \in Host : Report(g)
             \/ \E g \in Host, i \in HbId : CheckHeartbeat(g, i) \/ SendLoss(g, i)
             \/ \E t \in Task : TakeLoss(t)
    BY <1>1, <1>6 DEF Report, ReadHost, CheckHeartbeat, SendLoss, TakeLoss
  <1> QED BY <1>1, <1>2, <1>3, <1>4, <1>5, <1>6 DEF Next, vars

\* Only Tick moves the clock.
LEMMA Clock ==
    ASSUME [Next]_vars
    PROVE  now' = now \/ Tick
  BY DEF Next, vars, world, World, Crash, Outside, ChangeHostState, Onboard,
         Maintain, ToggleAgent, Start, Sweep, Report, ReadHost, RpcStep,
         LoadHeartbeat, Beat, StatusWritten, StatusRefused, PutInstance,
         CheckHeartbeat, SendLoss, TakeLoss, TaskStep, GetLostHost,
         PutLostHost, HandleEvent, FindTrusted, SyncHosts

\* A host enters the heartbeat map with a fresh timer. It leaves the map with
\* the process, with an event on it, or by a reconciliation.
LEMMA WatchEffect ==
    ASSUME TypeOK, [Next]_vars, NEW h \in Host
    PROVE  \/ tracked'[h] = tracked[h]
           \/ /\ tracked'[h] \in HbId /\ timer'[h][tracked'[h]] = now + Timeout
              /\ gaveUp'[h] = FALSE
           \/ /\ tracked'[h] = NoHb
              /\ \/ Crash
                 \/ Start /\ h \notin HostsToWatch
                 \/ HandleEvent /\ Head(events).kind = "host" /\ Head(events).host = h
                 \/ SyncHosts /\ h \notin found
  <1>1. CASE UNCHANGED tracked
    BY <1>1
  <1>2. ASSUME NEW g \in Host, StoreHeartbeat(g)
        PROVE  \/ tracked'[h] = tracked[h]
               \/ /\ tracked'[h] \in HbId /\ timer'[h][tracked'[h]] = now + Timeout
                  /\ gaveUp'[h] = FALSE
    <2>1. PICK i \in FreeHb(g) : /\ tracked' = [tracked EXCEPT ![g] = i]
                                 /\ timer' = [timer EXCEPT ![g][i] = now + Timeout]
                                 /\ gaveUp' = [gaveUp EXCEPT ![g] = FALSE]
      BY <1>2, StoreType
    <2>2. i \in HbId
      BY DEF FreeHb
    <2>3. timer[g] \in [HbId -> 0..(MaxTime + Timeout)]
      BY DEF TypeOK
    <2>4. CASE g = h
      BY <2>1, <2>2, <2>3, <2>4 DEF TypeOK
    <2>5. CASE g # h
      BY <2>1, <2>5 DEF TypeOK
    <2> QED BY <2>4, <2>5
  <1>3. CASE \E r \in Rpc : RpcStep(r)
    <2>1. PICK r \in Rpc : RpcStep(r)
      BY <1>3
    <2>2. CASE Beat(r)
      <3>1. rpc[r].host \in Host
        BY <2>1, HandlerStep
      <3> QED BY <1>1, <1>2, <2>2, <3>1 DEF Beat, ResetTimer
    <2> QED BY <1>1, <2>1, <2>2
            DEF RpcStep, LoadHeartbeat, StatusWritten, StatusRefused, PutInstance
  <1>4. CASE HandleEvent
    <2>1. Head(events) \in Event
      BY <1>4 DEF HandleEvent, TypeOK
    <2>2. Head(events).host \in Host
      BY <2>1 DEF Event
    <2>3. CASE /\ Head(events).kind = "host"
               /\ tracked' = [tracked EXCEPT ![Head(events).host] = NoHb]
      BY <1>4, <2>2, <2>3 DEF TypeOK
    <2> QED BY <1>1, <1>2, <1>4, <2>2, <2>3 DEF HandleEvent
  <1>5. CASE SyncHosts
    BY <1>5 DEF SyncHosts
  <1>6. CASE Start
    <2>1. 1 \in HbId
      BY HostAvailabilityAssumption DEF HbId
    <2> QED BY <1>6, <2>1 DEF Start
  <1>7. CASE World
    BY <1>1, <1>7 DEF World, Crash, ChangeHostState, Onboard, Maintain, ToggleAgent
  <1>8. CASE Tick \/ Sweep \/ FindTrusted
    BY <1>1, <1>8 DEF Tick, Sweep, FindTrusted
  <1>9. CASE \/ \E g \in Host : Report(g)
             \/ \E g \in Host, i \in HbId : CheckHeartbeat(g, i) \/ SendLoss(g, i)
             \/ \E t \in Task : TakeLoss(t) \/ TaskStep(t)
    BY <1>1, <1>9 DEF Report, ReadHost, CheckHeartbeat, SendLoss, TakeLoss, TaskStep,
                      GetLostHost, PutLostHost
  <1> QED BY <1>1, <1>3, <1>4, <1>5, <1>6, <1>7, <1>8, <1>9 DEF Next, vars

\* A timer is set to a full period, or is consumed when it has expired.
LEMMA TimerEffect ==
    ASSUME TypeOK, [Next]_vars, NEW h \in Host, NEW i \in HbId
    PROVE  \/ timer'[h][i] = timer[h][i]
           \/ timer'[h][i] = now + Timeout
           \/ CheckHeartbeat(h, i) /\ Expired(h, i) /\ timer'[h][i] = NoTimer
           \/ Crash
           \/ Start
  <1>1. CASE UNCHANGED timer
    BY <1>1
  <1>2. ASSUME NEW g \in Host, NEW j \in HbId, NEW x,
               timer' = [timer EXCEPT ![g][j] = x]
        PROVE  timer'[h][i] = IF g = h /\ i = j THEN x ELSE timer[h][i]
    <2>1. timer[g] \in [HbId -> 0..(MaxTime + Timeout)]
      BY DEF TypeOK
    <2> QED BY <1>2, <2>1 DEF TypeOK
  <1>3. ASSUME NEW g \in Host, StoreHeartbeat(g)
        PROVE  timer'[h][i] \in {timer[h][i], now + Timeout}
    <2>1. PICK j \in FreeHb(g) : timer' = [timer EXCEPT ![g][j] = now + Timeout]
      BY <1>3, StoreType
    <2>2. j \in HbId
      BY DEF FreeHb
    <2> QED BY <1>2, <2>1, <2>2
  <1>4. CASE \E r \in Rpc : RpcStep(r)
    <2>1. PICK r \in Rpc : RpcStep(r)
      BY <1>4
    <2>2. CASE Beat(r)
      <3>1. rpc[r].host \in Host /\ rpc[r].hb \in HbId \cup {NoHb}
        BY <2>1, HandlerStep, RpcFields
      <3>2. CASE rpc[r].hb # NoHb /\ ResetTimer(rpc[r].host, rpc[r].hb)
        BY <1>2, <3>1, <3>2 DEF ResetTimer
      <3> QED BY <1>3, <2>2, <3>1, <3>2 DEF Beat
    <2> QED BY <1>1, <2>1, <2>2
            DEF RpcStep, LoadHeartbeat, StatusWritten, StatusRefused, PutInstance
  <1>5. CASE HandleEvent
    <2>1. Head(events) \in Event
      BY <1>5 DEF HandleEvent, TypeOK
    <2>2. Head(events).host \in Host
      BY <2>1 DEF Event
    <2> QED BY <1>1, <1>3, <1>5, <2>2 DEF HandleEvent
  <1>6. CASE \E g \in Host, j \in HbId : CheckHeartbeat(g, j)
    <2>1. PICK g \in Host, j \in HbId : CheckHeartbeat(g, j)
      BY <1>6
    <2>2. CASE Expired(g, j) /\ timer' = [timer EXCEPT ![g][j] = NoTimer]
      <3>1. timer'[h][i] = IF g = h /\ i = j THEN NoTimer ELSE timer[h][i]
        BY <1>2, <2>2
      <3> QED BY <2>1, <2>2, <3>1
    <2> QED BY <1>1, <2>1, <2>2 DEF CheckHeartbeat
  <1>7. CASE World
    BY <1>1, <1>7 DEF World, ChangeHostState, Onboard, Maintain, ToggleAgent
  <1>8. CASE Tick \/ Sweep \/ FindTrusted \/ SyncHosts
    BY <1>1, <1>8 DEF Tick, Sweep, FindTrusted, SyncHosts
  <1>9. CASE \/ \E g \in Host : Report(g)
             \/ \E g \in Host, j \in HbId : SendLoss(g, j)
             \/ \E t \in Task : TakeLoss(t) \/ TaskStep(t)
    BY <1>1, <1>9 DEF Report, ReadHost, SendLoss, TakeLoss, TaskStep,
                      GetLostHost, PutLostHost
  <1> QED BY <1>1, <1>4, <1>5, <1>6, <1>7, <1>8, <1>9 DEF Next, vars

\* An event about a host is streamed only when the host is deauthorised.
LEMMA EventEffect ==
    ASSUME TypeOK, [Next]_vars
    PROVE  \/ events' = events
           \/ events' = <<>>
           \/ events # <<>> /\ events' = Tail(events)
           \/ \E e \in Event : /\ events' = Append(events, e)
                               /\ e.kind = "host" => inv'[e.host].state # "trusted"
  <1> DEFINE Streamed ==
         \/ events' = events
         \/ \E e \in Event : /\ events' = Append(events, e)
                             /\ e.kind = "host" => inv'[e.host].state # "trusted"
  <1>1. ASSUME NEW h \in Host, NotifyHost(h, inv'[h].state)
        PROVE  Streamed
    <2> DEFINE e == [kind |-> "host", host |-> h]
    <2>1. e \in Event /\ e.host = h
      BY DEF Event
    <2>2. events' = events \/ (Deauthorised(inv'[h].state) /\ events' = Append(events, e))
      BY <1>1 DEF NotifyHost, Notify
    <2>3. Deauthorised(inv'[h].state) => inv'[h].state # "trusted"
      BY DEF Deauthorised
    <2> HIDE DEF e
    <2> QED BY <2>1, <2>2, <2>3
  <1>2. ASSUME NEW h \in Host, NEW inst, NotifyInstance(h, inst)
        PROVE  Streamed
    <2> DEFINE e == [kind |-> "instance", host |-> h]
    <2>1. e \in Event /\ e.kind # "host"
      BY DEF Event
    <2>2. events' = events \/ events' = Append(events, e)
      BY <1>2 DEF NotifyInstance, Notify
    <2> HIDE DEF e
    <2> QED BY <2>1, <2>2
  <1>3. ASSUME NEW h \in Host, NEW status, NEW ts, WriteStatus(h, status, ts)
        PROVE  Streamed
    <2>1. NotifyHost(h, inv[h].state) /\ inv'[h].state = inv[h].state
      BY <1>3, Written DEF WriteStatus
    <2> QED BY <1>1, <2>1
  <1>4. CASE UNCHANGED events
    BY <1>4
  <1>5. CASE \E r \in Rpc : RpcStep(r)
    <2>1. PICK r \in Rpc : RpcStep(r)
      BY <1>5
    <2>2. rpc[r].host \in Host
      BY <2>1, HandlerStep
    <2>3. CASE PutInstance(r)
      BY <1>2, <1>4, <2>2, <2>3 DEF PutInstance
    <2>4. CASE StatusWritten(r) \/ StatusRefused(r)
      BY <1>3, <1>4, <2>2, <2>4 DEF StatusWritten, StatusRefused
    <2> QED BY <1>4, <2>1, <2>3, <2>4 DEF RpcStep, LoadHeartbeat, Beat, northb
  <1>6. CASE \E t \in Task : TaskStep(t)
    <2>1. PICK t \in Task : TaskStep(t)
      BY <1>6
    <2>2. task[t].host \in Host
      BY <2>1, BusyTask DEF TaskStep, GetLostHost, PutLostHost
    <2> QED BY <1>3, <1>4, <2>1, <2>2 DEF TaskStep, GetLostHost, PutLostHost, northb
  <1>7. CASE World
    <2>1. CASE Crash
      BY <2>1 DEF Crash
    <2>2. CASE \E g \in Host, state \in HostState : ChangeHostState(g, state)
      <3>1. PICK g \in Host, state \in HostState : ChangeHostState(g, state)
        BY <2>2
      <3>2. inv'[g].state = state
        <4>1. inv' = [inv EXCEPT ![g].state = state]
          BY <3>1 DEF ChangeHostState
        <4>2. inv'[g].state = IF g = g THEN state ELSE inv[g].state
          BY <4>1, FieldKept, Zenon
        <4> QED BY <4>2
      <3> QED BY <1>1, <3>1, <3>2 DEF ChangeHostState
    <2>3. CASE \E g \in Host, inst \in InstState : Onboard(g, inst)
      BY <1>2, <2>3 DEF Onboard
    <2>4. CASE \E g \in Host : Maintain(g)
      BY <1>2, <2>4 DEF Maintain
    <2>5. CASE \E g \in Host : ToggleAgent(g)
      BY <1>4, <2>5 DEF ToggleAgent, northb
    <2> QED BY <1>7, <2>1, <2>2, <2>3, <2>4, <2>5 DEF World
  <1>8. CASE HandleEvent
    BY <1>8 DEF HandleEvent
  <1>9. CASE \/ Tick \/ Start \/ Sweep \/ FindTrusted \/ SyncHosts
             \/ \E g \in Host : Report(g)
             \/ \E g \in Host, i \in HbId : CheckHeartbeat(g, i) \/ SendLoss(g, i)
             \/ \E t \in Task : TakeLoss(t)
    BY <1>4, <1>9 DEF Tick, Start, Sweep, FindTrusted, SyncHosts, Report, ReadHost,
                      CheckHeartbeat, SendLoss, TakeLoss, northb
  <1> QED BY <1>4, <1>5, <1>6, <1>7, <1>8, <1>9 DEF Next, vars

\* A reconciliation keeps the list it began with.
LEMMA FoundEffect ==
    ASSUME [Next]_vars, nbPc' = "sync"
    PROVE  \/ nbPc = "sync" /\ found' = found
           \/ found' = TrustedHosts /\ UNCHANGED inv
  BY DEF Next, vars, northb, World, Crash, ChangeHostState, Onboard,
         Maintain, ToggleAgent, Start, Sweep, Report, ReadHost, RpcStep, Tick,
         LoadHeartbeat, Beat, StatusWritten, StatusRefused, PutInstance,
         CheckHeartbeat, SendLoss, TakeLoss, TaskStep, GetLostHost,
         PutLostHost, HandleEvent, FindTrusted, SyncHosts

(* The parts of IndInv, one lemma each. *)

LEMMA ForgetsStep ==
    ASSUME TypeOK, ForgetsUntrusted, [Next]_vars
    PROVE  ForgetsUntrusted'
  <1>1. ASSUME NEW k \in 1..Len(events'), events'[k].kind = "host"
        PROVE  inv'[events'[k].host].state # "trusted"
    <2>1. events \in Seq(Event)
      BY DEF TypeOK
    <2>2. ASSUME NEW j \in 1..Len(events), events[j].kind = "host"
          PROVE  inv'[events[j].host].state # "trusted"
      <3>1. inv[events[j].host].state # "trusted"
        BY <2>2 DEF ForgetsUntrusted
      <3>2. events[j].host \in Host
        <4>1. events[j] \in Event
          BY <2>1
        <4> QED BY <4>1 DEF Event
      <3> QED BY <3>1, <3>2, TrustKept
    <2>3. CASE events' = events
      BY <1>1, <2>2, <2>3
    <2>4. CASE events' = <<>>
      BY <1>1, <2>4
    <2>5. CASE events # <<>> /\ events' = Tail(events)
      <3>1. Len(events') = Len(events) - 1 /\ Len(events) \in Nat
        BY <2>1, <2>5
      <3>2. k + 1 \in 1..Len(events) /\ events'[k] = events[k + 1]
        BY <2>1, <2>5, <3>1
      <3> QED BY <1>1, <2>2, <3>2
    <2>6. ASSUME NEW e \in Event, events' = Append(events, e),
                 e.kind = "host" => inv'[e.host].state # "trusted"
          PROVE  inv'[events'[k].host].state # "trusted"
      <3>1. CASE k = Len(events) + 1
        BY <1>1, <2>1, <2>6, <3>1
      <3>2. CASE k # Len(events) + 1
        <4>1. k \in 1..Len(events) /\ events'[k] = events[k]
          BY <2>1, <2>6, <3>2
        <4> QED BY <1>1, <2>2, <4>1
      <3> QED BY <3>1, <3>2
    <2> QED BY <2>3, <2>4, <2>5, <2>6, EventEffect
  <1>2. ASSUME nbPc' = "sync", NEW h \in Host \ found'
        PROVE  inv'[h].state # "trusted"
    <2>1. CASE nbPc = "sync" /\ found' = found
      BY <2>1, <1>2, TrustKept DEF ForgetsUntrusted
    <2>2. CASE found' = TrustedHosts /\ UNCHANGED inv
      BY <2>2, <1>2 DEF TrustedHosts
    <2> QED BY <1>2, <2>1, <2>2, FoundEffect
  <1> QED BY <1>1, <1>2 DEF ForgetsUntrusted

\* The step behind TrustedHostStaysWatched.
LEMMA StaysWatched ==
    ASSUME TypeOK, DownIsEmpty, ForgetsUntrusted, [Next]_vars, up',
           NEW h \in Host, inv[h].state = "trusted", Watched(h)
    PROVE  Watched(h)'
  <1>1. ~Crash
    BY DEF Crash
  <1>2. ~Start
    BY DEF Start, DownIsEmpty, Watched
  <1>3. ~(HandleEvent /\ Head(events).kind = "host" /\ Head(events).host = h)
    <2> SUFFICES ASSUME HandleEvent PROVE ~(Head(events).kind = "host" /\ Head(events).host = h)
      OBVIOUS
    <2>1. events \in Seq(Event) /\ events # <<>>
      BY DEF HandleEvent, TypeOK
    <2>2. 1 \in 1..Len(events) /\ Head(events) = events[1]
      BY <2>1
    <2> QED BY <2>2 DEF ForgetsUntrusted
  <1>4. ~(SyncHosts /\ h \notin found)
    BY DEF SyncHosts, ForgetsUntrusted
  <1>5. \A i \in HbId : i # NoHb
    BY DEF HbId, NoHb
  <1> QED BY <1>1, <1>2, <1>3, <1>4, <1>5, WatchEffect DEF Watched

LEMMA HandlerWatchedStep ==
    ASSUME TypeOK, DownIsEmpty, HandlerIsWatched, ForgetsUntrusted, [Next]_vars
    PROVE  HandlerIsWatched'
  <1> SUFFICES ASSUME NEW r \in Rpc, NEW h, h = rpc'[r].host,
                      rpc'[r].pc = "put" \/ (rpc'[r].pc = "beat" /\ rpc'[r].hb # NoHb),
                      inv'[h].state = "trusted"
               PROVE  Watched(h)'
    BY DEF HandlerIsWatched, Watched
  <1>1. rpc'[r] \in RpcState
    BY TypeNext DEF TypeOK, Idle
  <1>2. h \in Host /\ inv[h].state = "trusted"
    <2>1. h \in Host
      BY <1>1, RpcFields
    <2> QED BY <2>1, TrustKept
  <1>3. up'
    <2>1. rpc'[r] # Idle
      BY <1>1, RpcFields
    <2> QED BY <2>1, DownStep DEF DownIsEmpty
  <1>4. CASE rpc'[r] = rpc[r]
    BY <1>2, <1>3, <1>4, StaysWatched DEF HandlerIsWatched
  <1>5. CASE /\ LoadHeartbeat(r) /\ rpc'[r].pc = "beat"
             /\ h = rpc[r].host /\ rpc'[r].hb = tracked[rpc[r].host]
    BY <1>5 DEF LoadHeartbeat, Watched
  <1>6. CASE Beat(r) /\ h = rpc[r].host
    <2>1. CASE rpc[r].hb # NoHb /\ ResetTimer(h, rpc[r].hb)
      BY <1>2, <1>3, <1>6, <2>1, StaysWatched DEF Beat, HandlerIsWatched
    <2>2. CASE StoreHeartbeat(h)
      <3>1. PICK i \in FreeHb(h) : tracked' = [tracked EXCEPT ![h] = i]
        BY <1>2, <2>2, StoreType
      <3>2. i # NoHb
        BY DEF FreeHb, HbId, NoHb
      <3> QED BY <1>2, <3>1, <3>2 DEF TypeOK, Watched
    <2> QED BY <1>6, <2>1, <2>2 DEF Beat
  <1> QED BY <1>4, <1>5, <1>6, HandlerEffect

LEMMA TimelyStep ==
    ASSUME TypeOK, Timely, [Next]_vars
    PROVE  Timely'
  <1>1. now \in Nat /\ now' \in Nat /\ now' >= now
    <2>1. now \in 0..MaxTime
      BY DEF TypeOK
    <2> QED BY <2>1, Clock, HostAvailabilityAssumption DEF Tick
  <1>2. ASSUME NEW h \in Host
        PROVE  inv'[h].ts =< now'
    <2>1. inv[h].ts =< now /\ inv[h].ts \in Nat
      <3>1. inv[h] \in HostRecord
        BY DEF TypeOK
      <3> QED BY <3>1, HostAvailabilityAssumption DEF Timely, HostRecord
    <2>2. CASE inv'[h].ts = inv[h].ts
      BY <1>1, <2>1, <2>2
    <2>3. ASSUME NEW r \in Rpc, rpc[r].pc = "put", inv'[h].ts = rpc[r].ts
          PROVE  inv'[h].ts =< now'
      <3>1. rpc[r].ts =< now /\ rpc[r].ts \in Nat
        BY <2>3, BusyRpc, RpcFields, HostAvailabilityAssumption DEF Timely
      <3> QED BY <1>1, <2>3, <3>1
    <2>4. ASSUME NEW t \in Task, task[t].pc = "put", inv'[h].ts = task[t].ts
          PROVE  inv'[h].ts =< now'
      <3>1. task[t].ts =< now /\ task[t].ts \in Nat
        BY <2>4, BusyTask, HostAvailabilityAssumption DEF Timely
      <3> QED BY <1>1, <2>4, <3>1
    <2> QED BY <2>2, <2>3, <2>4, StatusEffect
  <1>3. ASSUME NEW t \in Task, task'[t].pc # "idle"
        PROVE  task'[t].ts =< now'
    <2>1. CASE task[t].pc # "idle" /\ task'[t].ts = task[t].ts
      <3>1. task[t].ts =< now /\ task[t].ts \in Nat
        BY <2>1, BusyTask, HostAvailabilityAssumption DEF Timely
      <3> QED BY <1>1, <2>1, <3>1
    <2> QED BY <1>1, <1>3, <2>1, TaskEffect
  <1>4. ASSUME NEW r \in Rpc, rpc'[r].pc \in {"beat", "put"}
        PROVE  /\ rpc'[r].since =< now' /\ now' < rpc'[r].since + InvTimeout
               /\ rpc'[r].pc = "put" => rpc'[r].ts =< now'
    <2>1. CASE rpc'[r] = rpc[r]
      <3>1. /\ rpc[r].since =< now /\ now < rpc[r].since + InvTimeout
            /\ rpc[r].pc = "put" => rpc[r].ts =< now
            /\ rpc[r].since \in Nat /\ rpc[r].ts \in Nat
        BY <1>4, <2>1, BusyRpc, RpcFields, HostAvailabilityAssumption DEF Timely
      <3>2. now' = now \/ now' < rpc[r].since + InvTimeout
        BY <1>4, <2>1, Clock DEF Tick
      <3> QED BY <1>1, <2>1, <3>1, <3>2
    <2>2. CASE LoadHeartbeat(r) /\ rpc'[r].pc = "beat" /\ rpc'[r].since = now
      BY <1>1, <2>2, HostAvailabilityAssumption DEF LoadHeartbeat, world
    <2>3. CASE /\ Beat(r) /\ rpc'[r].pc = "put"
               /\ rpc'[r].since = rpc[r].since /\ rpc'[r].ts = now
      BY <1>1, <2>3 DEF Beat, world, Timely
    <2> QED BY <1>4, <2>1, <2>2, <2>3, HandlerEffect
  <1> QED BY <1>2, <1>3, <1>4 DEF Timely

LEMMA KeepsTimerStep ==
    ASSUME TypeOK, DownIsEmpty, Timely, HandlerKeepsTimer, [Next]_vars
    PROVE  HandlerKeepsTimer'
  <1> SUFFICES ASSUME NEW r \in Rpc, NEW h, h = rpc'[r].host, tracked'[h] # NoHb,
                      \/ rpc'[r].pc = "put"
                      \/ rpc'[r].pc = "beat" /\ tracked'[h] # rpc'[r].hb
               PROVE  timer'[h][tracked'[h]] >= rpc'[r].since + Timeout
    BY DEF HandlerKeepsTimer, Watched
  <1> DEFINE i == tracked'[h]
  <1>1. rpc'[r] \in RpcState /\ h \in Host
    BY TypeNext, RpcFields DEF TypeOK, Idle
  <1>2. i \in HbId /\ timer[h][i] \in Int
    <2>1. i \in HbId
      BY <1>1, TypeNext DEF TypeOK
    <2>2. timer[h] \in [HbId -> 0..(MaxTime + Timeout)]
      BY <1>1 DEF TypeOK
    <2> QED BY <2>1, <2>2
  <1>3. rpc'[r].since \in Nat /\ now \in Nat /\ rpc'[r].since =< now
    <2>1. rpc'[r].since \in Nat /\ now \in Nat
      BY <1>1, RpcFields, HostAvailabilityAssumption DEF TypeOK
    <2>2. \/ rpc'[r] = rpc[r]
          \/ rpc'[r].since = now
          \/ Beat(r) /\ rpc'[r].since = rpc[r].since
      BY HandlerEffect
    <2> QED BY <2>1, <2>2 DEF Timely, Beat
  <1>4. timer'[h][i] = now + Timeout => timer'[h][i] >= rpc'[r].since + Timeout
    BY <1>3, HostAvailabilityAssumption
  <1>5. ~Crash /\ ~Start
    <2>1. ~Crash
      BY DEF Crash, Idle
    <2>2. rpc[r] # Idle \/ rpc'[r] # rpc[r]
      BY DEF Idle
    <2> QED BY <2>1, <2>2 DEF Start, DownIsEmpty
  <1>6. ASSUME tracked[h] = i, timer'[h][i] = timer[h][i]
        PROVE  timer'[h][i] >= rpc'[r].since + Timeout
    <2>1. CASE rpc'[r] = rpc[r]
      BY <1>6, <2>1 DEF HandlerKeepsTimer, Watched
    <2>2. CASE /\ Beat(r) /\ rpc'[r].pc = "put" /\ h = rpc[r].host
               /\ rpc'[r].since = rpc[r].since
      <3>1. CASE ResetTimer(h, rpc[r].hb) /\ rpc[r].hb = i
        <4>1. timer' = [timer EXCEPT ![h][i] = now + Timeout]
          BY <3>1 DEF ResetTimer
        <4>2. timer[h] \in [HbId -> 0..(MaxTime + Timeout)]
          BY <1>1 DEF TypeOK
        <4>3. timer'[h][i] = now + Timeout
          BY <1>1, <1>2, <4>1, <4>2 DEF TypeOK
        <4> QED BY <1>4, <4>3
      <3>2. CASE rpc[r].hb # i
        BY <1>6, <2>2, <3>2 DEF Beat, HandlerKeepsTimer, Watched
      <3>3. CASE StoreHeartbeat(h)
        <4>1. PICK j \in FreeHb(h) : tracked' = [tracked EXCEPT ![h] = j]
          BY <1>1, <3>3, StoreType
        <4> QED BY <1>1, <1>6, <4>1 DEF FreeHb, TypeOK
      <3> QED BY <2>2, <3>1, <3>2, <3>3 DEF Beat
    <2>3. CASE LoadHeartbeat(r) /\ rpc'[r].hb = tracked[rpc[r].host] /\ h = rpc[r].host
               /\ rpc'[r].pc = "beat"
      BY <1>6, <2>3
    <2> QED BY <2>1, <2>2, <2>3, HandlerEffect
  <1>7. ASSUME tracked[h] = i, CheckHeartbeat(h, i), Expired(h, i)
        PROVE  FALSE
    <2>1. rpc' = rpc
      BY <1>7 DEF CheckHeartbeat
    <2>2. timer[h][i] >= rpc[r].since + Timeout
      BY <1>7, <2>1 DEF HandlerKeepsTimer, Watched
    <2>3. now < rpc[r].since + InvTimeout
      BY <2>1 DEF Timely
    <2> QED BY <1>2, <1>3, <1>7, <2>1, <2>2, <2>3, HostAvailabilityAssumption DEF Expired
  <1>8. CASE tracked'[h] = tracked[h]
    BY <1>1, <1>2, <1>4, <1>5, <1>6, <1>7, <1>8, TimerEffect
  <1> HIDE DEF i
  <1> QED BY <1>1, <1>4, <1>8, WatchEffect DEF i

LEMMA RunningWatchedStep ==
    ASSUME TypeOK, DownIsEmpty, HandlerIsWatched, ForgetsUntrusted,
           RunningHostIsWatched, [Next]_vars
    PROVE  RunningHostIsWatched'
  <1> SUFFICES ASSUME NEW h \in Host, up', inv'[h].state = "trusted",
                      inv'[h].status = "running"
               PROVE  Watched(h)'
    BY DEF RunningHostIsWatched
  <1>1. inv[h].state = "trusted"
    BY TrustKept
  <1>2. CASE inv[h].status = "running" /\ up
    BY <1>1, <1>2, StaysWatched DEF RunningHostIsWatched
  <1>3. CASE inv[h].status = "running" /\ ~up
    <2>1. Start
      BY <1>3 DEF Next, vars, world, World, Crash, ChangeHostState, Onboard,
         Maintain, ToggleAgent, Sweep, Report, ReadHost, RpcStep, Tick,
         LoadHeartbeat, Beat, StatusWritten, StatusRefused, PutInstance,
         CheckHeartbeat, SendLoss, TakeLoss, TaskStep, GetLostHost,
         PutLostHost, HandleEvent, FindTrusted, SyncHosts
    <2>2. h \in HostsToWatch
      BY <1>1, <1>3 DEF HostsToWatch
    <2>3. tracked'[h] = 1
      BY <2>1, <2>2 DEF Start
    <2> QED BY <2>3 DEF Watched, NoHb
  <1>4. ASSUME NEW r \in Rpc, rpc[r].pc = "put", rpc[r].host = h, UNCHANGED tracked
        PROVE  Watched(h)'
    BY <1>1, <1>4 DEF HandlerIsWatched, Watched
  <1> QED BY <1>2, <1>3, <1>4, StatusEffect

(* A loss stays on its way. *)

LEMMA AppendKeeps ==
    ASSUME TypeOK, NEW g \in Host, lossChan' = Append(lossChan, g), NEW h,
           g = h \/ \E k \in 1..Len(lossChan) : lossChan[k] = h
    PROVE  \E k \in 1..Len(lossChan') : lossChan'[k] = h
  <1>1. lossChan \in Seq(Host)
    BY DEF TypeOK
  <1>2. CASE g = h
    <2>1. Len(lossChan) + 1 \in 1..Len(lossChan') /\ lossChan'[Len(lossChan) + 1] = h
      BY <1>1, <1>2
    <2> QED BY <2>1
  <1>3. ASSUME NEW k \in 1..Len(lossChan), lossChan[k] = h
        PROVE  k \in 1..Len(lossChan') /\ lossChan'[k] = h
    BY <1>1, <1>3
  <1> QED BY <1>2, <1>3

LEMMA TailKeeps ==
    ASSUME TypeOK, lossChan # <<>>, lossChan' = Tail(lossChan), NEW h,
           \E k \in 1..Len(lossChan) : lossChan[k] = h
    PROVE  \/ Head(lossChan) = h
           \/ \E k \in 1..Len(lossChan') : lossChan'[k] = h
  <1>1. lossChan \in Seq(Host)
    BY DEF TypeOK
  <1>2. PICK k \in 1..Len(lossChan) : lossChan[k] = h
    OBVIOUS
  <1>3. CASE k = 1
    BY <1>1, <1>2, <1>3
  <1>4. CASE k # 1
    <2>1. k - 1 \in 1..Len(lossChan') /\ lossChan'[k - 1] = lossChan[k]
      BY <1>1, <1>4
    <2> QED BY <1>2, <2>1
  <1> QED BY <1>3, <1>4

\* One attempt of a goroutine: its loss is still to be written, or was given
\* up, or was not to be written over the status now shown.
LEMMA AttemptKeeps ==
    ASSUME TypeOK, NEW h \in Host, NEW t \in Task, TaskStep(t),
           inv[h].status \in Connected, inv'[h].status \in Connected,
           inv'[h].ts = inv[h].ts, gaveUp[h] \/ EffectiveLoss(h)
    PROVE  gaveUp'[h] \/ EffectiveLoss(h)'
  <1>1. task[t] \in TaskState /\ task[t].host \in Host /\ Idle.pc = "idle"
    BY BusyTask DEF TaskStep, GetLostHost, PutLostHost, Idle
  <1>2. UNCHANGED <<lossChan, sending>>
    BY DEF TaskStep, GetLostHost, PutLostHost, checking
  <1>3. ASSUME gaveUp[h]
        PROVE  gaveUp'[h]
    BY <1>1, <1>3 DEF TaskStep, GetLostHost, PutLostHost, RetryOrGiveUp, TypeOK
  <1>4. ASSUME NEW u \in Task, task[u].pc # "idle", task[u].host = h,
               inv[h].ts < task[u].ts
        PROVE  gaveUp'[h] \/ EffectiveLoss(h)'
    <2>1. CASE task'[u].pc # "idle" /\ task'[u].host = h /\ task'[u].ts = task[u].ts
      BY <1>4, <2>1 DEF EffectiveLoss
    <2> DEFINE m == [task[t] EXCEPT !.pc = "put"]
               n == [task[t] EXCEPT !.pc = "get", !.left = @ - 1]
    <2>2. /\ m.pc = "put" /\ m.host = task[t].host /\ m.ts = task[t].ts
          /\ n.pc = "get" /\ n.host = task[t].host /\ n.ts = task[t].ts
      BY <1>1 DEF TaskState
    <2>3. \/ task' = [task EXCEPT ![t] = m]
          \/ task' = [task EXCEPT ![t] = n]
          \/ /\ task' = [task EXCEPT ![t] = Idle]
             /\ \/ gaveUp' = [gaveUp EXCEPT ![task[t].host] = TRUE]
                \/ GetLostHost(t) /\ ~MayMarkLost(inv[task[t].host], task[t].ts)
                \/ inv'[task[t].host].status = "noConnection"
      <3>1. CASE RetryOrGiveUp(t)
        BY <3>1 DEF RetryOrGiveUp, TypeOK
      <3>2. CASE GetLostHost(t) /\ ~RetryOrGiveUp(t)
        BY <1>1, <3>2 DEF GetLostHost, TypeOK
      <3>3. CASE PutLostHost(t) /\ ~RetryOrGiveUp(t)
        <4>1. WriteStatus(task[t].host, "noConnection", task[t].ts)
          BY <3>3 DEF PutLostHost
        <4>2. inv'[task[t].host].status = "noConnection"
          BY <1>1, <4>1, Written
        <4> QED BY <3>3, <4>2 DEF PutLostHost
      <3> QED BY <3>1, <3>2, <3>3 DEF TaskStep
    <2> HIDE DEF m, n
    <2>4. CASE u # t
      BY <1>4, <2>1, <2>3, <2>4 DEF TypeOK
    <2>5. CASE u = t
      <3>1. MayMarkLost(inv[h], task[t].ts)
        BY <1>4, <2>5 DEF MayMarkLost
      <3>2. inv'[h].status # "noConnection"
        BY DEF Connected
      <3> QED BY <1>4, <2>1, <2>2, <2>3, <2>5, <3>1, <3>2 DEF TypeOK
    <2> QED BY <2>4, <2>5
  <1>5. CASE \/ \E k \in 1..Len(lossChan) : lossChan[k] = h
             \/ \E i \in HbId : <<h, i>> \in sending
    BY <1>2, <1>5 DEF EffectiveLoss
  <1> QED BY <1>3, <1>4, <1>5 DEF EffectiveLoss

\* A check and a blocked send pass a loss on.
LEMMA CheckKeeps ==
    ASSUME TypeOK, NEW h \in Host, NEW g \in Host, NEW i \in HbId,
           CheckHeartbeat(g, i) \/ SendLoss(g, i),
           \/ gaveUp[h] \/ EffectiveLoss(h)
           \/ g = h /\ CheckHeartbeat(g, i) /\ Expired(g, i)
    PROVE  gaveUp'[h] \/ EffectiveLoss(h)'
  <1>1. task' = task /\ inv' = inv
    BY DEF CheckHeartbeat, SendLoss
  <1>2. CASE CheckHeartbeat(g, i) /\ ~Expired(g, i)
    BY <1>1, <1>2 DEF CheckHeartbeat, EffectiveLoss
  <1>3. CASE CheckHeartbeat(g, i) /\ Expired(g, i)
    <2>1. gaveUp' = [gaveUp EXCEPT ![g] = FALSE]
      BY <1>3 DEF CheckHeartbeat
    <2>2. CASE lossChan' = Append(lossChan, g) /\ UNCHANGED sending
      BY <1>1, <2>1, <2>2, AppendKeeps DEF EffectiveLoss, TypeOK
    <2>3. CASE sending' = sending \cup {<<g, i>>} /\ UNCHANGED lossChan
      BY <1>1, <2>1, <2>3 DEF EffectiveLoss, TypeOK
    <2> QED BY <1>3, <2>2, <2>3 DEF CheckHeartbeat
  <1>4. CASE SendLoss(g, i)
    <2>1. /\ gaveUp' = gaveUp /\ lossChan' = Append(lossChan, g)
          /\ sending' = sending \ {<<g, i>>}
      BY <1>4 DEF SendLoss
    <2>2. g = h => \E k \in 1..Len(lossChan') : lossChan'[k] = h
      BY <2>1, AppendKeeps
    <2>3. g # h => \A j \in HbId : <<h, j>> \in sending => <<h, j>> \in sending'
      BY <2>1
    <2>5. CASE g = h
      BY <2>2, <2>5 DEF EffectiveLoss
    <2>6. CASE g # h /\ \E k \in 1..Len(lossChan) : lossChan[k] = h
      BY <2>1, <2>6, AppendKeeps DEF EffectiveLoss
    <2>7. CASE g # h /\ ~\E k \in 1..Len(lossChan) : lossChan[k] = h
      BY <1>1, <1>4, <2>1, <2>3, <2>7 DEF EffectiveLoss, CheckHeartbeat, SendLoss
    <2> QED BY <2>5, <2>6, <2>7
  <1> QED BY <1>2, <1>3, <1>4

\* The loss of a host whose timer was consumed, whatever step is taken.
LEMMA LossKept ==
    ASSUME TypeOK, HandlerKeepsTimer, Timely, [Next]_vars, NEW h \in Host,
           Watched(h), tracked'[h] = tracked[h],
           timer[h][tracked[h]] = NoTimer, timer'[h][tracked[h]] = NoTimer,
           ~Crash, ~Start,
           inv[h].status \in Connected, inv'[h].status \in Connected,
           inv[h].ts < now, inv'[h].ts = inv[h].ts,
           gaveUp[h] \/ EffectiveLoss(h)
    PROVE  gaveUp'[h] \/ EffectiveLoss(h)'
  <1>1. now \in Nat /\ Timeout \in Nat /\ now + Timeout # NoTimer
    BY HostAvailabilityAssumption DEF TypeOK, NoTimer
  <1>2. CASE UNCHANGED <<lossChan, sending, task>> /\ (gaveUp[h] => gaveUp'[h])
    BY <1>2 DEF EffectiveLoss
  <1>3. ~StoreHeartbeat(h)
    <2> SUFFICES ASSUME StoreHeartbeat(h) PROVE FALSE
      OBVIOUS
    <2>1. PICK i \in FreeHb(h) : tracked' = [tracked EXCEPT ![h] = i]
      BY StoreType
    <2> QED BY <2>1 DEF FreeHb, TypeOK
  <1>4. ASSUME NEW g \in Host, StoreHeartbeat(g)
        PROVE  gaveUp[h] => gaveUp'[h]
    BY <1>3, <1>4 DEF StoreHeartbeat, TypeOK
  <1>5. CASE \E r \in Rpc : RpcStep(r)
    <2>1. PICK r \in Rpc : RpcStep(r)
      BY <1>5
    <2>2. rpc[r] \in RpcState /\ rpc[r].host \in Host
      BY <2>1, HandlerStep
    <2>3. CASE Beat(r) /\ rpc[r].hb # NoHb /\ ResetTimer(rpc[r].host, rpc[r].hb)
      <3>1. rpc[r].host # h
        <4> SUFFICES ASSUME rpc[r].host = h PROVE FALSE
          OBVIOUS
        <4>1. rpc[r].hb \in HbId
          BY <2>2, <2>3, RpcFields
        <4>2. CASE rpc[r].hb = tracked[h]
          <5>1. timer' = [timer EXCEPT ![h][tracked[h]] = now + Timeout]
            BY <2>3, <4>2 DEF ResetTimer
          <5>2. timer[h] \in [HbId -> 0..(MaxTime + Timeout)]
            BY DEF TypeOK
          <5>3. timer'[h][tracked[h]] = now + Timeout
            BY <4>1, <4>2, <5>1, <5>2 DEF TypeOK
          <5> QED BY <1>1, <5>3
        <4>3. CASE rpc[r].hb # tracked[h]
          <5>1. timer[h][tracked[h]] >= rpc[r].since + Timeout
            BY <2>3, <4>3 DEF Beat, HandlerKeepsTimer
          <5>2. rpc[r].since \in Nat
            BY <2>2, RpcFields, HostAvailabilityAssumption
          <5> QED BY <5>1, <5>2, HostAvailabilityAssumption DEF NoTimer
        <4> QED BY <4>2, <4>3
      <3>2. gaveUp' = [gaveUp EXCEPT ![rpc[r].host] = FALSE]
        BY <2>3 DEF ResetTimer
      <3> QED BY <1>2, <2>3, <3>1, <3>2 DEF Beat, checking, TypeOK
    <2>4. CASE Beat(r) /\ StoreHeartbeat(rpc[r].host)
      BY <1>2, <1>4, <2>2, <2>4 DEF Beat, checking
    <2>5. CASE ~Beat(r)
      BY <1>2, <2>1, <2>5 DEF RpcStep, LoadHeartbeat, StatusWritten, StatusRefused,
                              PutInstance, checking
    <2> QED BY <2>3, <2>4, <2>5 DEF Beat
  <1>6. CASE HandleEvent
    <2>1. Head(events) \in Event
      BY <1>6 DEF HandleEvent, TypeOK
    <2>2. Head(events).host \in Host
      BY <2>1 DEF Event
    <2> QED BY <1>2, <1>4, <1>6, <2>2 DEF HandleEvent, checking
  <1>7. CASE \E t \in Task : TakeLoss(t)
    <2>1. PICK t \in Task : TakeLoss(t)
      BY <1>7
    <2>2. /\ lossChan # <<>> /\ lossChan' = Tail(lossChan) /\ task[t] = Idle
          /\ UNCHANGED <<sending, gaveUp, inv>>
      BY <2>1 DEF TakeLoss
    <2> DEFINE m == [pc |-> "get", host |-> Head(lossChan), ts |-> now,
                     left |-> MaxRetries]
    <2>3. m.pc # "idle" /\ m.host = Head(lossChan) /\ m.ts = now
      OBVIOUS
    <2>4. task' = [task EXCEPT ![t] = m]
      BY <2>1 DEF TakeLoss
    <2> HIDE DEF m
    <2>5. CASE \E k \in 1..Len(lossChan) : lossChan[k] = h
      <3>1. CASE Head(lossChan) = h
        <4>1. /\ task'[t].pc # "idle" /\ task'[t].host = h
              /\ inv'[h].ts < task'[t].ts
          BY <2>2, <2>3, <2>4, <3>1 DEF TypeOK
        <4> QED BY <4>1 DEF EffectiveLoss
      <3>2. CASE \E k \in 1..Len(lossChan') : lossChan'[k] = h
        BY <3>2 DEF EffectiveLoss
      <3> QED BY <2>2, <2>5, <3>1, <3>2, TailKeeps
    <2>6. CASE \/ gaveUp[h]
               \/ \E i \in HbId : <<h, i>> \in sending
      BY <2>2, <2>6 DEF EffectiveLoss
    <2>7. ASSUME NEW u \in Task, task[u].pc # "idle", task[u].host = h,
                 inv[h].ts < task[u].ts
          PROVE  EffectiveLoss(h)'
      <3>1. task'[u] = task[u]
        BY <2>2, <2>4, <2>7 DEF TypeOK, Idle
      <3> QED BY <2>2, <2>7, <3>1 DEF EffectiveLoss
    <2> QED BY <2>5, <2>6, <2>7 DEF EffectiveLoss
  <1>8. CASE World
    BY <1>2, <1>8 DEF World, ChangeHostState, Onboard, Maintain, ToggleAgent, checking
  <1>9. CASE UNCHANGED vars \/ Tick \/ Sweep \/ FindTrusted \/ SyncHosts
    BY <1>2, <1>9 DEF vars, Tick, Sweep, FindTrusted, SyncHosts, checking
  <1>10. CASE \E g \in Host : Report(g)
    BY <1>2, <1>10 DEF Report, ReadHost, checking
  <1>11. CASE \E g \in Host, i \in HbId : CheckHeartbeat(g, i) \/ SendLoss(g, i)
    BY <1>11, CheckKeeps
  <1>12. CASE \E t \in Task : TaskStep(t)
    BY <1>12, AttemptKeeps
  <1> QED BY <1>5, <1>6, <1>7, <1>8, <1>9, <1>10, <1>11, <1>12 DEF Next

LEMMA StatusAgeStep ==
    ASSUME TypeOK, DownIsEmpty, Timely, HandlerKeepsTimer, StatusAge, [Next]_vars
    PROVE  StatusAge'
  <1> SUFFICES ASSUME NEW h \in Host, Watched(h)', inv'[h].status \in Connected
               PROVE  /\ Armed(h)' => inv'[h].ts < timer'[h][tracked'[h]]
                      /\ ~Armed(h)' => /\ inv'[h].ts < now'
                                       /\ gaveUp'[h] \/ EffectiveLoss(h)'
    BY DEF StatusAge
  <1> DEFINE i == tracked'[h]
  <1>1. /\ i \in HbId /\ timer[h][i] \in Int
        /\ now \in Nat /\ now' \in Nat /\ now =< now'
        /\ inv[h].ts \in Nat /\ inv'[h].ts \in Nat /\ inv[h].ts =< now
    <2>1. i \in HbId
      BY TypeNext DEF TypeOK, Watched
    <2>2. timer[h] \in [HbId -> 0..(MaxTime + Timeout)]
      BY DEF TypeOK
    <2>3. now \in Nat /\ now' \in Nat /\ now =< now'
      BY TypeNext, Clock, HostAvailabilityAssumption DEF TypeOK, Tick
    <2>4. inv[h].ts \in 0..MaxTime /\ inv'[h].ts \in 0..MaxTime
      BY TypeNext DEF TypeOK, HostRecord
    <2> QED BY <2>1, <2>2, <2>3, <2>4, HostAvailabilityAssumption DEF Timely
  <1>2. inv'[h].ts =< now
    BY <1>1, StatusEffect DEF Timely
  <1>3. CASE timer'[h][i] = now + Timeout
    <2>1. inv'[h].ts < timer'[h][i] /\ timer'[h][i] # NoTimer
      BY <1>1, <1>2, <1>3, HostAvailabilityAssumption DEF NoTimer
    <2> QED BY <2>1 DEF Armed
  <1>4. ~Crash
    BY DEF Crash, Watched
  <1>5. CASE Start
    BY <1>1, <1>3, <1>5 DEF Start, Watched, NoHb
  <1>6. CASE tracked[h] = i /\ CheckHeartbeat(h, i) /\ Expired(h, i)
    <2>1. UNCHANGED <<inv, now>>
      BY <1>6 DEF CheckHeartbeat, world
    <2>2. inv[h].ts < timer[h][i] /\ timer[h][i] =< now
      BY <1>6, <2>1 DEF StatusAge, Expired, Armed, Watched
    <2>3. inv'[h].ts < now'
      BY <1>1, <2>1, <2>2
    <2>4. timer'[h][i] = NoTimer
      <3>1. timer' = [timer EXCEPT ![h][i] = NoTimer]
        BY <1>6 DEF CheckHeartbeat
      <3>2. timer[h] \in [HbId -> 0..(MaxTime + Timeout)]
        BY DEF TypeOK
      <3> QED BY <1>1, <3>1, <3>2 DEF TypeOK
    <2>5. gaveUp'[h] \/ EffectiveLoss(h)'
      BY <1>1, <1>6, CheckKeeps
    <2> QED BY <2>3, <2>4, <2>5 DEF Armed
  <1>7. CASE tracked[h] = i /\ timer'[h][i] = timer[h][i] /\ ~Start
    <2>1. CASE inv'[h].status = inv[h].status /\ inv'[h].ts = inv[h].ts
      <3>1. CASE timer[h][i] # NoTimer
        <4>1. inv[h].ts < timer[h][i]
          BY <1>7, <2>1, <3>1 DEF StatusAge, Armed, Watched
        <4> QED BY <1>7, <2>1, <3>1, <4>1 DEF Armed
      <3>2. CASE timer[h][i] = NoTimer
        <4>1. inv[h].ts < now /\ (gaveUp[h] \/ EffectiveLoss(h))
          BY <1>7, <2>1, <3>2 DEF StatusAge, Armed, Watched
        <4>2. gaveUp'[h] \/ EffectiveLoss(h)'
          BY <1>4, <1>7, <2>1, <3>2, <4>1, LossKept DEF Watched
        <4>3. inv'[h].ts < now'
          BY <1>1, <2>1, <4>1
        <4> QED BY <1>7, <3>2, <4>2, <4>3 DEF Armed
      <3> QED BY <3>1, <3>2
    <2>2. ASSUME NEW r \in Rpc, rpc[r].pc = "put", rpc[r].host = h,
                 inv'[h].ts = rpc[r].ts
          PROVE  /\ inv'[h].ts < timer'[h][i] /\ timer'[h][i] # NoTimer
      <3>1. timer[h][i] >= rpc[r].since + Timeout
        BY <1>7, <2>2 DEF HandlerKeepsTimer, Watched
      <3>2. now < rpc[r].since + InvTimeout /\ rpc[r].since \in Nat
        BY <2>2, BusyRpc, RpcFields, HostAvailabilityAssumption DEF Timely
      <3> QED BY <1>1, <1>2, <1>7, <3>1, <3>2, HostAvailabilityAssumption DEF NoTimer
    <2>3. inv'[h].status # "noConnection"
      BY DEF Connected
    <2> QED BY <2>1, <2>2, <2>3, StatusEffect DEF Armed
  <1>8. CASE tracked[h] = i
    BY <1>1, <1>3, <1>4, <1>5, <1>6, <1>7, <1>8, TimerEffect
  <1>9. CASE tracked[h] # i
    BY <1>1, <1>3, <1>9, WatchEffect DEF Watched
  <1> QED BY <1>8, <1>9

(* The inductive invariant and what follows from it. *)

LEMMA IndInvInit == Init => IndInv
  <1> SUFFICES ASSUME Init PROVE IndInv
    OBVIOUS
  <1>1. TypeOK
    BY TypeInit
  <1>2. \A h \in Host : ~Watched(h)
    BY DEF Init, Watched
  <1>3. Idle.pc = "idle"
    BY DEF Idle
  <1>4. \A h \in Host : inv[h].ts = 0
    BY DEF Init, InitHost
  <1>5. Timely
    BY <1>3, <1>4 DEF Init, Timely
  <1> QED BY <1>1, <1>2, <1>3, <1>5
          DEF IndInv, Init, RunningHostIsWatched, DownIsEmpty, HandlerIsWatched,
              ForgetsUntrusted, HandlerKeepsTimer, StatusAge

LEMMA IndInvNext == IndInv /\ [Next]_vars => IndInv'
  BY TypeNext, RunningWatchedStep, DownStep, HandlerWatchedStep, ForgetsStep,
     TimelyStep, KeepsTimerStep, StatusAgeStep DEF IndInv

\* A trusted host that Inventory shows as Running is watched, in every order
\* of reports, events, reconciliations, failures and restarts.
THEOREM RunningIsWatched == Spec => []RunningHostIsWatched
  <1>1. IndInv => RunningHostIsWatched
    BY DEF IndInv
  <1> QED BY <1>1, IndInvInit, IndInvNext, PTL DEF Spec

\* A host whose timer has fired is shown as connected only while its loss is
\* on its way or after every retry was refused.
THEOREM SilenceReported == Spec => []SilenceIsReported
  <1>1. IndInv => SilenceIsReported
    BY DEF IndInv, StatusAge, EffectiveLoss, LossPending, SilenceIsReported
  <1> QED BY <1>1, IndInvInit, IndInvNext, PTL DEF Spec

\* A trusted host is never dropped from the heartbeat map.
THEOREM TrustedStaysWatched == Spec => TrustedHostStaysWatched
  <1>1. IndInv /\ [Next]_vars =>
           [\A h \in Host : inv[h].state = "trusted" /\ Watched(h) /\ up'
               => Watched(h)']_vars
    BY StaysWatched DEF IndInv
  <1> QED BY <1>1, IndInvInit, IndInvNext, PTL DEF Spec, TrustedHostStaysWatched

(* The refinement of HostWatch. *)

\* Steps that leave alone what HostWatch sees of a host are stutters.
LEMMA LifeStutters ==
    ASSUME NEW h \in Host, UNCHANGED up, WatchState(h)' = WatchState(h),
           inv'[h].status = inv[h].status,
           (inv'[h].state = "trusted") <=> (inv[h].state = "trusted"),
           LossPending(h)' <=> LossPending(h), Stray(h)' <=> Stray(h)
    PROVE  UNCHANGED Life(h)!watchVars
  <1>1. /\ (inv[h].state = "trusted")' = (inv[h].state = "trusted")
        /\ LossPending(h)' = LossPending(h) /\ Stray(h)' = Stray(h)
    <2>1. /\ LossPending(h) \in BOOLEAN /\ LossPending(h)' \in BOOLEAN
          /\ Stray(h) \in BOOLEAN /\ Stray(h)' \in BOOLEAN
      BY DEF LossPending, Stray
    <2> QED BY <2>1
  <1> QED BY <1>1 DEF Life!watchVars

LEMMA LifeKept ==
    ASSUME NEW h \in Host, UNCHANGED <<up, checks, lossChan, sending, task>>,
           tracked'[h] = tracked[h], timer'[h] = timer[h], gaveUp'[h] = gaveUp[h],
           inv'[h].status = inv[h].status,
           (inv'[h].state = "trusted") <=> (inv[h].state = "trusted")
    PROVE  UNCHANGED Life(h)!watchVars
  <1>1. WatchState(h)' = WatchState(h)
    BY DEF WatchState, Watched, Armed
  <1>2. LossPending(h)' <=> LossPending(h)
    BY DEF LossPending
  <1>3. Stray(h)' <=> Stray(h)
    BY DEF Stray
  <1> QED BY <1>1, <1>2, <1>3, LifeStutters

\* The four states of a watch.
LEMMA WatchStates ==
    ASSUME NEW h \in Host
    PROVE  /\ WatchState(h) = "off" <=> ~Watched(h)
           /\ WatchState(h) = "armed" <=> Armed(h)
           /\ WatchState(h) = "silent" <=> Watched(h) /\ ~Armed(h) /\ ~gaveUp[h]
           /\ WatchState(h) = "abandoned" <=> Watched(h) /\ ~Armed(h) /\ gaveUp[h]
           /\ WatchState(h)' = "off" <=> ~Watched(h)'
           /\ WatchState(h)' = "armed" <=> Armed(h)'
           /\ WatchState(h)' = "silent" <=> Watched(h)' /\ ~Armed(h)' /\ ~gaveUp'[h]
           /\ WatchState(h)' = "abandoned" <=> Watched(h)' /\ ~Armed(h)' /\ gaveUp'[h]
  BY DEF WatchState, Watched, Armed

\* A silent host shown as connected has a loss on its way.
LEMMA SilenceCounts ==
    ASSUME StatusAge, NEW h \in Host, WatchState(h) = "silent",
           inv[h].status \in Connected
    PROVE  LossPending(h)
  BY WatchStates DEF StatusAge, EffectiveLoss, LossPending

\* A setting of one timer.
LEMMA TimerSet ==
    ASSUME TypeOK, NEW g \in Host, NEW j \in HbId, NEW x,
           timer' = [timer EXCEPT ![g][j] = x], NEW h \in Host, NEW i \in HbId
    PROVE  /\ timer'[h][i] = IF g = h /\ i = j THEN x ELSE timer[h][i]
           /\ g # h => timer'[h] = timer[h]
  <1>1. timer[g] \in [HbId -> 0..(MaxTime + Timeout)]
    BY DEF TypeOK
  <1> QED BY <1>1 DEF TypeOK

\* What an entry at the end adds to the channel.
LEMMA AppendAdds ==
    ASSUME TypeOK, NEW g \in Host, lossChan' = Append(lossChan, g), NEW h
    PROVE  (\E k \in 1..Len(lossChan') : lossChan'[k] = h)
              <=> g = h \/ (\E k \in 1..Len(lossChan) : lossChan[k] = h)
  <1>1. lossChan \in Seq(Host)
    BY DEF TypeOK
  <1>2. ASSUME NEW k \in 1..Len(lossChan'), lossChan'[k] = h
        PROVE  g = h \/ (\E j \in 1..Len(lossChan) : lossChan[j] = h)
    <2>1. CASE k \in 1..Len(lossChan)
      BY <1>1, <1>2, <2>1
    <2>2. CASE k = Len(lossChan) + 1
      BY <1>1, <1>2, <2>2
    <2> QED BY <1>1, <2>1, <2>2
  <1> QED BY <1>2, AppendKeeps

\* A fresh heartbeat object.
LEMMA LifeStore ==
    ASSUME TypeOK, up, NEW g \in Host, StoreHeartbeat(g), NEW h \in Host,
           UNCHANGED <<up, inv, checks, lossChan, sending, task>>
    PROVE  [Life(h)!WatchNext]_(Life(h)!watchVars)
  <1>1. PICK i \in FreeHb(g) : /\ tracked' = [tracked EXCEPT ![g] = i]
                               /\ timer' = [timer EXCEPT ![g][i] = now + Timeout]
                               /\ gaveUp' = [gaveUp EXCEPT ![g] = FALSE]
    BY StoreType
  <1>2. i \in HbId /\ i # NoHb /\ <<g, i>> \notin checks
    BY DEF FreeHb, HbId, NoHb
  <1>3. now + Timeout # NoTimer
    BY HostAvailabilityAssumption DEF TypeOK, NoTimer
  <1>4. CASE g # h
    <2>1. timer'[h] = timer[h]
      BY <1>1, <1>2, <1>4, TimerSet
    <2> QED BY <1>1, <1>4, <2>1, LifeKept DEF TypeOK
  <1>5. CASE g = h
    <2>1. tracked'[h] = i /\ timer'[h][i] = now + Timeout
      BY <1>1, <1>2, <1>5, TimerSet DEF TypeOK
    <2>2. WatchState(h)' = "armed"
      BY <1>2, <1>3, <2>1, WatchStates DEF Armed, Watched
    <2>3. LossPending(h)' = LossPending(h)
      BY DEF LossPending
    <2>4. CASE Stray(h)' = Stray(h)
      <3>1. Life(h)!Beat
        BY <2>2, <2>3, <2>4 DEF Life!Beat
      <3> QED BY <3>1 DEF Life!WatchNext
    <2>5. CASE Stray(h)' # Stray(h)
      <3>1. tracked[h] # NoHb /\ Stray(h)'
        <4>1. Stray(h) => Stray(h)'
          BY <1>2, <1>5, <2>1 DEF Stray
        <4>2. Stray(h) \in BOOLEAN /\ Stray(h)' \in BOOLEAN
          BY DEF Stray
        <4>3. Stray(h)' /\ ~Stray(h)
          BY <2>5, <4>1, <4>2
        <4>4. PICK j \in HbId \ {i} : <<h, j>> \in checks
          BY <2>1, <4>3 DEF Stray
        <4>5. j = tracked[h]
          BY <4>3, <4>4 DEF Stray
        <4> QED BY <4>3, <4>5 DEF HbId, NoHb
      <3>2. WatchState(h) # "off"
        BY <3>1, WatchStates DEF Watched
      <3>3. Life(h)!Replace
        BY <2>2, <2>3, <3>1, <3>2 DEF Life!Replace
      <3> QED BY <3>3 DEF Life!WatchNext
    <2> QED BY <2>4, <2>5
  <1> QED BY <1>4, <1>5

\* The heartbeat of a handler.
LEMMA LifeBeat ==
    ASSUME TypeOK, DownIsEmpty, HandlerKeepsTimer, NEW r \in Rpc, Beat(r), NEW h \in Host
    PROVE  [Life(h)!WatchNext]_(Life(h)!watchVars)
  <1> DEFINE g == rpc[r].host
  <1>1. /\ g \in Host /\ rpc[r].hb \in HbId \cup {NoHb} /\ rpc[r].since \in Nat
    BY BusyRpc, RpcFields, HostAvailabilityAssumption DEF Beat
  <1>2. up /\ UNCHANGED <<up, inv, checks, lossChan, sending, task>>
    BY DEF Beat, DownIsEmpty, Idle, world, checking
  <1>3. CASE StoreHeartbeat(g)
    BY <1>1, <1>2, <1>3, LifeStore
  <1>4. CASE rpc[r].hb # NoHb /\ ResetTimer(g, rpc[r].hb)
    <2>1. /\ tracked' = tracked /\ rpc[r].hb \in HbId
          /\ timer' = [timer EXCEPT ![g][rpc[r].hb] = now + Timeout]
          /\ gaveUp' = [gaveUp EXCEPT ![g] = FALSE]
      BY <1>1, <1>4 DEF ResetTimer
    <2>2. now + Timeout # NoTimer
      BY HostAvailabilityAssumption DEF TypeOK, NoTimer
    <2>3. LossPending(h)' = LossPending(h) /\ Stray(h)' = Stray(h)
      BY <1>2, <2>1 DEF LossPending, Stray
    <2>4. CASE g # h
      <3>1. timer'[h] = timer[h]
        BY <1>1, <2>1, <2>4, TimerSet
      <3> QED BY <1>2, <2>1, <2>4, <3>1, LifeKept DEF TypeOK
    <2>5. CASE g = h /\ rpc[r].hb = tracked[h]
      <3>1. timer'[h][tracked[h]] = now + Timeout
        <4>1. timer' = [timer EXCEPT ![h][tracked[h]] = now + Timeout]
          BY <2>1, <2>5
        <4>2. timer[h] \in [HbId -> 0..(MaxTime + Timeout)] /\ tracked[h] \in HbId
          BY <2>1, <2>5 DEF TypeOK
        <4> QED BY <4>1, <4>2 DEF TypeOK
      <3>2. WatchState(h)' = "armed"
        BY <1>4, <2>1, <2>2, <2>5, <3>1, WatchStates DEF Armed, Watched
      <3>3. Life(h)!Beat
        BY <1>2, <2>3, <3>2 DEF Life!Beat
      <3> QED BY <3>3 DEF Life!WatchNext
    <2>6. CASE g = h /\ tracked[h] = NoHb
      <3>1. WatchState(h) = "off" /\ WatchState(h)' = "off"
        BY <2>1, <2>6, WatchStates DEF Watched
      <3> QED BY <1>2, <2>3, <3>1, LifeStutters
    <2>7. CASE g = h /\ tracked[h] # NoHb /\ rpc[r].hb # tracked[h]
      <3>1. tracked[h] \in HbId
        BY <2>7 DEF TypeOK
      <3>2. timer[h][tracked[h]] >= rpc[r].since + Timeout
        BY <2>7 DEF Beat, HandlerKeepsTimer, Watched
      <3>3. timer'[h][tracked[h]] = timer[h][tracked[h]]
        BY <1>1, <2>1, <2>7, <3>1, TimerSet
      <3>4. timer[h][tracked[h]] # NoTimer
        BY <1>1, <3>2, HostAvailabilityAssumption DEF NoTimer
      <3>5. WatchState(h) = "armed" /\ WatchState(h)' = "armed"
        BY <2>1, <2>7, <3>3, <3>4, WatchStates DEF Armed, Watched
      <3> QED BY <1>2, <2>3, <3>5, LifeStutters
    <2> QED BY <2>4, <2>5, <2>6, <2>7
  <1> QED BY <1>3, <1>4 DEF Beat

\* The status write of a handler: the timer of the host runs.
LEMMA LifeReport ==
    ASSUME TypeOK, DownIsEmpty, HandlerIsWatched, HandlerKeepsTimer,
           NEW r \in Rpc, StatusWritten(r) \/ StatusRefused(r), NEW h \in Host
    PROVE  [Life(h)!WatchNext]_(Life(h)!watchVars)
  <1> DEFINE g == rpc[r].host
  <1>1. /\ g \in Host /\ rpc[r].since \in Nat /\ rpc[r].pc = "put"
        /\ rpc[r].plan \in Reported
    BY BusyRpc, RpcFields, HostAvailabilityAssumption
       DEF StatusWritten, StatusRefused, TypeOK
  <1>2. up /\ UNCHANGED <<up, tracked, timer, gaveUp, checks, lossChan, sending, task>>
    BY DEF StatusWritten, StatusRefused, DownIsEmpty, Idle, world, checking
  <1>3. WatchState(h)' = WatchState(h)
    BY <1>2 DEF WatchState, Watched, Armed
  <1>4. LossPending(h)' = LossPending(h) /\ Stray(h)' = Stray(h)
    BY <1>2 DEF LossPending, Stray
  <1>5. CASE UNCHANGED inv
    BY <1>2, <1>5, LifeKept
  <1>6. CASE WriteStatus(g, rpc[r].plan, rpc[r].ts)
    <2>1. /\ inv'[h].state = inv[h].state
          /\ inv'[h].status = IF g = h THEN rpc[r].plan ELSE inv[h].status
      BY <1>1, <1>6, Written
    <2>2. CASE g # h
      BY <1>2, <2>1, <2>2, LifeKept
    <2>3. CASE g = h
      <3>1. Watched(h) => Armed(h)
        <4> SUFFICES ASSUME Watched(h) PROVE timer[h][tracked[h]] # NoTimer
          BY DEF Armed
        <4>1. timer[h][tracked[h]] >= rpc[r].since + Timeout
          BY <1>1, <2>3 DEF HandlerKeepsTimer
        <4> QED BY <1>1, <4>1, HostAvailabilityAssumption DEF NoTimer
      <3>2. inv[h].state = "trusted" => Watched(h)
        BY <1>1, <2>3 DEF HandlerIsWatched
      <3>3. \/ WatchState(h) = "armed"
            \/ WatchState(h) = "off" /\ inv[h].state # "trusted"
        BY <3>1, <3>2, WatchStates
      <3>4. inv'[h].status \in {"unknown", "running", "error"}
        BY <1>1, <2>1, <2>3, HostAvailabilityAssumption
      <3>5. Life(h)!Show
        BY <1>2, <1>3, <1>4, <2>1, <3>3, <3>4 DEF Life!Show
      <3> QED BY <3>5 DEF Life!WatchNext
    <2> QED BY <2>2, <2>3
  <1> QED BY <1>5, <1>6 DEF StatusWritten, StatusRefused
\* A check whose object is no longer in the map is a stray one.
LEMMA LifeCheck ==
    ASSUME TypeOK, NEW g \in Host, NEW i \in HbId, CheckHeartbeat(g, i),
           NEW h \in Host
    PROVE  [Life(h)!WatchNext]_(Life(h)!watchVars)
  <1>1. /\ <<g, i>> \in checks /\ checks' = checks \ {<<g, i>>}
        /\ UNCHANGED <<up, inv, tracked, task>>
    BY DEF CheckHeartbeat, world
  <1>2. \/ /\ ~Expired(g, i) /\ UNCHANGED <<timer, gaveUp, lossChan, sending>>
        \/ /\ Expired(g, i) /\ timer' = [timer EXCEPT ![g][i] = NoTimer]
           /\ gaveUp' = [gaveUp EXCEPT ![g] = FALSE]
           /\ \/ lossChan' = Append(lossChan, g) /\ UNCHANGED sending
              \/ sending' = sending \cup {<<g, i>>} /\ UNCHANGED lossChan
    BY DEF CheckHeartbeat
  <1>3. CASE g # h
    <2>1. timer'[h] = timer[h] /\ gaveUp'[h] = gaveUp[h]
      BY <1>2, <1>3, TimerSet DEF TypeOK
    <2>2. WatchState(h)' = WatchState(h)
      BY <1>1, <2>1 DEF WatchState, Watched, Armed
    <2>3. Stray(h)' <=> Stray(h)
      BY <1>1, <1>3 DEF Stray
    <2>4. LossPending(h)' <=> LossPending(h)
      <3>1. \A j \in HbId : <<h, j>> \in sending' <=> <<h, j>> \in sending
        BY <1>2, <1>3
      <3>2. (\E k \in 1..Len(lossChan') : lossChan'[k] = h)
               <=> (\E k \in 1..Len(lossChan) : lossChan[k] = h)
        <4>1. CASE lossChan' = Append(lossChan, g)
          BY <1>3, <4>1, AppendAdds
        <4> QED BY <1>2, <4>1
      <3> QED BY <1>1, <3>1, <3>2 DEF LossPending
    <2> QED BY <1>1, <2>2, <2>3, <2>4, LifeStutters
  <1>4. CASE g = h /\ i = tracked[h]
    <2>1. Stray(h)' = Stray(h)
      BY <1>1, <1>4 DEF Stray
    <2>2. CASE ~Expired(g, i)
      <3>1. WatchState(h)' = WatchState(h) /\ LossPending(h)' = LossPending(h)
        BY <1>1, <1>2, <2>2 DEF WatchState, Watched, Armed, LossPending
      <3> QED BY <1>1, <2>1, <3>1, LifeStutters
    <2>3. CASE Expired(g, i)
      <3>1. timer'[h][i] = NoTimer /\ gaveUp'[h] = FALSE
        BY <1>2, <1>4, <2>3, TimerSet DEF TypeOK
      <3>2. WatchState(h) = "armed" /\ WatchState(h)' = "silent"
        BY <1>1, <1>4, <2>3, <3>1, WatchStates DEF Armed, Watched, Expired, HbId, NoHb
      <3>3. LossPending(h)'
        <4>1. CASE lossChan' = Append(lossChan, g)
          BY <1>4, <4>1, AppendAdds DEF LossPending
        <4>2. CASE sending' = sending \cup {<<g, i>>}
          BY <1>4, <4>2 DEF LossPending
        <4> QED BY <1>2, <2>3, <4>1, <4>2
      <3>4. Life(h)!Fire
        BY <1>1, <2>1, <3>2, <3>3 DEF Life!Fire
      <3> QED BY <3>4 DEF Life!WatchNext
    <2> QED BY <2>2, <2>3
  <1>5. CASE g = h /\ i # tracked[h]
    <2>1. Stray(h) /\ Stray(h)' \in BOOLEAN
      BY <1>1, <1>5 DEF Stray
    <2>2. CASE ~Expired(g, i)
      <3>1. WatchState(h)' = WatchState(h) /\ LossPending(h)' = LossPending(h)
        BY <1>1, <1>2, <2>2 DEF WatchState, Watched, Armed, LossPending
      <3>2. CASE Stray(h)'
        BY <1>1, <2>1, <3>1, <3>2, LifeStutters
      <3>3. CASE ~Stray(h)'
        <4>1. Life(h)!StrayEnds
          BY <1>1, <2>1, <3>1, <3>3 DEF Life!StrayEnds
        <4> QED BY <4>1 DEF Life!WatchNext
      <3> QED BY <3>2, <3>3
    <2>3. CASE Expired(g, i)
      <3>1. gaveUp'[h] = FALSE
        BY <1>2, <1>5, <2>3 DEF TypeOK
      <3>2. Watched(h)' = Watched(h)
        BY <1>1 DEF Watched
      <3>3. Armed(h)' <=> Armed(h)
        <4>1. ASSUME tracked[h] # NoHb
              PROVE  timer'[h][tracked[h]] = timer[h][tracked[h]]
          <5>1. tracked[h] \in HbId
            BY <4>1 DEF TypeOK
          <5> QED BY <1>2, <1>5, <2>3, <5>1, TimerSet
        <4> QED BY <1>1, <4>1 DEF Armed, Watched
      <3>4. WatchState(h)' = IF WatchState(h) = "abandoned" THEN "silent" ELSE WatchState(h)
        BY <3>1, <3>2, <3>3 DEF WatchState
      <3>5. LossPending(h)'
        <4>1. CASE lossChan' = Append(lossChan, g)
          BY <1>5, <4>1, AppendAdds DEF LossPending
        <4>2. CASE sending' = sending \cup {<<g, i>>}
          BY <1>5, <4>2 DEF LossPending
        <4> QED BY <1>2, <2>3, <4>1, <4>2
      <3>6. Life(h)!StrayFires
        BY <1>1, <2>1, <3>4, <3>5 DEF Life!StrayFires
      <3> QED BY <3>6 DEF Life!WatchNext
    <2> QED BY <2>2, <2>3
  <1> QED BY <1>3, <1>4, <1>5

\* A blocked send passes the loss on.
LEMMA LifeSend ==
    ASSUME TypeOK, NEW g \in Host, NEW i \in HbId, SendLoss(g, i), NEW h \in Host
    PROVE  UNCHANGED Life(h)!watchVars
  <1>1. /\ <<g, i>> \in sending /\ sending' = sending \ {<<g, i>>}
        /\ lossChan' = Append(lossChan, g)
        /\ UNCHANGED <<up, inv, tracked, timer, gaveUp, checks, task>>
    BY DEF SendLoss, world
  <1>2. WatchState(h)' = WatchState(h) /\ (Stray(h)' <=> Stray(h))
    BY <1>1 DEF WatchState, Watched, Armed, Stray
  <1>3. (\E k \in 1..Len(lossChan') : lossChan'[k] = h)
           <=> g = h \/ (\E k \in 1..Len(lossChan) : lossChan[k] = h)
    BY <1>1, AppendAdds
  <1>4. CASE g = h
    <2>1. LossPending(h) /\ LossPending(h)'
      BY <1>1, <1>3, <1>4 DEF LossPending
    <2> QED BY <1>1, <1>2, <2>1, LifeStutters
  <1>5. CASE g # h
    <2>1. \A j \in HbId : <<h, j>> \in sending' <=> <<h, j>> \in sending
      BY <1>1, <1>5
    <2>2. LossPending(h)' <=> LossPending(h)
      BY <1>1, <1>3, <1>5, <2>1 DEF LossPending
    <2> QED BY <1>1, <1>2, <2>2, LifeStutters
  <1> QED BY <1>4, <1>5
\* A goroutine takes a loss from the channel.
LEMMA LifeTake ==
    ASSUME TypeOK, NEW t \in Task, TakeLoss(t), NEW h \in Host
    PROVE  UNCHANGED Life(h)!watchVars
  <1> DEFINE m == [pc |-> "get", host |-> Head(lossChan), ts |-> now,
                   left |-> MaxRetries]
  <1>1. /\ lossChan # <<>> /\ lossChan' = Tail(lossChan) /\ task[t] = Idle
        /\ task' = [task EXCEPT ![t] = m]
        /\ UNCHANGED <<up, inv, tracked, timer, gaveUp, checks, sending>>
    BY DEF TakeLoss, world
  <1>2. WatchState(h)' = WatchState(h) /\ (Stray(h)' <=> Stray(h))
    BY <1>1 DEF WatchState, Watched, Armed, Stray
  <1>3. m.pc # "idle" /\ m.host = Head(lossChan) /\ Idle.pc = "idle"
    BY DEF Idle
  <1> HIDE DEF m
  <1>4. lossChan \in Seq(Host) /\ task'[t] = m
        /\ \A u \in Task \ {t} : task'[u] = task[u]
    BY <1>1 DEF TypeOK
  <1>5. LossPending(h) => LossPending(h)'
    <2>1. CASE \E k \in 1..Len(lossChan) : lossChan[k] = h
      BY <1>1, <1>3, <1>4, <2>1, TailKeeps DEF LossPending
    <2>2. CASE \E i \in HbId : <<h, i>> \in sending
      BY <1>1, <2>2 DEF LossPending
    <2>3. ASSUME NEW u \in Task, task[u].pc # "idle", task[u].host = h
          PROVE  LossPending(h)'
      <3>1. task'[u] = task[u]
        BY <1>1, <1>3, <1>4, <2>3
      <3> QED BY <2>3, <3>1 DEF LossPending
    <2> QED BY <2>1, <2>2, <2>3 DEF LossPending
  <1>6. LossPending(h)' => LossPending(h)
    <2>1. ASSUME NEW k \in 1..Len(lossChan'), lossChan'[k] = h
          PROVE  LossPending(h)
      <3>1. k + 1 \in 1..Len(lossChan) /\ lossChan[k + 1] = h
        BY <1>1, <1>4, <2>1
      <3> QED BY <3>1 DEF LossPending
    <2>2. CASE \E i \in HbId : <<h, i>> \in sending'
      BY <1>1, <2>2 DEF LossPending
    <2>3. ASSUME NEW u \in Task, task'[u].pc # "idle", task'[u].host = h
          PROVE  LossPending(h)
      <3>1. CASE u = t
        <4>1. 1 \in 1..Len(lossChan) /\ lossChan[1] = h
          BY <1>1, <1>3, <1>4, <2>3, <3>1
        <4> QED BY <4>1 DEF LossPending
      <3>2. CASE u # t
        BY <1>4, <2>3, <3>2 DEF LossPending
      <3> QED BY <3>1, <3>2
    <2> QED BY <2>1, <2>2, <2>3 DEF LossPending
  <1> QED BY <1>1, <1>2, <1>5, <1>6, LifeStutters

\* What an attempt of a goroutine does to the goroutines and the losses given up.
LEMMA AttemptEffect ==
    ASSUME TypeOK, NEW t \in Task, TaskStep(t), NEW h \in Host
    PROVE  /\ task[t].pc # "idle" /\ task[t].host \in Host
           /\ task'[t].pc # "idle" => task'[t].host = task[t].host
           /\ \A u \in Task \ {t} : task'[u] = task[u]
           /\ \/ gaveUp'[h] = gaveUp[h]
              \/ task[t].host = h /\ gaveUp'[h] = TRUE
  <1>1. task[t] \in TaskState /\ task[t].host \in Host /\ task[t].pc # "idle"
    BY BusyTask DEF TaskStep, GetLostHost, PutLostHost
  <1> DEFINE m == [task[t] EXCEPT !.pc = "put"]
             n == [task[t] EXCEPT !.pc = "get", !.left = @ - 1]
  <1>2. m.host = task[t].host /\ n.host = task[t].host /\ Idle.pc = "idle"
    BY <1>1 DEF TaskState, Idle
  <1>3. \/ task' = [task EXCEPT ![t] = m]
        \/ task' = [task EXCEPT ![t] = n]
        \/ task' = [task EXCEPT ![t] = Idle]
    <2>1. CASE RetryOrGiveUp(t)
      BY <2>1 DEF RetryOrGiveUp
    <2> QED BY <2>1 DEF TaskStep, GetLostHost, PutLostHost
  <1>4. gaveUp' = gaveUp \/ gaveUp' = [gaveUp EXCEPT ![task[t].host] = TRUE]
    <2>1. CASE RetryOrGiveUp(t)
      BY <2>1 DEF RetryOrGiveUp
    <2> QED BY <2>1 DEF TaskStep, GetLostHost, PutLostHost
  <1>5. gaveUp'[h] = gaveUp[h] \/ (task[t].host = h /\ gaveUp'[h] = TRUE)
    BY <1>1, <1>4 DEF TypeOK
  <1> HIDE DEF m, n
  <1>6. /\ task'[t] \in {m, n, Idle}
        /\ \A u \in Task \ {t} : task'[u] = task[u]
    BY <1>3 DEF TypeOK
  <1> QED BY <1>1, <1>2, <1>5, <1>6

\* An attempt marks the host, or gives it up, or drops the loss, or goes on.
LEMMA LifeAttempt ==
    ASSUME TypeOK, StatusAge', NEW t \in Task, TaskStep(t), NEW h \in Host
    PROVE  [Life(h)!WatchNext]_(Life(h)!watchVars)
  <1> DEFINE g == task[t].host
  <1>1. UNCHANGED <<up, tracked, timer, checks, lossChan, sending>>
    BY DEF TaskStep, GetLostHost, PutLostHost, world, checking
  <1>2. Stray(h)' = Stray(h) /\ Watched(h)' = Watched(h) /\ (Armed(h)' <=> Armed(h))
    BY <1>1 DEF Stray, Watched, Armed
  <1>3. /\ task[t].pc # "idle" /\ g \in Host
        /\ task'[t].pc # "idle" => task'[t].host = g
        /\ \A u \in Task \ {t} : task'[u] = task[u]
        /\ gaveUp'[h] = gaveUp[h] \/ (g = h /\ gaveUp'[h] = TRUE)
    BY AttemptEffect
  <1>4. CASE g # h
    <2>1. \A u \in Task : (task'[u].pc # "idle" /\ task'[u].host = h)
                              <=> (task[u].pc # "idle" /\ task[u].host = h)
      BY <1>3, <1>4
    <2>2. LossPending(h)' <=> LossPending(h)
      BY <1>1, <2>1 DEF LossPending
    <2>3. WatchState(h)' = WatchState(h)
      BY <1>2, <1>3, <1>4 DEF WatchState
    <2>4. inv'[h].status = inv[h].status /\ inv'[h].state = inv[h].state
      BY <1>3, <1>4, Written DEF TaskStep, GetLostHost, PutLostHost
    <2> QED BY <1>1, <1>2, <2>2, <2>3, <2>4, LifeStutters
  <1>5. CASE g = h
    <2>1. LossPending(h) /\ LossPending(h)' \in BOOLEAN
      BY <1>3, <1>5 DEF LossPending
    <2>2. \/ WatchState(h)' = WatchState(h)
          \/ WatchState(h) = "silent" /\ WatchState(h)' = "abandoned"
      BY <1>2, <1>3 DEF WatchState
    <2>3. CASE inv'[h].status = "noConnection" /\ inv'[h].state = inv[h].state
      <3>1. Life(h)!Mark
        BY <1>1, <1>2, <2>1, <2>2, <2>3 DEF Life!Mark
      <3> QED BY <3>1 DEF Life!WatchNext
    <2>4. CASE inv' = inv
      <3>1. CASE WatchState(h)' # WatchState(h)
        <4>1. Life(h)!GiveUp
          BY <1>1, <1>2, <2>1, <2>2, <2>4, <3>1 DEF Life!GiveUp
        <4> QED BY <4>1 DEF Life!WatchNext
      <3>2. CASE WatchState(h)' = WatchState(h) /\ LossPending(h)'
        BY <1>1, <1>2, <2>1, <2>4, <3>2, LifeStutters
      <3>3. CASE WatchState(h)' = WatchState(h) /\ ~LossPending(h)'
        <4>1. WatchState(h) # "silent" \/ inv[h].status \notin Connected
          <5> SUFFICES ASSUME WatchState(h)' = "silent", inv'[h].status \in Connected
                       PROVE  LossPending(h)'
            BY <2>4, <3>3
          <5> QED BY WatchStates DEF StatusAge, EffectiveLoss, LossPending
        <4>2. Life(h)!Dismiss
          BY <1>1, <1>2, <2>1, <2>4, <3>3, <4>1 DEF Life!Dismiss, Connected, Life!Connected
        <4> QED BY <4>2 DEF Life!WatchNext
      <3> QED BY <3>1, <3>2, <3>3
    <2>5. ASSUME WriteStatus(g, "noConnection", task[t].ts)
          PROVE  inv'[h].status = "noConnection" /\ inv'[h].state = inv[h].state
      BY <1>3, <1>5, <2>5, Written
    <2> QED BY <2>3, <2>4, <2>5 DEF TaskStep, GetLostHost, PutLostHost
  <1> QED BY <1>4, <1>5

\* An untrusted host leaves the map.
LEMMA LifeForget ==
    ASSUME TypeOK, up, NEW h \in Host, tracked'[h] \in {tracked[h], NoHb},
           tracked'[h] = tracked[h] \/ inv[h].state # "trusted",
           UNCHANGED <<up, inv, timer, gaveUp, checks, lossChan, sending, task>>
    PROVE  [Life(h)!WatchNext]_(Life(h)!watchVars)
  <1>1. CASE tracked'[h] = tracked[h]
    BY <1>1, LifeKept
  <1>2. CASE tracked'[h] # tracked[h]
    <2>1. WatchState(h) # "off" /\ WatchState(h)' = "off"
      BY <1>2, WatchStates DEF Watched
    <2>2. LossPending(h)' = LossPending(h)
      BY DEF LossPending
    <2>3. Stray(h)' \in {Stray(h), TRUE}
      <3>1. Stray(h) => Stray(h)'
        BY <1>2 DEF Stray, HbId, NoHb
      <3>2. Stray(h) \in BOOLEAN /\ Stray(h)' \in BOOLEAN
        BY DEF Stray
      <3> QED BY <3>1, <3>2
    <2>4. Life(h)!Forget
      BY <1>2, <2>1, <2>2, <2>3 DEF Life!Forget
    <2> QED BY <2>4 DEF Life!WatchNext
  <1> QED BY <1>1, <1>2

\* The control loop forgets only hosts that are no longer trusted.
LEMMA LifeLoop ==
    ASSUME TypeOK, DownIsEmpty, ForgetsUntrusted,
           HandleEvent \/ FindTrusted \/ SyncHosts, NEW h \in Host
    PROVE  [Life(h)!WatchNext]_(Life(h)!watchVars)
  <1>1. up /\ UNCHANGED <<up, inv, checks, lossChan, sending, task>>
    BY DEF HandleEvent, FindTrusted, SyncHosts, DownIsEmpty, world, checking
  <1>2. CASE HandleEvent
    <2> DEFINE e == Head(events)
    <2>1. events \in Seq(Event) /\ events # <<>>
      BY <1>2 DEF HandleEvent, TypeOK
    <2>2. e \in Event /\ e = events[1] /\ 1 \in 1..Len(events)
      BY <2>1
    <2>3. e.host \in Host
      BY <2>2 DEF Event
    <2>4. CASE e.kind = "host" /\ tracked' = [tracked EXCEPT ![e.host] = NoHb]
               /\ UNCHANGED <<timer, gaveUp>>
      <3>1. inv[e.host].state # "trusted"
        BY <2>2, <2>4 DEF ForgetsUntrusted
      <3>2. tracked'[h] = IF e.host = h THEN NoHb ELSE tracked[h]
        BY <2>3, <2>4 DEF TypeOK
      <3> QED BY <1>1, <2>4, <3>1, <3>2, LifeForget
    <2>5. CASE StoreHeartbeat(e.host)
      BY <1>1, <2>3, <2>5, LifeStore
    <2>6. CASE UNCHANGED <<tracked, timer, gaveUp>>
      BY <1>1, <2>6, LifeKept
    <2> QED BY <1>2, <2>4, <2>5, <2>6 DEF HandleEvent
  <1>3. CASE FindTrusted
    BY <1>1, <1>3, LifeKept DEF FindTrusted
  <1>4. CASE SyncHosts
    <2>1. /\ tracked' = [g \in Host |-> IF g \in found THEN tracked[g] ELSE NoHb]
          /\ UNCHANGED <<timer, gaveUp>>
      BY <1>4 DEF SyncHosts
    <2>2. h \notin found => inv[h].state # "trusted"
      BY <1>4 DEF SyncHosts, ForgetsUntrusted
    <2> QED BY <1>1, <2>1, <2>2, LifeForget
  <1> QED BY <1>2, <1>3, <1>4

\* The manager starts, or dies.
LEMMA LifeProcess ==
    ASSUME TypeOK, TypeOK', RunningHostIsWatched', DownIsEmpty, DownIsEmpty',
           Start \/ Crash, NEW h \in Host
    PROVE  Life(h)!Start \/ Life(h)!Crash
  <1>1. CASE Start
    <2>1. /\ ~up /\ up' /\ UNCHANGED <<inv, checks, lossChan, sending, task>>
          /\ tracked[h] = NoHb /\ checks = {}
          /\ tracked'[h] = IF h \in HostsToWatch THEN 1 ELSE NoHb
          /\ timer'[h] = [i \in HbId |-> IF h \in HostsToWatch /\ i = 1
                                       THEN now + Timeout ELSE NoTimer]
      BY <1>1 DEF Start, DownIsEmpty, checking
    <2>2. now + Timeout # NoTimer /\ 1 \in HbId
      BY HostAvailabilityAssumption DEF TypeOK, NoTimer, HbId
    <2>3. Watched(h)' => Armed(h)'
      BY <2>1, <2>2 DEF Armed, Watched
    <2>4. WatchState(h)' \in {"off", "armed"}
      BY <2>3 DEF WatchState
    <2>5. inv[h].state = "trusted" /\ inv[h].status = "running"
             => WatchState(h)' = "armed"
      BY <2>1, <2>3, WatchStates DEF RunningHostIsWatched
    <2>6. LossPending(h)' = LossPending(h) /\ Stray(h)' = Stray(h)
      BY <2>1 DEF LossPending, Stray
    <2>7. Life(h)!Start
      BY <2>1, <2>4, <2>5, <2>6 DEF Life!Start
    <2> QED BY <2>7
  <1>2. CASE Crash
    <2>1. up /\ ~up' /\ UNCHANGED inv
      BY <1>2 DEF Crash
    <2>2. ~Watched(h)' /\ ~Stray(h)'
      BY <2>1 DEF DownIsEmpty, Watched, Stray
    <2>3. ~LossPending(h)'
      <3>1. lossChan' = <<>> /\ sending' = {} /\ \A t \in Task : task'[t].pc = "idle"
        BY <2>1 DEF DownIsEmpty, Idle
      <3>2. Len(lossChan') = 0
        BY <3>1
      <3> QED BY <3>1, <3>2 DEF LossPending
    <2>4. WatchState(h)' = "off"
      BY <2>2, WatchStates
    <2>5. Life(h)!Crash
      BY <2>1, <2>2, <2>3, <2>4 DEF Life!Crash
    <2> QED BY <2>5
  <1> QED BY <1>1, <1>2

\* What everybody else does: a host may lose the trust.
LEMMA LifeWorld ==
    ASSUME TypeOK, World, ~Crash, NEW h \in Host
    PROVE  [Life(h)!WatchNext]_(Life(h)!watchVars)
  <1>1. UNCHANGED <<up, tracked, timer, gaveUp, checks, lossChan, sending, task>>
    BY DEF World, ChangeHostState, Onboard, Maintain, ToggleAgent, checking
  <1>2. inv'[h].status = inv[h].status
    <2>1. \/ UNCHANGED inv
          \/ \E g \in Host : \/ \E x : inv' = [inv EXCEPT ![g].state = x]
                             \/ \E x : inv' = [inv EXCEPT ![g].inst = x]
                             \/ \E x : inv' = [inv EXCEPT ![g].maint = x]
      BY DEF World, ChangeHostState, Onboard, Maintain, ToggleAgent
    <2> QED BY <2>1, FieldKept
  <1>3. inv'[h].state = "trusted" => inv[h].state = "trusted"
    BY TrustKept DEF Next
  <1>4. CASE inv'[h].state = "trusted" <=> inv[h].state = "trusted"
    BY <1>1, <1>2, <1>4, LifeKept
  <1>5. CASE inv[h].state = "trusted" /\ inv'[h].state # "trusted"
    <2>1. /\ WatchState(h)' = WatchState(h)
          /\ LossPending(h)' = LossPending(h) /\ Stray(h)' = Stray(h)
      BY <1>1 DEF WatchState, Watched, Armed, LossPending, Stray
    <2>2. Life(h)!Distrust
      BY <1>1, <1>2, <1>5, <2>1 DEF Life!Distrust
    <2> QED BY <2>2 DEF Life!WatchNext
  <1> QED BY <1>3, <1>4, <1>5

\* Every step is a step in the life of every host, or leaves it alone.
LEMMA LifeNext ==
    ASSUME IndInv, IndInv', [Next]_vars, NEW h \in Host
    PROVE  [Life(h)!WatchNext]_(Life(h)!watchVars)
  <1> USE DEF IndInv
  <1>1. CASE Tick \/ UNCHANGED vars
    BY <1>1, LifeKept DEF Tick, vars, checking
  <1>2. CASE World
    <2>1. CASE Crash
      BY <2>1, LifeProcess DEF Life!WatchNext
    <2>2. CASE ~Crash
      BY <1>2, <2>2, LifeWorld
    <2> QED BY <2>1, <2>2
  <1>3. CASE Start
    BY <1>3, LifeProcess DEF Life!WatchNext
  <1>4. CASE Sweep
    <2>1. /\ checks' = checks \cup {<<g, tracked[g]>> :
                                      g \in {f \in Host : tracked[f] # NoHb}}
          /\ UNCHANGED <<up, inv, tracked, timer, gaveUp, lossChan, sending, task>>
      BY <1>4 DEF Sweep, world
    <2>2. Stray(h)' <=> Stray(h)
      BY <2>1 DEF Stray
    <2>3. WatchState(h)' = WatchState(h) /\ (LossPending(h)' <=> LossPending(h))
      BY <2>1 DEF WatchState, Watched, Armed, LossPending
    <2> QED BY <2>1, <2>2, <2>3, LifeStutters
  <1>5. CASE \E g \in Host : Report(g)
    BY <1>5, LifeKept DEF Report, ReadHost, world, checking
  <1>6. CASE \E r \in Rpc : RpcStep(r)
    <2>1. PICK r \in Rpc : RpcStep(r)
      BY <1>6
    <2>2. CASE LoadHeartbeat(r)
      BY <2>2, LifeKept DEF LoadHeartbeat, world, checking
    <2>3. CASE Beat(r)
      BY <2>3, LifeBeat
    <2>4. CASE StatusWritten(r) \/ StatusRefused(r)
      BY <2>4, LifeReport
    <2>5. CASE PutInstance(r)
      <3>1. rpc[r].host \in Host
        BY <2>1, HandlerStep
      <3>2. /\ inv'[h].status = inv[h].status /\ inv'[h].state = inv[h].state
            /\ UNCHANGED <<up, tracked, timer, gaveUp, checks, lossChan, sending, task>>
        BY <2>5, <3>1, FieldKept DEF PutInstance, world, checking
      <3> QED BY <3>2, LifeKept
    <2> QED BY <2>1, <2>2, <2>3, <2>4, <2>5 DEF RpcStep
  <1>7. CASE \E g \in Host, i \in HbId : CheckHeartbeat(g, i) \/ SendLoss(g, i)
    BY <1>7, LifeCheck, LifeSend
  <1>8. CASE \E t \in Task : TakeLoss(t) \/ TaskStep(t)
    BY <1>8, LifeTake, LifeAttempt
  <1>9. CASE HandleEvent \/ FindTrusted \/ SyncHosts
    BY <1>9, LifeLoop
  <1> QED BY <1>1, <1>2, <1>3, <1>4, <1>5, <1>6, <1>7, <1>8, <1>9 DEF Next

LEMMA LifeInit ==
    ASSUME Init, NEW h \in Host
    PROVE  Life(h)!WatchInit
  <1>1. ~Watched(h) /\ ~Stray(h)
    BY DEF Init, Watched, Stray
  <1>2. ~LossPending(h)
    BY DEF Init, LossPending, Idle
  <1>3. /\ ~up /\ inv[h].state = "trusted"
        /\ inv[h].status \in {"booting", "running"}
    BY DEF Init, InitHost
  <1> QED BY <1>1, <1>2, <1>3, WatchStates DEF Life!WatchInit

\* The host manager implements HostWatch for every host: its watch, its
\* losses and its shown status change only in the ways promised there, with
\* any number of hosts, handlers and goroutines and every order of reports,
\* checks, events, reconciliations, failures and restarts.
THEOREM EveryHostIsWatched == Spec => ImplementsWatch
  <1>1. Init => \A h \in Host : Life(h)!WatchInit
    BY LifeInit
  <1>2. IndInv /\ IndInv' /\ [Next]_vars =>
           [\A h \in Host : [Life(h)!WatchNext]_(Life(h)!watchVars)]_vars
    BY LifeNext
  <1> QED BY <1>1, <1>2, IndInvInit, IndInvNext, PTL DEF Spec, ImplementsWatch
=============================================================================
