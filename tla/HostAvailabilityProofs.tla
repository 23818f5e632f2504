----------------------- MODULE HostAvailabilityProofs -----------------------
(***************************************************************************)
(* Proofs about HostAvailability, for every set of hosts, handlers and     *)
(* lost-connection goroutines, every capacity and every timeout.           *)
(***************************************************************************)
EXTENDS HostAvailability, TLAPS

\* The records of handlers and goroutines, as far as the provers need them.
LEMMA RpcFields ==
    ASSUME NEW m \in RpcState
    PROVE  /\ m.pc \in {"load", "beat", "put", "inst"} /\ m.host \in Host
           /\ m.plan \in Reported \cup {"skip", "refuse"}
           /\ m.inst \in BOOLEAN /\ m.hb \in HbId \cup {NoHb}
           /\ m.since \in 0..MaxTime /\ m.ts \in 0..MaxTime
           /\ m # Idle
  BY DEF RpcState, Idle

LEMMA BusyRpc ==
    ASSUME TypeOK, NEW r \in Rpc, rpc[r].pc # "idle"
    PROVE  rpc[r] \in RpcState
  BY DEF TypeOK, Idle

LEMMA BusyTask ==
    ASSUME TypeOK, NEW t \in Task, task[t].pc # "idle"
    PROVE  /\ task[t] \in TaskState
           /\ task[t].host \in Host /\ task[t].ts \in 0..MaxTime
           /\ task[t].left \in 0..MaxRetries /\ task[t].pc \in {"get", "put"}
  BY DEF TypeOK, Idle, TaskState

\* The status write keeps the type of the host records and of the stream.
LEMMA NotifyType ==
    ASSUME TypeOK, NEW e \in Event, NEW relevant \in BOOLEAN, Notify(e, relevant)
    PROVE  events' \in Seq(Event) /\ Len(events') =< EventCap
  <1>1. events \in Seq(Event) /\ Len(events) =< EventCap
    BY DEF TypeOK
  <1>2. \/ events' = events
        \/ Len(events) < EventCap /\ events' = Append(events, e)
    BY DEF Notify
  <1>3. CASE events' = events
    BY <1>1, <1>3
  <1>4. CASE Len(events) < EventCap /\ events' = Append(events, e)
    <2>1. Append(events, e) \in Seq(Event) /\ Len(Append(events, e)) = Len(events) + 1
      BY <1>1
    <2> QED BY <1>1, <1>4, <2>1, HostAvailabilityAssumption
  <1> QED BY <1>2, <1>3, <1>4

LEMMA WriteStatusType ==
    ASSUME TypeOK, NEW h \in Host, NEW status \in Status, NEW ts \in 0..MaxTime,
           WriteStatus(h, status, ts)
    PROVE  /\ inv' \in [Host -> HostRecord]
           /\ events' \in Seq(Event) /\ Len(events') =< EventCap
  <1>1. inv' \in [Host -> HostRecord]
    <2>1. inv[h] \in HostRecord
      BY DEF TypeOK
    <2>2. [inv[h] EXCEPT !.status = status, !.ts = ts] \in HostRecord
      BY <2>1 DEF HostRecord
    <2>3. inv' = [inv EXCEPT ![h] = [inv[h] EXCEPT !.status = status, !.ts = ts]]
      BY DEF WriteStatus, TypeOK
    <2> QED BY <2>2, <2>3 DEF TypeOK
  <1>2. events' \in Seq(Event) /\ Len(events') =< EventCap
    <2>1. [kind |-> "host", host |-> h] \in Event
      BY DEF Event
    <2>2. Deauthorised(inv[h].state) \in BOOLEAN
      BY DEF Deauthorised
    <2> QED BY <2>1, <2>2, NotifyType DEF WriteStatus, NotifyHost
  <1> QED BY <1>1, <1>2

\* A new heartbeat object, and one whose timer is reset.
LEMMA StoreType ==
    ASSUME TypeOK, NEW h \in Host, StoreHeartbeat(h)
    PROVE  /\ tracked' \in [Host -> HbId \cup {NoHb}]
           /\ timer' \in [Host -> [HbId -> 0..(MaxTime + Timeout)]]
           /\ gaveUp' \in [Host -> BOOLEAN]
           /\ \E i \in FreeHb(h) : /\ tracked' = [tracked EXCEPT ![h] = i]
                                   /\ timer' = [timer EXCEPT ![h][i] = now + Timeout]
                                   /\ gaveUp' = [gaveUp EXCEPT ![h] = FALSE]
  <1> DEFINE i == CHOOSE i \in FreeHb(h) : TRUE
  <1>1. FreeHb(h) \subseteq 1..MaxHb /\ FreeHb(h) # {}
    BY DEF StoreHeartbeat, FreeHb, HbId
  <1>2. i \in FreeHb(h)
    BY <1>1
  <1>3. /\ tracked' = [tracked EXCEPT ![h] = i]
        /\ timer' = [timer EXCEPT ![h][i] = now + Timeout]
        /\ gaveUp' = [gaveUp EXCEPT ![h] = FALSE]
    BY DEF StoreHeartbeat
  <1>4. now + Timeout \in 0..(MaxTime + Timeout)
    BY HostAvailabilityAssumption DEF TypeOK
  <1> HIDE DEF i
  <1> QED BY <1>1, <1>2, <1>3, <1>4 DEF TypeOK, HbId

LEMMA ResetType ==
    ASSUME TypeOK, NEW h \in Host, NEW i \in HbId, ResetTimer(h, i)
    PROVE  /\ timer' \in [Host -> [HbId -> 0..(MaxTime + Timeout)]]
           /\ gaveUp' \in [Host -> BOOLEAN]
           /\ tracked' = tracked
  <1>1. now + Timeout \in 0..(MaxTime + Timeout)
    BY HostAvailabilityAssumption DEF TypeOK
  <1> QED BY <1>1 DEF ResetTimer, TypeOK

\* What a handler and a goroutine become.
LEMMA AfterBeatType ==
    ASSUME TypeOK, NEW m \in RpcState
    PROVE  /\ AfterBeat(m) \in RpcState \cup {Idle}
           /\ AfterBeat(m).pc = "put" => AfterBeat(m).plan \in Reported
           /\ PutNext(m) \in RpcState /\ PutNext(m).pc = "inst"
  <1>1. PutNext(m) \in RpcState
    <2>1. 0 \in 0..MaxTime
      BY HostAvailabilityAssumption
    <2> QED BY <2>1 DEF PutNext, RpcState
  <1>2. now \in 0..MaxTime
    BY DEF TypeOK
  <1>3. [m EXCEPT !.pc = "put", !.ts = now] \in RpcState
    BY <1>2 DEF RpcState
  <1>4. PutNext(m).pc = "inst" /\ Idle.pc = "idle"
    BY DEF PutNext, Idle, RpcState
  <1>5. CASE m.plan \in Reported
    <2>1. [m EXCEPT !.pc = "put", !.ts = now].plan = m.plan
      BY DEF RpcState
    <2> QED BY <1>1, <1>3, <1>4, <1>5, <2>1 DEF AfterBeat
  <1>6. CASE m.plan \notin Reported
    BY <1>1, <1>4, <1>6 DEF AfterBeat
  <1> QED BY <1>5, <1>6

\* A handler that changes: the others stay as they are.
LEMMA RpcChange ==
    ASSUME TypeOK, NEW r \in Rpc, NEW m \in RpcState \cup {Idle},
           m.pc = "put" => m.plan \in Reported,
           rpc' = [rpc EXCEPT ![r] = m]
    PROVE  /\ rpc' \in [Rpc -> RpcState \cup {Idle}]
           /\ \A q \in Rpc : rpc'[q].pc = "put" => rpc'[q].plan \in Reported
           /\ rpc'[r] = m
           /\ \A q \in Rpc \ {r} : rpc'[q] = rpc[q]
  BY DEF TypeOK

LEMMA RetryType ==
    ASSUME TypeOK, NEW t \in Task, task[t].pc # "idle", RetryOrGiveUp(t)
    PROVE  /\ task' \in [Task -> TaskState \cup {Idle}]
           /\ gaveUp' \in [Host -> BOOLEAN]
  <1>1. task[t] \in TaskState
    BY BusyTask
  <1>2. CASE task[t].left > 0
    <2>1. [task[t] EXCEPT !.pc = "get", !.left = @ - 1] \in TaskState
      <3>1. task[t].left - 1 \in 0..MaxRetries
        BY <1>2, BusyTask, HostAvailabilityAssumption
      <3> QED BY <1>1, <3>1 DEF TaskState
    <2>2. task' = [task EXCEPT ![t] = [task[t] EXCEPT !.pc = "get", !.left = @ - 1]]
      BY <1>2 DEF RetryOrGiveUp, TypeOK
    <2> QED BY <2>1, <2>2, <1>2 DEF RetryOrGiveUp, TypeOK
  <1>3. CASE ~(task[t].left > 0)
    BY <1>3, BusyTask DEF RetryOrGiveUp, TypeOK
  <1> QED BY <1>2, <1>3

\* Appending a lost host to the channel while there is room.
LEMMA AppendLossType ==
    ASSUME TypeOK, NEW h \in Host, Len(lossChan) < ChanCap,
           lossChan' = Append(lossChan, h)
    PROVE  lossChan' \in Seq(Host) /\ Len(lossChan') =< ChanCap
  <1>1. lossChan \in Seq(Host)
    BY DEF TypeOK
  <1>2. Len(lossChan') = Len(lossChan) + 1 /\ lossChan' \in Seq(Host)
    BY <1>1
  <1> QED BY <1>1, <1>2, HostAvailabilityAssumption

(* The type invariant, one action at a time. *)

LEMMA TypeHandler ==
    ASSUME TypeOK, NEW r \in Rpc, RpcStep(r)
    PROVE  TypeOK'
  <1>1. rpc[r] \in RpcState
    BY BusyRpc DEF RpcStep, LoadHeartbeat, Beat, StatusWritten, StatusRefused,
                   PutInstance
  <1>2. Idle.pc # "put"
    BY DEF Idle
  <1>3. CASE LoadHeartbeat(r)
    <2> DEFINE m == [rpc[r] EXCEPT !.pc = "beat", !.since = now,
                                   !.hb = tracked[rpc[r].host]]
    <2>1. m \in RpcState /\ m.pc # "put"
      BY <1>1 DEF TypeOK, RpcState
    <2>2. rpc' = [rpc EXCEPT ![r] = m]
      BY <1>3 DEF LoadHeartbeat, TypeOK
    <2> HIDE DEF m
    <2> QED BY <2>1, <2>2, <1>3, RpcChange
            DEF LoadHeartbeat, TypeOK, world, checking, northb
  <1>4. CASE Beat(r)
    <2>1. /\ rpc' \in [Rpc -> RpcState \cup {Idle}]
          /\ \A q \in Rpc : rpc'[q].pc = "put" => rpc'[q].plan \in Reported
      BY <1>1, <1>4, AfterBeatType, RpcChange DEF Beat
    <2>2. /\ tracked' \in [Host -> HbId \cup {NoHb}]
          /\ timer' \in [Host -> [HbId -> 0..(MaxTime + Timeout)]]
          /\ gaveUp' \in [Host -> BOOLEAN]
      <3>1. rpc[r].host \in Host /\ rpc[r].hb \in HbId \cup {NoHb}
        BY <1>1 DEF RpcState
      <3>2. CASE rpc[r].hb # NoHb /\ ResetTimer(rpc[r].host, rpc[r].hb)
        BY <3>1, <3>2, ResetType DEF TypeOK
      <3>3. CASE rpc[r].hb = NoHb /\ StoreHeartbeat(rpc[r].host)
        BY <3>1, <3>3, StoreType
      <3> QED BY <1>4, <3>2, <3>3 DEF Beat
    <2> QED BY <2>1, <2>2, <1>4 DEF Beat, TypeOK, world, checking, northb
  <1>5. CASE StatusWritten(r) \/ StatusRefused(r)
    <2>1. /\ rpc' \in [Rpc -> RpcState \cup {Idle}]
          /\ \A q \in Rpc : rpc'[q].pc = "put" => rpc'[q].plan \in Reported
      <3>1. CASE rpc' = [rpc EXCEPT ![r] = Idle]
        BY <1>2, <3>1, RpcChange
      <3>2. CASE rpc' = [rpc EXCEPT ![r] = PutNext(rpc[r])]
        BY <1>1, <3>2, AfterBeatType, RpcChange
      <3> QED BY <1>5, <3>1, <3>2 DEF StatusWritten, StatusRefused
    <2>2. /\ inv' \in [Host -> HostRecord]
          /\ events' \in Seq(Event) /\ Len(events') =< EventCap
      <3>1. CASE UNCHANGED <<inv, events>>
        BY <3>1 DEF TypeOK
      <3>2. CASE WriteStatus(rpc[r].host, rpc[r].plan, rpc[r].ts)
        <4>1. rpc[r].plan \in Status
          BY <1>5, HostAvailabilityAssumption
             DEF StatusWritten, StatusRefused, TypeOK, Status
        <4>2. rpc[r].host \in Host /\ rpc[r].ts \in 0..MaxTime
          BY <1>1, RpcFields
        <4> QED BY <3>2, <4>1, <4>2, WriteStatusType
      <3> QED BY <1>5, <3>1, <3>2 DEF StatusWritten, StatusRefused
    <2> QED BY <2>1, <2>2, <1>5
            DEF StatusWritten, StatusRefused, TypeOK, world, checking
  <1>6. CASE PutInstance(r)
    <2>1. /\ rpc' \in [Rpc -> RpcState \cup {Idle}]
          /\ \A q \in Rpc : rpc'[q].pc = "put" => rpc'[q].plan \in Reported
      BY <1>2, <1>6, RpcChange DEF PutInstance
    <2>2. rpc[r].host \in Host
      BY <1>1, RpcFields
    <2>3. inv' \in [Host -> HostRecord]
      <3>1. inv[rpc[r].host] \in HostRecord
        BY <2>2 DEF TypeOK
      <3>2. [inv[rpc[r].host] EXCEPT !.inst = "running"] \in HostRecord
        BY <3>1 DEF HostRecord, InstState
      <3> QED BY <1>6, <2>2, <3>2 DEF PutInstance, TypeOK
    <2>4. events' \in Seq(Event) /\ Len(events') =< EventCap
      <3>1. [kind |-> "instance", host |-> rpc[r].host] \in Event
        BY <2>2 DEF Event
      <3> QED BY <1>6, <3>1, NotifyType DEF PutInstance, NotifyInstance, TypeOK
    <2> QED BY <2>1, <2>3, <2>4, <1>6 DEF PutInstance, TypeOK, world, checking
  <1> QED BY <1>3, <1>4, <1>5, <1>6 DEF RpcStep

LEMMA TypeTask ==
    ASSUME TypeOK, NEW t \in Task, TaskStep(t)
    PROVE  TypeOK'
  <1>1. task[t].pc # "idle" /\ task[t] \in TaskState /\ task[t].host \in Host
    BY BusyTask DEF TaskStep, GetLostHost, PutLostHost
  <1>2. /\ task' \in [Task -> TaskState \cup {Idle}]
        /\ gaveUp' \in [Host -> BOOLEAN]
    <2>1. CASE RetryOrGiveUp(t)
      BY <1>1, <2>1, RetryType
    <2>2. CASE task' = [task EXCEPT ![t] = Idle] /\ UNCHANGED gaveUp
      BY <2>2 DEF TypeOK
    <2>3. CASE task' = [task EXCEPT ![t] = [task[t] EXCEPT !.pc = "put"]]
               /\ UNCHANGED gaveUp
      <3>1. [task[t] EXCEPT !.pc = "put"] \in TaskState
        BY <1>1 DEF TaskState
      <3> QED BY <2>3, <3>1 DEF TypeOK
    <2> QED BY <2>1, <2>2, <2>3 DEF TaskStep, GetLostHost, PutLostHost
  <1>3. CASE GetLostHost(t)
    BY <1>2, <1>3 DEF GetLostHost, TypeOK, world, checking, northb
  <1>4. CASE PutLostHost(t)
    <2>1. /\ inv' \in [Host -> HostRecord]
          /\ events' \in Seq(Event) /\ Len(events') =< EventCap
      <3>1. CASE UNCHANGED <<inv, events>>
        BY <3>1 DEF TypeOK
      <3>2. CASE WriteStatus(task[t].host, "noConnection", task[t].ts)
        <4>1. "noConnection" \in Status /\ task[t].ts \in 0..MaxTime
          BY <1>1, BusyTask DEF Status
        <4> QED BY <1>1, <3>2, <4>1, WriteStatusType
      <3> QED BY <1>4, <3>1, <3>2 DEF PutLostHost
    <2> QED BY <1>2, <1>4, <2>1 DEF PutLostHost, TypeOK, world, checking
  <1> QED BY <1>3, <1>4 DEF TaskStep

LEMMA TypeCheck ==
    ASSUME TypeOK, NEW h \in Host, NEW i \in HbId,
           CheckHeartbeat(h, i) \/ SendLoss(h, i)
    PROVE  TypeOK'
  <1>1. lossChan' \in Seq(Host) /\ Len(lossChan') =< ChanCap
    <2>1. CASE Len(lossChan) < ChanCap /\ lossChan' = Append(lossChan, h)
      BY <2>1, AppendLossType
    <2>2. CASE lossChan' = lossChan
      BY <2>2 DEF TypeOK
    <2> QED BY <2>1, <2>2 DEF CheckHeartbeat, SendLoss
  <1>2. sending' \subseteq Host \X HbId /\ checks' \subseteq Host \X HbId
    BY DEF CheckHeartbeat, SendLoss, TypeOK
  <1>3. timer' \in [Host -> [HbId -> 0..(MaxTime + Timeout)]]
    <2>1. NoTimer \in 0..(MaxTime + Timeout)
      BY HostAvailabilityAssumption DEF NoTimer
    <2>2. \/ timer' = [timer EXCEPT ![h][i] = NoTimer]
          \/ timer' = timer
      BY DEF CheckHeartbeat, SendLoss
    <2>3. timer \in [Host -> [HbId -> 0..(MaxTime + Timeout)]]
      BY DEF TypeOK
    <2>4. CASE timer' = [timer EXCEPT ![h][i] = NoTimer]
      BY <2>1, <2>3, <2>4
    <2> QED BY <2>2, <2>3, <2>4
  <1>4. gaveUp' \in [Host -> BOOLEAN]
    BY DEF CheckHeartbeat, SendLoss, TypeOK
  <1> QED BY <1>1, <1>2, <1>3, <1>4
          DEF CheckHeartbeat, SendLoss, TypeOK, world, northb

LEMMA TypeLoop ==
    ASSUME TypeOK, HandleEvent \/ FindTrusted \/ SyncHosts
    PROVE  TypeOK'
  <1>1. CASE HandleEvent
    <2>1. /\ events # <<>> /\ Head(events) \in Event
          /\ Tail(events) \in Seq(Event) /\ Len(Tail(events)) = Len(events) - 1
      BY <1>1 DEF HandleEvent, TypeOK
    <2>2. events' \in Seq(Event) /\ Len(events') =< EventCap
      BY <1>1, <2>1, HostAvailabilityAssumption DEF HandleEvent, TypeOK
    <2>3. Head(events).host \in Host
      BY <2>1 DEF Event
    <2>4. /\ tracked' \in [Host -> HbId \cup {NoHb}]
          /\ timer' \in [Host -> [HbId -> 0..(MaxTime + Timeout)]]
          /\ gaveUp' \in [Host -> BOOLEAN]
      BY <1>1, <2>3, StoreType DEF HandleEvent, TypeOK
    <2> QED BY <1>1, <2>2, <2>4 DEF HandleEvent, TypeOK, world, checking
  <1>2. CASE FindTrusted
    BY <1>2 DEF FindTrusted, TrustedHosts, TypeOK, world, checking
  <1>3. CASE SyncHosts
    BY <1>3 DEF SyncHosts, TypeOK, world, checking
  <1> QED BY <1>1, <1>2, <1>3

LEMMA TypeWorld ==
    ASSUME TypeOK, World
    PROVE  TypeOK'
  <1>1. CASE Crash
    <2>1. env' \in 0..MaxEnv /\ now' = now
      BY <1>1, HostAvailabilityAssumption DEF Crash, Outside, TypeOK
    <2>2. NoTimer \in 0..(MaxTime + Timeout) /\ Idle.pc # "put"
      BY HostAvailabilityAssumption DEF NoTimer, Idle
    <2>3. Len(<<>>) = 0 /\ <<>> \in Seq(Host) /\ <<>> \in Seq(Event)
      OBVIOUS
    <2>4. tracked' \in [Host -> HbId \cup {NoHb}]
      BY <1>1 DEF Crash
    <2>5. timer' \in [Host -> [HbId -> 0..(MaxTime + Timeout)]]
      BY <1>1, <2>2 DEF Crash
    <2>6. /\ lossChan' \in Seq(Host) /\ Len(lossChan') =< ChanCap
          /\ events' \in Seq(Event) /\ Len(events') =< EventCap
      BY <1>1, <2>3, HostAvailabilityAssumption DEF Crash
    <2>7. /\ rpc' \in [Rpc -> RpcState \cup {Idle}]
          /\ \A r \in Rpc : rpc'[r].pc = "put" => rpc'[r].plan \in Reported
      BY <1>1, <2>2 DEF Crash
    <2>8. task' \in [Task -> TaskState \cup {Idle}]
      BY <1>1 DEF Crash
    <2> QED BY <1>1, <2>1, <2>4, <2>5, <2>6, <2>7, <2>8 DEF Crash, TypeOK
  <1>2. ASSUME NEW h \in Host, NEW state \in HostState, ChangeHostState(h, state)
        PROVE  TypeOK'
    <2>1. env' \in 0..MaxEnv /\ now' = now
      BY <1>2, HostAvailabilityAssumption DEF ChangeHostState, Outside, TypeOK
    <2>2. inv' \in [Host -> HostRecord]
      <3>1. [inv[h] EXCEPT !.state = state] \in HostRecord
        BY DEF TypeOK, HostRecord
      <3> QED BY <1>2, <3>1 DEF ChangeHostState, TypeOK
    <2>3. events' \in Seq(Event) /\ Len(events') =< EventCap
      <3>1. [kind |-> "host", host |-> h] \in Event
        BY DEF Event
      <3>2. Deauthorised(state) \in BOOLEAN
        BY DEF Deauthorised
      <3> QED BY <1>2, <3>1, <3>2, NotifyType DEF ChangeHostState, NotifyHost
    <2> QED BY <1>2, <2>1, <2>2, <2>3 DEF ChangeHostState, TypeOK, checking
  <1>3. ASSUME NEW h \in Host, NEW inst \in InstState, Onboard(h, inst)
        PROVE  TypeOK'
    <2>1. env' \in 0..MaxEnv /\ now' = now
      BY <1>3, HostAvailabilityAssumption DEF Onboard, Outside, TypeOK
    <2>2. inv' \in [Host -> HostRecord]
      <3>1. [inv[h] EXCEPT !.inst = inst] \in HostRecord
        BY DEF TypeOK, HostRecord
      <3> QED BY <1>3, <3>1 DEF Onboard, TypeOK
    <2>3. events' \in Seq(Event) /\ Len(events') =< EventCap
      <3>1. [kind |-> "instance", host |-> h] \in Event
        BY DEF Event
      <3> QED BY <1>3, <3>1, NotifyType DEF Onboard, NotifyInstance
    <2> QED BY <1>3, <2>1, <2>2, <2>3 DEF Onboard, TypeOK, checking
  <1>4. ASSUME NEW h \in Host, Maintain(h)
        PROVE  TypeOK'
    <2>1. env' \in 0..MaxEnv /\ now' = now
      BY <1>4, HostAvailabilityAssumption DEF Maintain, Outside, TypeOK
    <2>2. inv' \in [Host -> HostRecord]
      <3>1. [inv[h] EXCEPT !.maint = ~inv[h].maint] \in HostRecord
        BY DEF TypeOK, HostRecord
      <3> QED BY <1>4, <3>1 DEF Maintain, TypeOK
    <2>3. events' \in Seq(Event) /\ Len(events') =< EventCap
      <3>1. [kind |-> "instance", host |-> h] \in Event
        BY DEF Event
      <3> QED BY <1>4, <3>1, NotifyType DEF Maintain, NotifyInstance
    <2> QED BY <1>4, <2>1, <2>2, <2>3 DEF Maintain, TypeOK, checking
  <1>5. ASSUME NEW h \in Host, ToggleAgent(h)
        PROVE  TypeOK'
    BY <1>5, HostAvailabilityAssumption
       DEF ToggleAgent, Outside, TypeOK, checking, northb
  <1> QED BY <1>1, <1>2, <1>3, <1>4, <1>5 DEF World

LEMMA TypeNext ==
    ASSUME TypeOK, [Next]_vars
    PROVE  TypeOK'
  <1>1. CASE UNCHANGED vars
    BY <1>1 DEF vars, TypeOK
  <1>2. CASE Tick
    BY <1>2, HostAvailabilityAssumption DEF Tick, TypeOK, checking, northb
  <1>3. CASE Start
    <2>1. /\ 1 \in HbId /\ NoTimer \in 0..(MaxTime + Timeout)
          /\ now + Timeout \in 0..(MaxTime + Timeout)
      BY HostAvailabilityAssumption DEF HbId, NoTimer, TypeOK
    <2>2. /\ tracked' \in [Host -> HbId \cup {NoHb}]
          /\ timer' \in [Host -> [HbId -> 0..(MaxTime + Timeout)]]
      BY <1>3, <2>1 DEF Start
    <2> QED BY <1>3, <2>2 DEF Start, TypeOK, checking, northb
  <1>4. CASE Sweep
    BY <1>4 DEF Sweep, TypeOK, world, northb
  <1>5. ASSUME NEW h \in Host, NEW r \in Rpc, NEW kind \in {"host", "instance"},
               NEW want \in Reported, ReadHost(r, h, kind, want)
        PROVE  TypeOK'
    <2> DEFINE m == [pc |-> "load", host |-> h, plan |-> StatusPlan(inv[h], want),
                     inst |-> kind = "instance" /\ inv[h].inst = "provisioned",
                     hb |-> NoHb, since |-> 0, ts |-> 0]
    <2>1. StatusPlan(inv[h], want) \in Reported \cup {"skip", "refuse"}
      BY DEF StatusPlan
    <2>2. m \in RpcState /\ m.pc # "put"
      BY <2>1, HostAvailabilityAssumption DEF RpcState
    <2>3. rpc' = [rpc EXCEPT ![r] = m]
      BY <1>5 DEF ReadHost
    <2> HIDE DEF m
    <2> QED BY <2>2, <2>3, <1>5, RpcChange
            DEF ReadHost, TypeOK, world, checking, northb
  <1>6. ASSUME NEW t \in Task, TakeLoss(t)
        PROVE  TypeOK'
    <2>1. /\ Head(lossChan) \in Host /\ Tail(lossChan) \in Seq(Host)
          /\ Len(Tail(lossChan)) = Len(lossChan) - 1
      BY <1>6 DEF TakeLoss, TypeOK
    <2>2. lossChan' \in Seq(Host) /\ Len(lossChan') =< ChanCap
      BY <1>6, <2>1, HostAvailabilityAssumption DEF TakeLoss, TypeOK
    <2>3. [pc |-> "get", host |-> Head(lossChan), ts |-> now, left |-> MaxRetries]
             \in TaskState
      BY <2>1, HostAvailabilityAssumption DEF TaskState, TypeOK
    <2>4. task' \in [Task -> TaskState \cup {Idle}]
      BY <1>6, <2>3 DEF TakeLoss, TypeOK
    <2> QED BY <1>6, <2>2, <2>4 DEF TakeLoss, TypeOK, world, northb
  <1> QED BY <1>1, <1>2, <1>3, <1>4, <1>5, <1>6, TypeHandler, TypeTask, TypeCheck,
             TypeLoop, TypeWorld DEF Next, Report

LEMMA TypeInit ==
    ASSUME Init
    PROVE  TypeOK
  <1>1. InitHost \subseteq HostRecord
    BY HostAvailabilityAssumption
       DEF InitHost, HostRecord, Status, HostState, InstState
  <1>2. inv \in [Host -> HostRecord]
    BY <1>1 DEF Init
  <1>3. /\ NoTimer \in 0..(MaxTime + Timeout) /\ 0 \in 0..MaxTime
        /\ 0 \in 0..MaxEnv /\ Idle.pc # "put"
    BY HostAvailabilityAssumption DEF NoTimer, Idle
  <1>4. /\ lossChan \in Seq(Host) /\ Len(lossChan) =< ChanCap
        /\ events \in Seq(Event) /\ Len(events) =< EventCap
    BY HostAvailabilityAssumption DEF Init
  <1> QED BY <1>2, <1>3, <1>4 DEF Init, TypeOK

\* Every variable keeps its type, for all values of the constants.
THEOREM TypeCorrect == Spec => []TypeOK
  <1>1. Init => TypeOK
    BY TypeInit
  <1>2. TypeOK /\ [Next]_vars => TypeOK'
    BY TypeNext
  <1> QED BY <1>1, <1>2, PTL DEF Spec
=============================================================================
