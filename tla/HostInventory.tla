------------------------------ MODULE HostInventory ------------------------------
(***************************************************************************)
(* System information reports of a host (host/pkg/hostmgr): the handler of *)
(* a report reads the host with its components once, and then creates,     *)
(* updates and deletes components, one Inventory call at a time, until     *)
(* Inventory holds what was reported: the host's own fields, the storages, *)
(* the NICs with their addresses, the USB devices and the GPUs.  The       *)
(* handlers of one host do not exclude each other, any call may fail or be *)
(* applied although it is reported as failed, and nothing is rolled back.  *)
(*                                                                         *)
(* What a handler still has to do is a list of calls, fixed by the report  *)
(* and by what was read.                                                   *)
(***************************************************************************)
EXTENDS HostMessages, SequencesExt

CONSTANTS
    Rpc,            \* handlers of reports
    Requests,       \* reports the agent may send
    MaxChanges,     \* bound of the changes of the hardware and of the host's state
    MaxFaults       \* bound of the failing calls

VARIABLES
    hw,         \* the request the agent sends at present
    host,       \* the host resource: its fields, and whether reports are taken
    comps,      \* the components of the host
    ips,        \* the IP addresses of the tenant
    created,    \* number of resources that were created
    rpc,        \* the state of each handler
    changes,
    faults

inventory == <<host, comps, ips, created>>
hostVars == <<hw, host, comps, ips, created, rpc, changes, faults>>

-----------------------------------------------------------------------------
(* The plan of a report *)

Kinds == {"storage", "nic", "usb", "gpu"}

IsList(x) == x \in Seq(Range(x))

\* The components of a report are lists, as are the addresses of a NIC.
ASSUME HostInventoryAssumption ==
    /\ MaxChanges \in Nat /\ MaxFaults \in Nat
    /\ \A request \in Requests : request.info # Absent =>
          LET parts == Components(request.info[1]) IN
             /\ \A kind \in Kinds : IsList(parts[kind])
             /\ \A k \in DOMAIN parts.nic : IsList(parts.nic[k].ips)

Idle == [pc |-> "idle"]

\* find...InList: by the key alone, the first one of the list.
Match(list, key) == {c \in list : c.key = key}
FirstOf(list) == CHOOSE c \in list : \A d \in list : c.id =< d.id

Refused == [op |-> "refused"]

\* NICs go on with their addresses.
Addresses(kind, id, item) ==
    IF kind = "nic" THEN <<[op |-> "addresses", nic |-> id, list |-> item.ips]>> ELSE <<>>

\* ...ToAddOrUpdate: created, or updated when it differs from what was read.
Put(kind, item, known) ==
    IF kind = "gpu" /\ ~PopulatesGpu(item) THEN <<Refused>>
    ELSE IF Match(known, item.key) = {} THEN
        <<[op |-> "create", kind |-> kind, item |-> item]>>
    ELSE LET old == FirstOf(Match(known, item.key)) IN
        (IF old.val = item.val THEN <<>>
         ELSE <<[op |-> "update", id |-> old.id, val |-> item.val]>>)
        \o Addresses(kind, old.id, item)

\* Defect: a NIC is removed before its addresses.
DropAlone(kind, old) == <<[op |-> "delete", id |-> old.id]>>

\* ...ToRemove: a NIC after its addresses.
Drop(kind, old) ==
    Addresses(kind, old.id, [ips |-> <<>>]) \o <<[op |-> "delete", id |-> old.id]>>

\* Defect: what is not reported stays.
GoneNever(items, known) == {}

Gone(items, known) == {c \in known : \A k \in DOMAIN items : items[k].key # c.key}

\* updateHoststorage, updateHostnics, updateHostusbs, updateHostgpus: first what
\* is reported, then what is not any more.
Reconcile(kind, items, known) ==
    LET gone == SetToSeq(Gone(items, known)) IN
       FlattenSeq([k \in DOMAIN items |-> Put(kind, items[k], known)])
       \o FlattenSeq([k \in DOMAIN gone |-> Drop(kind, gone[k])])

\* updateHost: IsSameHost compares the fields of the mask.
HostCall(info) ==
    IF ~PopulatesHost(info) THEN <<Refused>>
    ELSE IF host.fields = HostFields(info) THEN <<>>
    ELSE <<[op |-> "host", fields |-> HostFields(info)]>>

\* Defect: the host is read without its components.
NotLoaded(kind) == {}

\* The components come with the host, eagerly loaded.
Loaded(kind) == {c \in comps : c.kind = kind}

UpdateStorages(info) == Reconcile("storage", Components(info).storage, Loaded("storage"))
UpdateNics(info)     == Reconcile("nic", Components(info).nic, Loaded("nic"))
UpdateUsbs(info)     == Reconcile("usb", Components(info).usb, Loaded("usb"))
UpdateGpus(info)     == Reconcile("gpu", Components(info).gpu, Loaded("gpu"))

CallsOf(info) ==
    HostCall(info) \o UpdateStorages(info) \o UpdateNics(info)
                   \o UpdateUsbs(info) \o UpdateGpus(info)

\* hostIPToAddOrUpdate: the comparison covers status and state.
PutAddress(nic, item, known) ==
    IF ~PopulatesAddress(item) THEN <<Refused>>
    ELSE IF Match(known, item.key) = {} THEN
        <<[op |-> "createAddress", nic |-> nic, key |-> item.key]>>
    ELSE LET old == FirstOf(Match(known, item.key)) IN
        IF old.status = "configured" THEN <<>>
        ELSE <<[op |-> "updateAddress", id |-> old.id]>>

\* updateIPAddresses, the addresses of the NIC having been listed.
AddressCalls(nic, list, known) ==
    LET gone == SetToSeq(Gone(list, known)) IN
       FlattenSeq([k \in DOMAIN list |-> PutAddress(nic, list[k], known)])
       \o [k \in DOMAIN gone |-> [op |-> "deleteAddress", id |-> gone[k].id]]

-----------------------------------------------------------------------------
(* The handler *)

Fault ==
    /\ faults < MaxFaults
    /\ faults' = faults + 1

\* The agent reports what it finds, again and again.
Send(h) ==
    /\ rpc[h].pc \in {"idle", "answered"}
    /\ rpc' = [rpc EXCEPT ![h] = [pc |-> "sent", req |-> hw]]
    /\ UNCHANGED <<inventory, hw, changes, faults>>

\* The rest of the calls, or the answer.
Proceed(h, calls) ==
    rpc' = [rpc EXCEPT ![h] = [pc |-> IF calls = <<>> THEN "answered" ELSE "calls",
                               req |-> @.req, calls |-> calls]]

\* The error goes to the agent.
Fail(h) == rpc' = [rpc EXCEPT ![h] = Idle]

\* ValidateAll, GetHostResourceByGUID, and the checks of the host.
ReadHost(h) ==
    /\ rpc[h].pc = "sent"
    /\ IF ValidSystemInfoRequest(rpc[h].req) /\ host.admitted
       THEN Proceed(h, CallsOf(rpc[h].req.info[1]))
       ELSE Fail(h)
    /\ UNCHANGED <<inventory, hw, changes, faults>>

Calling(h, op) ==
    /\ rpc[h].pc = "calls"
    /\ Head(rpc[h].calls).op = op

Call(h) == Head(rpc[h].calls)
Rest(h) == Tail(rpc[h].calls)

\* A call that was applied may be reported as failed.
Returns(h, calls) ==
    \/ Proceed(h, calls) /\ UNCHANGED faults
    \/ Fail(h) /\ Fault

\* A call that is not applied.
CallFails(h) ==
    /\ rpc[h].pc \in {"sent", "calls"}
    /\ Fault
    /\ Fail(h)
    /\ UNCHANGED <<inventory, hw, changes>>

\* An item that cannot be populated.
RefuseItem(h) ==
    /\ Calling(h, "refused")
    /\ Fail(h)
    /\ UNCHANGED <<inventory, hw, changes, faults>>

WriteHost(h) ==
    /\ Calling(h, "host")
    /\ host' = [host EXCEPT !.fields = Call(h).fields]
    /\ Returns(h, Rest(h))
    /\ UNCHANGED <<comps, ips, created, hw, changes>>

\* What the Populate functions make of a reported disk, NIC, USB device or GPU.
Component(kind, id, item) == [kind |-> kind, id |-> id, key |-> item.key, val |-> item.val]

Create(h) ==
    /\ Calling(h, "create")
    /\ LET kind == Call(h).kind
           item == Call(h).item
           id   == created + 1
       IN  /\ comps' = comps \cup {Component(kind, id, item)}
           /\ Returns(h, Addresses(kind, id, item) \o Rest(h))
    /\ created' = created + 1
    /\ UNCHANGED <<host, ips, hw, changes>>

\* A component that is gone is NotFound.
Update(h) ==
    /\ Calling(h, "update")
    /\ LET old == {c \in comps : c.id = Call(h).id} IN
          /\ comps' = (comps \ old) \cup {[c EXCEPT !.val = Call(h).val] : c \in old}
          /\ IF old = {} THEN Fail(h) /\ UNCHANGED faults ELSE Returns(h, Rest(h))
    /\ UNCHANGED <<host, ips, created, hw, changes>>

\* NotFound counts as success.  Inventory keeps a NIC that has addresses.
Delete(h) ==
    /\ Calling(h, "delete")
    /\ LET id == Call(h).id IN
          IF \E ip \in ips : ip.nic = id
          THEN Fail(h) /\ UNCHANGED <<comps, faults>>
          ELSE Returns(h, Rest(h)) /\ comps' = {c \in comps : c.id # id}
    /\ UNCHANGED <<host, ips, created, hw, changes>>

ListAddresses(h) ==
    /\ Calling(h, "addresses")
    /\ LET nic == Call(h).nic IN
          Proceed(h, AddressCalls(nic, Call(h).list, {ip \in ips : ip.nic = nic}) \o Rest(h))
    /\ UNCHANGED <<inventory, hw, changes, faults>>

\* The NIC must exist.
CreateAddress(h) ==
    /\ Calling(h, "createAddress")
    /\ IF \E c \in comps : c.id = Call(h).nic
       THEN /\ ips' = ips \cup {[id |-> created + 1, nic |-> Call(h).nic, key |-> Call(h).key,
                                 status |-> "configured"]}
            /\ created' = created + 1
            /\ Returns(h, Rest(h))
       ELSE Fail(h) /\ UNCHANGED <<ips, created, faults>>
    /\ UNCHANGED <<host, comps, hw, changes>>

UpdateAddress(h) ==
    /\ Calling(h, "updateAddress")
    /\ LET old == {ip \in ips : ip.id = Call(h).id} IN
          /\ ips' = (ips \ old) \cup {[ip EXCEPT !.status = "configured"] : ip \in old}
          /\ IF old = {} THEN Fail(h) /\ UNCHANGED faults ELSE Returns(h, Rest(h))
    /\ UNCHANGED <<host, comps, created, hw, changes>>

\* The current state becomes DELETED, and Inventory removes the address.
DeleteAddress(h) ==
    /\ Calling(h, "deleteAddress")
    /\ ips' = {ip \in ips : ip.id # Call(h).id}
    /\ Returns(h, Rest(h))
    /\ UNCHANGED <<host, comps, created, hw, changes>>

Handle(h) ==
    \/ ReadHost(h) \/ RefuseItem(h) \/ WriteHost(h)
    \/ Create(h) \/ Update(h) \/ Delete(h)
    \/ ListAddresses(h) \/ CreateAddress(h) \/ UpdateAddress(h) \/ DeleteAddress(h)

-----------------------------------------------------------------------------
(* The rest of the system *)

Change ==
    /\ changes < MaxChanges
    /\ changes' = changes + 1

ChangeHardware ==
    /\ Change
    /\ \E request \in Requests \ {hw} : hw' = request
    /\ UNCHANGED <<inventory, rpc, faults>>

\* The host is deauthorised or loses its provisioning, or the other way round.
ChangeHost ==
    /\ Change
    /\ host' = [host EXCEPT !.admitted = ~@]
    /\ UNCHANGED <<comps, ips, created, hw, rpc, faults>>

HostInit ==
    /\ hw \in Requests
    /\ host = [fields |-> [hw |-> 0, bios |-> 0, metadata |-> <<>>], admitted |-> TRUE]
    /\ comps = {}
    /\ ips = {}
    /\ created = 0
    /\ rpc = [h \in Rpc |-> Idle]
    /\ changes = 0
    /\ faults = 0

HostNext ==
    \/ \E h \in Rpc : Send(h) \/ Handle(h) \/ CallFails(h)
    \/ ChangeHardware
    \/ ChangeHost

HostSpec == HostInit /\ [][HostNext]_hostVars

HostFairness == \A h \in Rpc : WF_hostVars(Send(h) \/ Handle(h))

-----------------------------------------------------------------------------
(* Properties *)

\* What the invariants below rest on: reports are handled one at a time, and none
\* has a component twice.
OneHandler == \A h, k \in Rpc : h = k

KeysDiffer(parts) ==
    \A kind \in Kinds : \A j, k \in DOMAIN parts[kind] :
       parts[kind][j].key = parts[kind][k].key => j = k

DistinctKeys ==
    \A request \in Requests : request.info # Absent => KeysDiffer(Components(request.info[1]))

HostTypeOK ==
    /\ hw \in Requests
    /\ host.admitted \in BOOLEAN
    /\ \A c \in comps : c.kind \in Kinds /\ c.id \in 1 .. created
    /\ \A c, d \in comps : c.id = d.id => c = d
    /\ \A h \in Rpc :
          /\ rpc[h].pc \in {"idle", "sent", "calls", "answered"}
          /\ rpc[h].pc # "idle" => rpc[h].req \in Requests
          /\ rpc[h].pc = "calls" => rpc[h].calls # <<>>
    /\ changes \in 0 .. MaxChanges
    /\ faults \in 0 .. MaxFaults

KeysOf(items) == {items[k].key : k \in DOMAIN items}

StoredKind(kind, items) ==
    /\ {c.key : c \in Loaded(kind)} = KeysOf(items)
    /\ \A k \in DOMAIN items : \E c \in Loaded(kind) :
          /\ c.key = items[k].key
          /\ c.val = items[k].val
          /\ kind = "nic" => {ip.key : ip \in {i \in ips : i.nic = c.id}} = KeysOf(items[k].ips)

\* Inventory holds what was reported, and nothing else.
Stored(info) ==
    LET parts == Components(info) IN
       /\ host.fields = HostFields(info)
       /\ StoredKind("storage", parts.storage)
       /\ StoredKind("nic", parts.nic)
       /\ StoredKind("usb", parts.usb)
       /\ StoredKind("gpu", parts.gpu)

\* The name, bus and address, or PCI identifier is "unique identifier" of a
\* component: as long as reports are handled one at a time no component is
\* stored twice, whatever calls fail or are applied although they failed.
OneComponentPerKey ==
    \A c, d \in comps : c.kind = d.kind /\ c.key = d.key => c = d

\* A report that was answered without an error is stored completely, whatever
\* the reports before it have left half-done.
AnsweredIsStored ==
    \A h \in Rpc : rpc[h].pc = "answered" => Stored(rpc[h].req.info[1])

\* When the hardware and the state of the host settle Inventory comes to hold
\* what is reported, and keeps it.
ReportIsStored ==
    <>[](host.admitted /\ ValidSystemInfoRequest(hw) /\ Storable(hw.info[1])
            => Stored(hw.info[1]))
=============================================================================
