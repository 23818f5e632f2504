------------------------------ MODULE HostNetwork ------------------------------
(***************************************************************************)
(* The networking manager (networking/internal) beside the host manager:   *)
(* its control loop turns events of IP addresses and a daily tick into     *)
(* requests, and one worker checks the requested address for duplicates    *)
(* and writes its status, which the next report of the host resets.        *)
(*                                                                         *)
(* The managers share nothing but Inventory.  The worker decides on what   *)
(* it read two calls ago; events may get lost, calls may fail or be        *)
(* applied although they failed, and the manager may die at any point.     *)
(***************************************************************************)
EXTENDS HostInventory

CONSTANTS
    Entered     \* texts of the addresses an operator may enter; NoKey: none yet

VARIABLES
    notices,    \* addresses with an event in the Watcher channel
    queue,      \* requests of the controller
    nm,         \* the reconciliation in progress
    nloop       \* whether the manager has gone through its start

networkVars == <<notices, queue, nm, nloop>>
vars == <<hostVars, networkVars>>

-----------------------------------------------------------------------------
(* Data *)

Statuses == {"unspecified", "configured", "duplicate", "unassigned"}

\* An entered address has no NIC.
NoNic == 0

NoRequest == [pc |-> "idle"]

\* Defect: an address is no duplicate of those that are in error.
InSiteUnflagged(ip) ==
    {other \in ips : other.key = ip.key /\ other.nic = ip.nic
                     /\ (other.status = "duplicate" => other.id = ip.id)}

\* GetIPAddressesInSite: the same address, for an address of a NIC on that NIC;
\* the site of the host narrows nothing down any more.
InSite(ip) ==
    {other \in ips : other.key = ip.key /\ (ip.nic = NoNic \/ other.nic = ip.nic)}

Verdict(ip) == IF Cardinality(InSite(ip)) > 1 THEN "duplicate" ELSE "configured"

\* Defect: an address that still has to be assigned is looked for.
NeverWithoutText(ip) == FALSE

WithoutText(ip) == ip.key = NoKey

\* skipReconciliation: only entered addresses have a desired state.
Skipped(ip) == ip.nic = NoNic /\ ip.status = "configured"

-----------------------------------------------------------------------------
(* Requests and events *)

\* A request that is in the queue already is not added again.
Request(list, ids) == list \o SetToSeq(ids \ ToSet(list))

\* Inventory announces the addresses it has created or changed.
Announce == notices' = notices \cup {ip.id : ip \in ips' \ ips}

\* A step of the host manager, the agents and the operators.
HostStep ==
    /\ HostNext
    /\ Announce
    /\ UNCHANGED <<queue, nm, nloop>>

EnterAddress ==
    /\ Change
    /\ \E key \in Entered :
          ips' = ips \cup {[id |-> created + 1, nic |-> NoNic, key |-> key,
                            status |-> "unspecified"]}
    /\ created' = created + 1
    /\ Announce
    /\ UNCHANGED <<hw, host, comps, rpc, faults, queue, nm, nloop>>

\* "even if our notification won't deliver an event"
LoseNotice ==
    /\ Fault
    /\ \E id \in notices : notices' = notices \ {id}
    /\ UNCHANGED <<inventory, hw, rpc, changes, queue, nm, nloop>>

\* filterEvents has let the event through: it is no deletion.
HandleEvent ==
    /\ nloop = "events"
    /\ \E id \in notices :
          /\ notices' = notices \ {id}
          /\ queue' = Request(queue, {id})
    /\ UNCHANGED <<hostVars, nm, nloop>>

\* reconcileAll, at the start and at every tick.  An error ends the process at
\* the start, which starts again.
ReconcileAll ==
    /\ \/ /\ queue' = Request(queue, {ip.id : ip \in ips})
          /\ nloop' = "events"
          /\ UNCHANGED faults
       \/ /\ Fault
          /\ UNCHANGED <<queue, nloop>>
    /\ UNCHANGED <<inventory, hw, rpc, changes, notices, nm>>

-----------------------------------------------------------------------------
(* The worker *)

Ack == nm' = NoRequest

\* HandleInventoryError: by the code of the error the request is dropped or
\* comes back.
HandleInventoryError(id, rest) ==
    /\ nm' = NoRequest
    /\ queue' \in {rest, Request(rest, {id})}

\* The worker takes a request and gets the address; an address without a text
\* can only be refused.
GetIPAddress ==
    /\ nm = NoRequest
    /\ queue # <<>>
    /\ LET id == Head(queue) IN
          \/ /\ \/ Ack /\ \A ip \in ips : ip.id # id
                \/ \E ip \in ips :
                      /\ ip.id = id
                      /\ \/ Skipped(ip) /\ Ack
                         \/ /\ ~Skipped(ip)
                            /\ nm' = IF WithoutText(ip)
                                     THEN [pc |-> "write", id |-> id, status |-> "unassigned"]
                                     ELSE [pc |-> "list", ip |-> ip]
             /\ queue' = Tail(queue)
             /\ UNCHANGED faults
          \/ Fault /\ HandleInventoryError(id, Tail(queue))
    /\ UNCHANGED <<inventory, hw, rpc, changes, notices, nloop>>

\* handleIPDuplication up to the update: none is weird, more than one are
\* duplicates; nothing is written when it would not change what was read.
ListInSite ==
    /\ nm.pc = "list"
    /\ LET ip == nm.ip IN
          \/ /\ InSite(ip) = {} \/ ip.status = Verdict(ip)
             /\ Ack
             /\ UNCHANGED <<queue, faults>>
          \/ /\ InSite(ip) # {}
             /\ ip.status # Verdict(ip)
             /\ nm' = [pc |-> "write", id |-> ip.id, status |-> Verdict(ip)]
             /\ UNCHANGED <<queue, faults>>
          \/ Fault /\ HandleInventoryError(ip.id, queue)
    /\ UNCHANGED <<inventory, hw, rpc, changes, notices, nloop>>

\* UpdateIPAddressStatusAndState; an address that is gone is NotFound.
UpdateStatusAndState ==
    /\ nm.pc = "write"
    /\ LET old     == {ip \in ips : ip.id = nm.id}
           written == (ips \ old) \cup {[ip EXCEPT !.status = nm.status] : ip \in old}
       IN  \/ /\ ips' = written
              /\ Ack
              /\ UNCHANGED <<queue, faults>>
           \/ /\ Fault
              /\ ips' \in {ips, written}
              /\ HandleInventoryError(nm.id, queue)
    /\ Announce
    /\ UNCHANGED <<host, comps, created, hw, rpc, changes, nloop>>

Work == GetIPAddress \/ ListInSite \/ UpdateStatusAndState

\* Requests and events that were not handled are gone.
Restart ==
    /\ Fault
    /\ notices' = {}
    /\ queue' = <<>>
    /\ nm' = NoRequest
    /\ nloop' = "start"
    /\ UNCHANGED <<inventory, hw, rpc, changes>>

-----------------------------------------------------------------------------
Init ==
    /\ HostInit
    /\ notices = {}
    /\ queue = <<>>
    /\ nm = NoRequest
    /\ nloop = "start"

Next ==
    \/ HostStep
    \/ EnterAddress
    \/ LoseNotice
    \/ HandleEvent
    \/ ReconcileAll
    \/ Work
    \/ Restart

Spec == Init /\ [][Next]_vars

\* The goroutines of the managers go on, and the ticker fires every day; that
\* the ticker leaves room for events is not needed.
FairSpec ==
    /\ Spec
    /\ HostFairness
    /\ WF_vars(ReconcileAll)
    /\ WF_vars(Work)

-----------------------------------------------------------------------------
(* Properties *)

Id == 1 .. created

TypeOK ==
    /\ HostTypeOK
    /\ \A ip \in ips : ip.id \in Id /\ ip.nic \in 0 .. created /\ ip.status \in Statuses
    /\ \A ip, other \in ips : ip.id = other.id => ip = other
    /\ notices \subseteq Id
    /\ ToSet(queue) \subseteq Id /\ IsInjective(queue)
    /\ \/ nm = NoRequest
       \/ nm \in [pc : {"write"}, id : Id, status : Statuses \ {"unspecified"}]
       \/ nm.pc = "list" /\ nm.ip.id \in Id /\ nm.ip.key # NoKey
    /\ nloop \in {"start", "events"}

\* The manager's purpose: time and again the status of every reported address
\* tells whether its NIC has the address twice, although every report resets
\* the status, deletions are not noticed, and events get lost.
StatusTellsDuplicates ==
    []<>(\A ip \in ips : ip.nic # NoNic =>
            ip.status = IF \E other \in ips \ {ip} : other.nic = ip.nic /\ other.key = ip.key
                        THEN "duplicate" ELSE "configured")
=============================================================================
