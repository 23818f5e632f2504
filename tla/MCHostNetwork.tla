----------------------------- MODULE MCHostNetwork -----------------------------
(* Reports of a small host for HostNetwork. *)
EXTENDS HostNetwork

Item(key, val) == [key |-> key, val |-> val, ok |-> TRUE]
Ip(key, bits) == [key |-> key, parses |-> TRUE, bits |-> bits, v6 |-> FALSE]
Nic(key, val, list) == [key |-> key, val |-> val, ok |-> TRUE, ips |-> list]
Usb(key) == [key |-> key, val |-> 1, ok |-> TRUE, interfaces |-> <<[ok |-> TRUE]>>]

Cpu(sockets) == [ok |-> TRUE, sockets |-> sockets, topology |-> <<<<<<<<1, 2>>>>>>>>]

Report(val, disks, nics, usbs, gpus) ==
    [guid |-> TRUE,
     info |-> <<[hw |-> <<[ok |-> TRUE, val |-> val, cpu |-> <<Cpu(1)>>, memory |-> <<[size |-> 1]>>,
                       storage |-> disks, nic |-> nics, usb |-> usbs, gpu |-> gpus,
                       pci |-> <<>>]>>,
               os |-> Absent, bm |-> Absent, bios |-> Absent,
               kc |-> <<[kubeconfig |-> 1]>>]>>]

\* A NIC with one address.  Valid, but a GPU has no PCI identifier.
NoPciId == Report(1, <<>>, <<Nic("eth0", 1, <<Ip("a", 24)>>)>>, <<>>, <<Item(NoKey, 1)>>)

\* The NIC is another one, of the same name, and has the address twice.
Twice == Report(1, <<>>, <<Nic("eth0", 2, <<Ip("a", 24), Ip("a", 24)>>)>>, <<>>, <<>>)

\* Another NIC has the address.
Moved == Report(1, <<>>, <<Nic("eth1", 1, <<Ip("a", 24)>>)>>, <<>>, <<>>)

\* Not valid: a prefix of all bits.
FullPrefix == Report(1, <<>>, <<Nic("eth0", 1, <<Ip("a", 128)>>)>>, <<>>, <<>>)

Reports == {NoPciId, Twice, Moved, FullPrefix}

Texts == {NoKey, "a"}

\* The run is an instance of what is proved.
ASSUME ReportsAssumption == OneHandler /\ DistinctKeys
=============================================================================
