------------------------------ MODULE HostMessages ------------------------------
(***************************************************************************)
(* The system information message of the host agent (hostmgr_southbound):  *)
(* what the generated validators accept (ValidateAll: a message is valid   *)
(* when each of its fields and embedded messages is), and what the host    *)
(* manager can turn into resources (the Populate functions of              *)
(* host/pkg/utils).  The two differ.                                       *)
(*                                                                         *)
(* A message is a record.  Its field "ok" stands for the rules of its      *)
(* strings and numbers (lengths, ranges); key and val stand for what       *)
(* identifies a component and for everything else that is stored of it.    *)
(***************************************************************************)
EXTENDS Integers, Sequences, Functions, FiniteSets

\* An optional embedded message is a list of at most one.
Every(list, Rule(_)) == \A k \in DOMAIN list : Rule(list[k])
Absent == <<>>

-----------------------------------------------------------------------------
(* The parts of the message *)

ValidSystemDisk(disk) == disk.ok
ValidStorage(disks) == Every(disks, ValidSystemDisk)

\* A parsable address, and a prefix length from 1 to 127 for either family.
ValidIPAddress(ip) == ip.parses /\ ip.bits \in 1 .. 127
ValidSystemNetwork(nic) == nic.ok /\ Every(nic.ips, ValidIPAddress)

ValidInterfaces(class) == class.ok
ValidSystemUSB(usb) == usb.ok /\ Every(usb.interfaces, ValidInterfaces)

\* The PCI identifier may be empty: "for backwards compatibility".
ValidSystemGPU(gpu) == gpu.ok

ValidSystemPCI(pci) == pci.ok
ValidSystemMemory(memory) == memory.size > 0

\* At least one core, and none twice.
ValidCoreGroup(cores) == Len(cores) > 0 /\ IsInjective(cores)
ValidSocket(groups) == Len(groups) > 0 /\ Every(groups, ValidCoreGroup)
ValidCPUTopology(sockets) == Len(sockets) > 0 /\ Every(sockets, ValidSocket)
ValidSystemCPU(cpu) ==
    /\ cpu.ok
    /\ cpu.sockets > 0
    /\ Every(cpu.topology, ValidCPUTopology)

ValidHWInfo(hw) ==
    /\ hw.ok
    /\ Every(hw.cpu, ValidSystemCPU)
    /\ Every(hw.memory, ValidSystemMemory)
    /\ ValidStorage(hw.storage)
    /\ Every(hw.nic, ValidSystemNetwork)
    /\ Every(hw.usb, ValidSystemUSB)
    /\ Every(hw.gpu, ValidSystemGPU)
    /\ Every(hw.pci, ValidSystemPCI)

\* Nothing is asked of a kubeconfig.  What follows is not stored, but validated.
ValidOsKernel(kernel) == kernel.ok
ValidOsRelease(release) == release.ok
ValidOsInfo(os) == Every(os.kernel, ValidOsKernel) /\ Every(os.release, ValidOsRelease)
ValidBmcInfo(bmc) == bmc.ok
ValidBmInfo(bm) == Every(bm.bmc, ValidBmcInfo)

ValidBiosInfo(bios) == bios.ok

ValidSystemInfo(info) ==
    /\ Every(info.hw, ValidHWInfo)
    /\ Every(info.os, ValidOsInfo)
    /\ Every(info.bm, ValidBmInfo)
    /\ Every(info.bios, ValidBiosInfo)

\* UpdateHostSystemInfoByGUIDRequest: a UUID, and the information is required.
ValidSystemInfoRequest(request) ==
    /\ request.guid
    /\ request.info # Absent
    /\ Every(request.info, ValidSystemInfo)

-----------------------------------------------------------------------------
(* What becomes of them *)

\* PopulateHostResourceWithNewSystemInfo: a topology has as many sockets as are
\* counted.
PopulatesCPU(cpu) == cpu.topology = Absent \/ Len(cpu.topology[1]) = cpu.sockets
PopulatesHost(info) == \A k \in DOMAIN info.hw : Every(info.hw[k].cpu, PopulatesCPU)

\* The metadata are made from none: the kubeconfig replaces every other key.
Metadata(info) == IF info.kc = Absent THEN <<>> ELSE <<info.kc[1].kubeconfig>>

\* The fields of the host that are overwritten: those that are not reported,
\* with nothing.
HostFields(info) ==
    [hw |-> IF info.hw = Absent THEN 0 ELSE info.hw[1].val,
     bios |-> IF info.bios = Absent THEN 0 ELSE info.bios[1].val,
     metadata |-> Metadata(info)]

\* PopulateHostgpuWithGpuInfo: the PCI identifier must be there.
NoKey == "empty"
PopulatesGpu(gpu) == gpu.key # NoKey

\* PopulateIPAddressWithIPAddressInfo: the CIDR notation parses.
PopulatesAddress(ip) == ip.parses /\ ip.bits \in 0 .. (IF ip.v6 THEN 128 ELSE 32)

\* The lists of components, empty when there is no hardware information.
NoHardware == [storage |-> <<>>, nic |-> <<>>, usb |-> <<>>, gpu |-> <<>>]
Components(info) == IF info.hw = Absent THEN NoHardware ELSE info.hw[1]

\* The whole report can be stored.
Storable(info) ==
    /\ PopulatesHost(info)
    /\ Every(Components(info).gpu, PopulatesGpu)
    /\ \A k \in DOMAIN Components(info).nic :
          Every(Components(info).nic[k].ips, PopulatesAddress)
=============================================================================
