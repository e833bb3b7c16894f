----------------------------- MODULE WinFilter -----------------------------
(***************************************************************************)
(* The Windows upper filter driver vds_filter (windrv/vds_filter):         *)
(* the list of Bluetooth HID stacks it has recognised, the generation      *)
(* number of that list, and the queue of WAIT_DEVICE_CHANGE requests that  *)
(* a change completes.                                                     *)
(*                                                                         *)
(* A member of Devs is one device stack.  PnP sends the requests of one    *)
(* stack one at a time, those of different stacks concurrently, so each    *)
(* stack has its own program counter pnp[d] and every lock section of a    *)
(* dispatch routine is a step.  There is one reader of the list, the       *)
(* daemon, so there is at most one wait request (irp).                     *)
(***************************************************************************)
EXTENDS Integers, Lists

CONSTANTS
    Devs,        \* Bluetooth HID device stacks
    Addresses, NoAddress,
    AddressOf,   \* the address in the instance id of a stack, or NoAddress
    TargetOf,    \* is the stack the HID collection that carries reports?
    InitialLists,\* stacks attached before the daemon starts, as listed
    MaxDevices,  \* VDS_FILTER_MAX_DEVICES
    MaxOps       \* bound: inputs from outside (PnP, users, failures)

ASSUME DevicesNamed ==
    /\ AddressOf \in [Devs -> Addresses \cup {NoAddress}]
    /\ TargetOf \in [Devs -> BOOLEAN]
    /\ NoAddress \notin Addresses
    /\ InitialLists \subseteq UNION {SetToSeqs(S) : S \in SUBSET Devs}
    /\ IsFiniteSet(Devs)
ASSUME FilterBounds == MaxDevices \in Nat \ {0} /\ MaxOps \in Nat
(* One controller has one report collection (&Col01).                      *)
ASSUME OneTarget ==
    \A d, e \in Devs : TargetOf[d] /\ TargetOf[e] /\ AddressOf[d] = AddressOf[e]
                       => d = e

VARIABLES
    ops,         \* outside inputs so far
    loaded,      \* the control device exists
    pnp,         \* where the PnP thread of a stack is
    profile,     \* extension: report_target and address
    changed,     \* local of VdsDispatchPnp: list_changed
    devList,     \* vds_device_list
    linked,      \* extension: symbolic_link_created
    generation,  \* vds_device_generation
    irp          \* the wait request

stackVars == <<profile, changed, devList, linked>>
filterVars == <<ops, loaded, pnp, stackVars, generation, irp>>

Unknown == [target |-> FALSE, addr |-> NoAddress]
Known(d) == [target |-> TargetOf[d], addr |-> AddressOf[d]]
Profiles == [target : BOOLEAN, addr : Addresses \cup {NoAddress}]

PnpSteps == {"absent", "add_list", "add_bump", "add_drain", "add_link",
             "attached", "start_read", "start_list", "start_link",
             "start_bump", "start_drain", "remove_bump", "remove_drain",
             "remove_link"}

Listed(d) == d \in ToSet(devList)

(* The daemon may start before the driver, or find controllers attached    *)
(* and started: two notifications for each.                                *)
FilterInit ==
    /\ ops = 0
    /\ loaded \in BOOLEAN
    /\ devList \in IF loaded THEN InitialLists ELSE {<<>>}
    /\ pnp = [d \in Devs |-> IF Listed(d) THEN "attached" ELSE "absent"]
    /\ profile = [d \in Devs |-> IF Listed(d) THEN Known(d) ELSE Unknown]
    /\ changed = [d \in Devs |-> FALSE]
    /\ linked = [d \in Devs |-> Listed(d) /\ TargetOf[d]]
    /\ generation = 1 + 2 * Len(devList)
    /\ irp = "none"

Input == ops < MaxOps /\ ops' = ops + 1
Goto(d, step) == pnp' = [pnp EXCEPT ![d] = step]

-----------------------------------------------------------------------------
(* DriverEntry and VdsUnload.  The driver is only unloaded when it has no  *)
(* stack left and nobody holds its control device open.                    *)
DriverEntry ==
    /\ ~loaded /\ Input
    /\ loaded' = TRUE /\ generation' = 1 /\ devList' = <<>>
    /\ UNCHANGED <<pnp, profile, changed, linked, irp>>

VdsCompleteDeviceWaitQueue(status) ==
    irp' = IF irp = "queued" THEN status ELSE irp

VdsUnload(open) ==
    /\ loaded /\ ~open /\ Input
    /\ \A d \in Devs : pnp[d] = "absent"
    /\ loaded' = FALSE
    /\ VdsCompleteDeviceWaitQueue("failed")
    /\ UNCHANGED <<pnp, profile, changed, devList, linked, generation>>

(* Steps of one stack.                                                     *)
VdsReadPhysicalDeviceProfile(d) ==
    \E readable \in BOOLEAN :
        profile' = [profile EXCEPT ![d] = IF readable THEN Known(d) ELSE Unknown]

VdsAddDevice(d) ==
    /\ loaded /\ pnp[d] = "absent" /\ Input
    /\ VdsReadPhysicalDeviceProfile(d)
    /\ Goto(d, "add_list")
    /\ UNCHANGED <<loaded, changed, devList, linked, generation, irp>>

(* START_DEVICE, once the lower driver has started: the profile is cleared *)
(* and read again without the list lock.                                   *)
StartClears(d) ==
    /\ pnp[d] = "attached" /\ Input
    /\ profile' = [profile EXCEPT ![d] = Unknown]
    /\ Goto(d, "start_read")
    /\ UNCHANGED <<loaded, changed, devList, linked, generation, irp>>

StartReads(d) ==
    /\ pnp[d] = "start_read"
    /\ VdsReadPhysicalDeviceProfile(d)
    /\ Goto(d, "start_list")
    /\ UNCHANGED <<ops, loaded, changed, devList, linked, generation,
                   irp>>

ShouldList(d) == profile[d].target \/ profile[d].addr # NoAddress

VdsUpdateDeviceListMembership(d) ==
    /\ pnp[d] \in {"add_list", "start_list"}
    /\ LET change == ShouldList(d) # Listed(d) IN
       /\ devList' \in IF ~change THEN {devList}
                       ELSE IF ShouldList(d) THEN {Append(devList, d)}
                       ELSE Unlisted(devList, d)
       /\ changed' = [changed EXCEPT ![d] = change]
       /\ Goto(d, IF pnp[d] = "start_list" THEN "start_link"
                  ELSE IF change THEN "add_bump" ELSE "add_link")
    /\ UNCHANGED <<ops, loaded, profile, linked, generation, irp>>

VdsUpdateSymbolicLink(d) ==
    /\ pnp[d] \in {"add_link", "start_link"}
    /\ linked' = [linked EXCEPT ![d] =
                      @ \/ (profile[d].target /\ profile[d].addr # NoAddress)]
    /\ Goto(d, IF pnp[d] = "start_link" /\ (changed[d] \/ Listed(d))
               THEN "start_bump" ELSE "attached")
    /\ UNCHANGED <<ops, loaded, profile, changed, devList, generation, irp>>

(* VdsNotifyDeviceListChanged: two sections of the wait lock.              *)
NextGeneration == generation + 1

Bump(d) ==
    /\ pnp[d] \in {"add_bump", "start_bump", "remove_bump"}
    /\ generation' = NextGeneration
    /\ Goto(d, CASE pnp[d] = "add_bump" -> "add_drain"
                 [] pnp[d] = "start_bump" -> "start_drain"
                 [] OTHER -> "remove_drain")
    /\ UNCHANGED <<ops, loaded, profile, changed, devList, linked, irp>>

Drain(d) ==
    /\ pnp[d] \in {"add_drain", "start_drain", "remove_drain"}
    /\ VdsCompleteDeviceWaitQueue("done")
    /\ Goto(d, CASE pnp[d] = "add_drain" -> "add_link"
                 [] pnp[d] = "start_drain" -> "attached"
                 [] OTHER -> "remove_link")
    /\ UNCHANGED <<ops, loaded, profile, changed, devList, linked,
                   generation>>

RemoveUnlists(d) ==
    /\ pnp[d] = "attached" /\ Input
    /\ devList' \in Unlisted(devList, d)
    /\ Goto(d, IF Listed(d) THEN "remove_bump" ELSE "remove_link")
    /\ UNCHANGED <<loaded, profile, changed, linked, generation, irp>>

VdsDeleteSymbolicLink(d) ==
    /\ pnp[d] = "remove_link"
    /\ linked' = [linked EXCEPT ![d] = FALSE]
    /\ profile' = [profile EXCEPT ![d] = Unknown]
    /\ changed' = [changed EXCEPT ![d] = FALSE]
    /\ Goto(d, "absent")
    /\ UNCHANGED <<ops, loaded, devList, generation, irp>>

PnpStep(d) ==
    \/ VdsAddDevice(d) \/ StartClears(d) \/ StartReads(d)
    \/ VdsUpdateDeviceListMembership(d) \/ VdsUpdateSymbolicLink(d)
    \/ Bump(d) \/ Drain(d) \/ RemoveUnlists(d) \/ VdsDeleteSymbolicLink(d)

-----------------------------------------------------------------------------
(* Requests of the daemon.  GET_DEVICES copies the list, report targets    *)
(* first, one entry per address, at most MaxDevices entries.               *)
Entries == [i \in DOMAIN devList |-> profile[devList[i]]]

VdsAppendDeviceListEntry(out, e) ==
    IF \/ Len(out) >= MaxDevices
       \/ e.addr # NoAddress /\ \E i \in DOMAIN out : out[i].addr = e.addr
    THEN out ELSE Append(out, e)

GetDevices(list) ==
    FoldLeft(VdsAppendDeviceListEntry,
             FoldLeft(VdsAppendDeviceListEntry, <<>>,
                      SelectSeq(list, LAMBDA e : e.target)),
             SelectSeq(list, LAMBDA e : ~e.target))

(* What find_connected_bluetooth_device accepts: the first entry of the    *)
(* address must be a report target.                                        *)
Connected(entries) ==
    {a \in Addresses : \E i \in DOMAIN entries :
        /\ entries[i].addr = a /\ entries[i].target
        /\ \A j \in 1..(i - 1) : entries[j].addr # a}

(* WAIT_DEVICE_CHANGE: compare, then insert under the wait lock.           *)
StillCurrent(gen) == gen = generation

(* Mutant: the insertion does not look at the generation again.            *)
WaitInsertBlind(gen) == irp' = "queued"
VdsWaitQueueInsertIrpEx(gen) ==
    irp' = IF gen # generation THEN "done" ELSE "queued"

(* Cancelling takes the request off the queue; a completed one is reaped.  *)
CancelWait == irp' = "none"
=============================================================================
