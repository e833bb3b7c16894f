------------------------------ MODULE VdsPort ------------------------------
(***************************************************************************)
(* The port of the virtual host controller (module/vds_hcd_core.c): the    *)
(* character device the daemon opens, the root hub port the host polls,    *)
(* the state of the USB device (module/vds_usb_core.c), the status flags   *)
(* and the microphone queue (AudioIn).                                     *)
(*                                                                         *)
(* The processes that open the device, the hub driver of the host and a    *)
(* driver that configures the device meet at dev->lock.  None holds it for *)
(* a whole call: vds_set_connection drops it before it resets the USB      *)
(* device and before the root hub is polled, vds_release before it         *)
(* disconnects, a control request between the device's state and each      *)
(* status flag.  An action is one critical section.                        *)
(*                                                                         *)
(* The hub driver is that of the Linux USB core, modelled from the hub     *)
(* requests vds_hub_control serves.                                        *)
(***************************************************************************)
EXTENDS AudioIn, FiniteSets

CONSTANTS
    Openers,         \* processes that open /dev/vdsN, one file each
    Profiles,        \* VDS_PROFILE_DS5, VDS_PROFILE_DSE
    NoProfile,       \* the host has no device on the port
    Scenarios        \* bounds of one behaviour: connections, control requests,
                     \* the profiles used, and whether the daemon sends audio

ASSUME PortConstants ==
    /\ NoProfile \notin Profiles
    /\ Scenarios \subseteq [conns : Nat, reqs : Nat, mic : BOOLEAN,
                            profiles : SUBSET Profiles]

VARIABLES
    (* struct vds_hcd_dev.                                                 *)
    stopping, opened,
    flags,      \* status_flags
    connection, enable, cConnection, cReset,   \* bits of port_status
    (* struct vds_usb_device.                                              *)
    profile, configuration,
    alt,        \* audio_out_altsetting
    (* The openers: where each is, and who is in vds_release.              *)
    pc, closing,
    (* The host: its hub driver, and the one control request in progress.  *)
    hub,        \* where the hub driver is
    notified,   \* hub_status_data has reported a change it has not taken up
    view,       \* the connection and the profile the host knows
    request,
    (* Bounds and history.                                                 *)
    conns,      \* connections so far; the number of one is its name
    reqs,
    wants,      \* openers whose CONNECT no DISCONNECT or close has followed
    asked,      \* the configuration the host has set, and in which connection
    overlap,    \* the last open came while another file was in vds_release
    scenario

devVars == <<stopping, opened, flags>>
portVars == <<connection, enable, cConnection, cReset>>
usbVars == <<profile, configuration, alt>>
openerVars == <<pc, closing, wants>>
hubVars == <<hub, notified, view>>
requestVars == <<request, reqs, asked>>
pastVars == <<overlap, scenario>>
vars == <<devVars, portVars, usbVars, openerVars, hubVars, requestVars, conns,
          pastVars, audioVars>>

(* CONFIGURED stands for HID_ENABLED too: they change together.            *)
Flags == {"CONNECTED", "CONFIGURED", "AUDIO_ENABLED"}

Calls == {"connect", "disconnect", "profile"}
OpenerPcs == {"closed", "idle", "release", "reset", "poll"} \union Calls
HubPcs == {"idle", "status", "clear", "debounce", "reset", "wait", "clearReset",
           "clearStale", "enumerate"}
RequestPcs == {"none", "configured", "noAudio", "audio"}

(* The connection the port is in, 0 for none.                              *)
Plugged == IF connection THEN conns ELSE 0

Init ==
    /\ stopping = FALSE /\ opened = FALSE /\ flags = {}
    /\ connection = FALSE /\ enable = FALSE
    /\ cConnection = FALSE /\ cReset = FALSE
    /\ scenario \in Scenarios /\ overlap = FALSE
    /\ profile \in scenario.profiles /\ configuration = 0 /\ alt = 0
    /\ pc = [o \in Openers |-> "closed"] /\ closing = {} /\ wants = {}
    /\ hub = "idle" /\ notified = FALSE
    /\ view = [conn |-> 0, profile |-> NoProfile]
    /\ request = [at |-> "none", on |-> FALSE] /\ reqs = 0
    /\ asked = [conn |-> 0, value |-> 0]
    /\ conns = 0
    /\ AudioInit

-----------------------------------------------------------------------------
(* The character device.                                                   *)

(* Mutant: vds_open does not look at opened.                               *)
OpenShared(o) ==
    /\ Free /\ pc[o] = "closed" /\ ~stopping
    /\ opened' = TRUE
    /\ overlap' = (closing # {})
    /\ pc' = [pc EXCEPT ![o] = "idle"]
    /\ UNCHANGED <<stopping, flags, portVars, usbVars, closing, wants, hubVars,
                   requestVars, conns, scenario, audioVars>>

(* vds_open.  misc_deregister comes before vds_hcd_stop.                   *)
Open(o) ==
    /\ Free /\ pc[o] = "closed" /\ ~opened /\ ~stopping
    /\ opened' = TRUE
    /\ overlap' = (closing # {})
    /\ pc' = [pc EXCEPT ![o] = "idle"]
    /\ UNCHANGED <<stopping, flags, portVars, usbVars, closing, wants, hubVars,
                   requestVars, conns, scenario, audioVars>>

(* vds_ioctl: refused when stopping, otherwise on to the command.          *)
Ioctl(o, c) ==
    /\ Free /\ pc[o] = "idle" /\ ~stopping
    /\ c = "connect" => conns < scenario.conns
    /\ pc' = [pc EXCEPT ![o] = c]
    /\ UNCHANGED <<devVars, portVars, usbVars, closing, wants, hubVars,
                   requestVars, conns, pastVars, audioVars>>

(* The opener leaves vds_set_connection, and vds_release.                  *)
Return(o) ==
    /\ pc' = [pc EXCEPT ![o] = IF o \in closing THEN "closed" ELSE "idle"]
    /\ closing' = closing \ {o}

(* Mutant: the profile is changed under a connected device.                *)
SetProfileUnchecked(o, p) ==
    /\ Free /\ pc[o] = "profile" /\ p \in scenario.profiles
    /\ Return(o)
    /\ profile' = p /\ configuration' = 0 /\ alt' = 0
    /\ flags' = flags \ {"CONFIGURED", "AUDIO_ENABLED"}
    /\ UNCHANGED <<stopping, opened, portVars, wants, hubVars, requestVars,
                   conns, pastVars, audioVars>>

(* VDS_IOC_SET_PROFILE: EBUSY while connected, else a fresh USB device.    *)
SetProfile(o, p) ==
    /\ Free /\ pc[o] = "profile" /\ p \in scenario.profiles
    /\ Return(o)
    /\ IF "CONNECTED" \in flags
       THEN UNCHANGED <<usbVars, flags>>
       ELSE /\ profile' = p /\ configuration' = 0 /\ alt' = 0
            /\ flags' = flags \ {"CONFIGURED", "AUDIO_ENABLED"}
    /\ UNCHANGED <<stopping, opened, portVars, wants, hubVars, requestVars,
                   conns, pastVars, audioVars>>

(* vds_set_connection, under dev->lock: too late when stopping.            *)
ConnectionTooLate(o) ==
    /\ Free /\ pc[o] \in {"connect", "disconnect", "release"} /\ stopping
    /\ Return(o)
    /\ wants' = wants \ {o}
    /\ UNCHANGED <<devVars, portVars, usbVars, hubVars, requestVars, conns,
                   pastVars, audioVars>>

(* vds_set_connection(true), under dev->lock.                              *)
Connect(o) ==
    /\ Free /\ pc[o] = "connect" /\ ~stopping
    /\ connection' = TRUE
    /\ cConnection' = (cConnection \/ ~connection)
    /\ flags' = flags \union {"CONNECTED"}
    /\ conns' = IF connection THEN conns ELSE conns + 1
    /\ pc' = [pc EXCEPT ![o] = "poll"]
    /\ wants' = wants \union {o}
    /\ UNCHANGED <<stopping, opened, enable, cReset, usbVars, closing, hubVars,
                   requestVars, pastVars, audioVars>>

(* vds_set_connection(false), under dev->lock.  The URBs it cancels and    *)
(* the frames it flushes are in VdsHcd.                                    *)
Disconnect(o) ==
    /\ Free /\ pc[o] \in {"disconnect", "release"} /\ ~stopping
    /\ connection' = FALSE /\ enable' = FALSE
    /\ cConnection' = (cConnection \/ connection)
    /\ flags' = {}
    /\ FlushAudio
    /\ pc' = [pc EXCEPT ![o] = "reset"]
    /\ wants' = wants \ {o}
    /\ UNCHANGED <<stopping, opened, cReset, usbVars, closing, hubVars,
                   requestVars, conns, pastVars>>

(* Mutant: the audio alternate setting survives a disconnect.              *)
ResetStateKeepsAlt(o) ==
    /\ pc[o] = "reset"
    /\ configuration' = 0
    /\ pc' = [pc EXCEPT ![o] = "poll"]
    /\ UNCHANGED <<devVars, portVars, profile, alt, closing, wants, hubVars,
                   requestVars, conns, pastVars, audioVars>>

(* vds_usb_device_reset_state, under usb.lock.                             *)
ResetState(o) ==
    /\ pc[o] = "reset"
    /\ configuration' = 0 /\ alt' = 0
    /\ pc' = [pc EXCEPT ![o] = "poll"]
    /\ UNCHANGED <<devVars, portVars, profile, closing, wants, hubVars,
                   requestVars, conns, pastVars, audioVars>>

(* vds_hub_status_data, as usb_hcd_poll_rh_status uses it.                 *)
StatusData(changed) == notified' = (notified \/ changed)

(* Mutant: the root hub is not polled.                                     *)
PollRootHubSkipped(o) ==
    /\ Free /\ pc[o] = "poll"
    /\ Return(o)
    /\ UNCHANGED <<devVars, portVars, usbVars, wants, hubVars, requestVars,
                   conns, pastVars, audioVars>>

(* The end of vds_set_connection: the root hub is polled.                  *)
PollRootHub(o) ==
    /\ Free /\ pc[o] = "poll"
    /\ StatusData(cConnection \/ cReset)
    /\ Return(o)
    /\ UNCHANGED <<devVars, portVars, usbVars, wants, hub, view, requestVars,
                   conns, pastVars, audioVars>>

(* vds_release, also when the process dies.                                *)
Release(o) ==
    /\ Free /\ pc[o] = "idle"
    /\ opened' = FALSE
    /\ wants' = wants \ {o}
    /\ IF "CONNECTED" \in flags
       THEN /\ pc' = [pc EXCEPT ![o] = "release"]
            /\ closing' = closing \union {o}
       ELSE /\ pc' = [pc EXCEPT ![o] = "closed"]
            /\ UNCHANGED closing
    /\ UNCHANGED <<stopping, flags, portVars, usbVars, hubVars, requestVars,
                   conns, pastVars, audioVars>>

(* vds_write of a PCM frame.                                               *)
WriteFrame(o) ==
    /\ pc[o] = "idle" /\ ~stopping /\ scenario.mic
    /\ \E n \in FrameSizes : WriteBegin(n)
    /\ UNCHANGED <<devVars, portVars, usbVars, openerVars, hubVars,
                   requestVars, conns, pastVars>>

(* vds_iso_in_urb, for an ISO IN URB that is due.                          *)
FillUrb ==
    /\ scenario.mic
    /\ \E n \in UrbSizes : FillBegin(n)
    /\ UNCHANGED <<devVars, portVars, usbVars, openerVars, hubVars,
                   requestVars, conns, pastVars>>

(* The loops under dev->lock.                                              *)
LoopStep ==
    /\ WriteDrop \/ WriteAppend \/ FillStep \/ FillEnd
    /\ UNCHANGED <<devVars, portVars, usbVars, openerVars, hubVars,
                   requestVars, conns, pastVars>>

(* vds_hcd_stop.                                                           *)
Stop ==
    /\ Free /\ ~stopping
    /\ stopping' = TRUE /\ flags' = {}
    /\ FlushAudio
    /\ UNCHANGED <<opened, portVars, usbVars, openerVars, hubVars, requestVars,
                   conns, pastVars>>

-----------------------------------------------------------------------------
(* The root hub: vds_hub_control, with the poll at its end.  Left out are  *)
(* ClearPortFeature(ENABLE), which finds the bit clear when the host has   *)
(* no device on the port, and POWER and the changes nobody sets.           *)

(* The hub driver takes up a reported change.                              *)
HubEvent ==
    /\ hub = "idle" /\ notified
    /\ hub' = "status" /\ notified' = FALSE
    /\ UNCHANGED <<devVars, portVars, usbVars, openerVars, view, requestVars,
                   conns, pastVars, audioVars>>

(* GetPortStatus: what it says decides where the hub driver goes.          *)
GetPortStatus(at, next) ==
    /\ Free /\ hub = at /\ hub' = next
    /\ StatusData(cConnection \/ cReset)
    /\ UNCHANGED <<devVars, portVars, usbVars, openerVars, requestVars, conns,
                   pastVars, audioVars>>

PortStatus ==
    /\ GetPortStatus("status", IF cConnection THEN "clear"
                               ELSE IF cReset THEN "clearStale" ELSE "idle")
    /\ UNCHANGED view

(* ClearPortFeature(C_CONNECTION).                                         *)
ClearConnection ==
    /\ Free /\ hub = "clear"
    /\ cConnection' = FALSE
    /\ hub' = "debounce"
    /\ StatusData(cReset)
    /\ UNCHANGED <<devVars, connection, enable, cReset, usbVars, openerVars,
                   view, requestVars, conns, pastVars, audioVars>>

(* hub_port_debounce: a further change starts over; otherwise the status   *)
(* just read is what the host goes by.                                     *)
Debounce ==
    /\ GetPortStatus("debounce", IF cConnection THEN "clear"
                                 ELSE IF connection THEN "reset" ELSE "idle")
    /\ view' = IF cConnection THEN view
               ELSE [conn |-> Plugged, profile |-> NoProfile]

(* SetPortFeature(RESET).                                                  *)
PortReset ==
    /\ Free /\ hub = "reset"
    /\ enable' = (enable \/ connection)
    /\ cReset' = (cReset \/ connection)
    /\ hub' = "wait"
    /\ StatusData(cConnection \/ cReset \/ connection)
    /\ UNCHANGED <<devVars, connection, cConnection, usbVars, openerVars, view,
                   requestVars, conns, pastVars, audioVars>>

(* hub_port_wait_reset.                                                    *)
WaitReset ==
    /\ GetPortStatus("wait", IF enable THEN "clearReset" ELSE "idle")
    /\ UNCHANGED view

(* ClearPortFeature(C_RESET).                                              *)
ClearResetChange(at, next) ==
    /\ Free /\ hub = at /\ hub' = next
    /\ cReset' = FALSE
    /\ StatusData(cConnection)
    /\ UNCHANGED <<devVars, connection, enable, cConnection, usbVars, openerVars,
                   view, requestVars, conns, pastVars, audioVars>>

(* The reset has enabled the port, or is left over from a lost device.     *)
ClearReset == ClearResetChange("clearReset", "enumerate")
ClearStaleReset == ClearResetChange("clearStale", "idle")

(* GET_DESCRIPTOR: the host reads which controller it is.                  *)
Enumerate ==
    /\ hub = "enumerate"
    /\ hub' = "idle"
    /\ view' = [view EXCEPT !.profile = profile]
    /\ UNCHANGED <<devVars, portVars, usbVars, openerVars, notified,
                   requestVars, conns, pastVars, audioVars>>

-----------------------------------------------------------------------------
(* Control requests of the host: vds_usb_standard_control.                 *)

MayRequest ==
    /\ view.profile # NoProfile /\ request.at = "none" /\ ~stopping
    /\ reqs < scenario.reqs

(* SET_CONFIGURATION, under usb.lock.                                      *)
SetConfiguration(v) ==
    /\ MayRequest
    /\ configuration' = v /\ alt' = 0
    /\ request' = [at |-> "configured", on |-> v = 1]
    /\ reqs' = reqs + 1
    /\ asked' = [conn |-> Plugged, value |-> v]
    /\ UNCHANGED <<devVars, portVars, profile, openerVars, hubVars, conns,
                   pastVars, audioVars>>

(* SET_INTERFACE of the audio OUT interface, under usb.lock.               *)
SetInterface(v) ==
    /\ MayRequest
    /\ alt' = v
    /\ request' = [at |-> "audio", on |-> v = 1]
    /\ reqs' = reqs + 1
    /\ UNCHANGED <<devVars, portVars, profile, configuration, openerVars,
                   hubVars, conns, pastVars, asked, audioVars>>

(* vds_usb_set_status, under dev->lock, up to twice per request.           *)
SetStatus ==
    /\ Free /\ request.at # "none"
    /\ LET f == IF request.at = "configured" THEN "CONFIGURED" ELSE "AUDIO_ENABLED"
           on == request.at # "noAudio" /\ request.on
       IN  flags' = IF on THEN flags \union {f} ELSE flags \ {f}
    /\ request' = [request EXCEPT !.at = IF @ = "configured" THEN "noAudio" ELSE "none"]
    /\ UNCHANGED <<stopping, opened, portVars, usbVars, openerVars, hubVars,
                   reqs, asked, conns, pastVars, audioVars>>

-----------------------------------------------------------------------------
OpenerStep(o) ==
    \/ Open(o) \/ Release(o) \/ WriteFrame(o)
    \/ \E c \in Calls : Ioctl(o, c)
    \/ \E p \in Profiles : SetProfile(o, p)
    \/ ConnectionTooLate(o) \/ Connect(o) \/ Disconnect(o)
    \/ ResetState(o) \/ PollRootHub(o)

HubStep ==
    \/ HubEvent \/ PortStatus \/ ClearConnection \/ Debounce
    \/ PortReset \/ WaitReset \/ ClearReset \/ ClearStaleReset \/ Enumerate

RequestStep ==
    \/ \E v \in {0, 1} : SetConfiguration(v) \/ SetInterface(v)
    \/ SetStatus

Next ==
    \/ \E o \in Openers : OpenerStep(o)
    \/ HubStep \/ RequestStep \/ FillUrb \/ LoopStep \/ Stop

Spec == Init /\ [][Next]_vars

(* System calls run to their end and the hub driver is scheduled (strong   *)
(* fairness: dev->lock is a queued spinlock); nobody has to start a call.  *)
InCall(o) ==
    \/ \E p \in Profiles : SetProfile(o, p)
    \/ ConnectionTooLate(o) \/ Connect(o) \/ Disconnect(o)
    \/ ResetState(o) \/ PollRootHub(o)

Fairness ==
    /\ \A o \in Openers : SF_vars(InCall(o))
    /\ SF_vars(HubStep)
    /\ WF_vars(LoopStep)

FairSpec == Spec /\ Fairness

-----------------------------------------------------------------------------
PastTypeOK == overlap \in BOOLEAN /\ scenario \in Scenarios

TypeOK ==
    /\ stopping \in BOOLEAN /\ opened \in BOOLEAN /\ flags \subseteq Flags
    /\ connection \in BOOLEAN /\ enable \in BOOLEAN
    /\ cConnection \in BOOLEAN /\ cReset \in BOOLEAN
    /\ profile \in Profiles /\ configuration \in {0, 1} /\ alt \in {0, 1}
    /\ pc \in [Openers -> OpenerPcs]
    /\ closing \subseteq Openers /\ wants \subseteq Openers
    /\ hub \in HubPcs /\ notified \in BOOLEAN
    /\ view \in [conn : Nat, profile : Profiles \union {NoProfile}]
    /\ request \in [at : RequestPcs, on : BOOLEAN]
    /\ conns \in Nat /\ reqs \in Nat /\ asked \in [conn : Nat, value : {0, 1}]
    /\ PastTypeOK /\ AudioTypeOK

(* No hot-plug event is lost: as long as the host goes by a connection     *)
(* that is not the port's, the change is latched in port_status or the hub *)
(* driver is about to read it, and a latched change is known to the hub    *)
(* driver or about to be polled.                                           *)
PollPending == \E o \in Openers : pc[o] \in {"reset", "poll"}

ChangeReachesHub ==
    /\ view.conn # Plugged => cConnection \/ hub = "debounce"
    /\ cConnection => notified \/ PollPending \/ hub \in {"status", "clear", "debounce"}

(* The host never works with another profile than the port's: a profile    *)
(* that was changed while the port was unplugged is read again.            *)
HostKnowsProfile ==
    view.conn = Plugged /\ view.profile # NoProfile /\ ~stopping
        => view.profile = profile

(* What the host knows of the port, by its hub driver and its enumeration, *)
(* is what the port is, or is about to be corrected.                       *)
HostInformed == ChangeReachesHub /\ HostKnowsProfile

(* An opener that has plugged the device in still has it plugged in when   *)
(* it did not unplug it itself: no earlier opener's close undoes it.       *)
OpenerKeepsPort ==
    \A o \in wants :
        pc[o] = "idle" /\ ~stopping => connection /\ "CONNECTED" \in flags

(* The device stays configured as the host has configured it in this       *)
(* connection: no reset of an earlier one comes late.                      *)
ConfigurationKept ==
    asked.conn = Plugged /\ connection /\ ~stopping => configuration = asked.value

(* What an opener has plugged in, and the host configured, outlives the    *)
(* close of the file that held the port before, if that close was over     *)
(* when the opener came.  vds_release clears opened and drops dev->lock    *)
(* before it disconnects: a process that opens in between can lose its     *)
(* connection, or its configuration, to the close that is still under way, *)
(* and is excepted.  One that opens later is safe whatever went before.    *)
DeviceKept == ~overlap => OpenerKeepsPort /\ ConfigurationKept

(* When no request or disconnect is under way, GET_STATUS reports at least *)
(* what the device does: a configured device as CONFIGURED, an open audio  *)
(* stream as AUDIO_ENABLED.                                                *)
StatusCoversDevice ==
    (request.at = "none" /\ ~stopping /\ \A o \in Openers : pc[o] # "reset")
        => /\ configuration = 1 => "CONFIGURED" \in flags
           /\ alt = 1 => "AUDIO_ENABLED" \in flags

(* Once the openers leave the port alone the host has enumerated the       *)
(* device that is plugged in, or none.                                     *)
HubCatchesUp ==
    []<>(view.conn = Plugged /\ (connection => view.profile # NoProfile))

-----------------------------------------------------------------------------
(* Strengthenings, for the proofs.                                         *)

(* Connections are numbered upwards, and the host knows no later one.      *)
ConnectionsNumbered ==
    /\ connection => conns > 0
    /\ view.conn <= conns /\ asked.conn <= conns

(* The hub driver resets and enumerates only a device it has seen.         *)
HubHasDevice ==
    /\ view.conn = 0 => view.profile = NoProfile
    /\ hub \in {"reset", "wait", "clearReset", "enumerate"} => view.conn # 0

(* Until the stop, the status flag and the port bit of a connection agree. *)
FlagIsBit == ~stopping => (connection <=> "CONNECTED" \in flags)

(* A request knows what it has set; the device's state is covered by the   *)
(* flags, by the request that is about to set them, or about to be reset.  *)
RequestKnows ==
    /\ request.at = "configured" /\ ~request.on => configuration = 0
    /\ request.at \in {"configured", "noAudio"} => alt = 0
    /\ request.at = "audio" /\ ~request.on => alt = 0

ResetPending == \E o \in Openers : pc[o] = "reset"

StateCovered ==
    /\ configuration = 1 =>
         \/ "CONFIGURED" \in flags \/ stopping \/ ResetPending
         \/ request.at = "configured" /\ request.on
    /\ alt = 1 =>
         \/ "AUDIO_ENABLED" \in flags \/ stopping \/ ResetPending
         \/ request.at = "audio" /\ request.on

PortInv ==
    /\ TypeOK /\ ConnectionsNumbered /\ HubHasDevice /\ FlagIsBit
    /\ RequestKnows /\ StateCovered
    /\ ChangeReachesHub /\ HostKnowsProfile

(* One file is open at a time and the others that are in the driver are    *)
(* being released; what is plugged in is held, or about to be unplugged.   *)
FilesHeld ==
    /\ \A o, p \in Openers :
         (pc[o] # "closed" /\ o \notin closing
            /\ pc[p] # "closed" /\ p \notin closing) => o = p
    /\ \A o \in Openers :
         /\ pc[o] # "closed" => opened \/ o \in closing
         /\ o \in closing => pc[o] \in {"release", "reset", "poll"} /\ o \notin wants
         /\ o \in wants => pc[o] # "closed"
    /\ connection /\ ~stopping =>
         opened \/ \E o \in Openers : pc[o] = "release"

(* Without overlap: one opener at a time is anywhere in the driver, its    *)
(* connection stands until it takes it down, and a device that is about    *)
(* to be reset is unplugged.                                               *)
OneOpener ==
    \A o, p \in Openers : pc[o] # "closed" /\ pc[p] # "closed" => o = p

WantedIsPlugged == wants # {} /\ ~stopping => connection

ResetIsUnplugged == ResetPending /\ ~stopping => ~connection

HandedOver == OneOpener /\ WantedIsPlugged /\ ResetIsUnplugged /\ ConfigurationKept

HandOverInv == FilesHeld /\ (~overlap => HandedOver)
=============================================================================
