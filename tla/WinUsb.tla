------------------------------- MODULE WinUsb -------------------------------
(***************************************************************************)
(* One port of the Windows virtual USB driver (windrv/vds_usb/vds_usb.c)   *)
(* and the daemon's reader of it (platform/win32/vds_io.cc).               *)
(*                                                                         *)
(* Threads: the handler of the control device's sequential queue (bind,    *)
(* unbind, read, write), one handler or timer callback per URB in flight,  *)
(* the endpoints-configure callback, and the cleanup of a closed handle.   *)
(* Each step is one section under a spin lock, or one call of WDF/UdeCx.   *)
(* Frames for the daemon go through a byte ring; a unit of the ring stands *)
(* for a frame header or for a slice of a payload.                         *)
(***************************************************************************)
EXTENDS Integers, Sequences, FiniteSets

CONSTANTS
  Files,      \* handles of the control device that can bind the port
  Profiles,   \* the profiles a bind can ask for
  Urbs,       \* the URBs the host submits
  RingSize,   \* VDS_CONTROL_RING_SIZE, in units
  AudioSize,  \* VDS_AUDIO_IN_RING_SIZE, in units
  MaxOps,     \* bound on the binds, unbinds, closes, stops, writes, URBs and configures
  None

ASSUME UsbAssumption ==
  /\ RingSize \in Nat \ {0} /\ AudioSize \in Nat \ {0}
  /\ MaxOps \in Nat
  /\ None \notin Files \union Profiles
  /\ Urbs \intersect {"ctl", "cfg"} = {}

VARIABLES
  port,     \* bound, bound_file and profile of VDS_PORT_STATE
  child,    \* usb_device, usb_profile(_valid) and usb_device_plugged
  handles,  \* state of each file: "open", "cleanup" (unbound, audio not reset), "closed"
  ctl,      \* the request the control queue is handling
  alt,      \* interface_altsetting
  released, \* endpoints whose queue_released is set
  configured, \* endpoints the host has configured and may submit to (UdeCx)
  urb,      \* the URBs
  cfg,      \* the endpoints-configure callback in progress
  pc,       \* where each thread is in VdsQueueFrame / VdsCompleteControlReadRequests
  ring,     \* the control ring: cells, head, size
  sent,     \* how many units the ring has accepted
  told,     \* the last setting of each interface an accepted frame reported
  handed,   \* how often a frame of each URB was accepted
  rd,       \* the daemon's reader and its read request
  audio,    \* the microphone ring
  mic,      \* how many microphone units were ever stored
  cached,   \* feature_cache_valid
  session,  \* number of the last bind
  left      \* operations left to the host and the daemon

vars == <<port, child, handles, ctl, alt, released, configured, urb, cfg, pc, ring,
          sent, told, handed, rd, audio, mic, cached,
          session, left>>

portVars  == <<port, child, handles, session>>
ringVars  == <<ring, sent, handed>>
dataVars  == <<audio, mic, cached>>
epVars    == <<alt, released, configured>>

Iso       == {"audio_out", "audio_in"}
Endpoints == Iso \union {"ep0", "hid_in", "hid_out"}

(* The requests a URB can carry: the classes VdsEvtControlUrb tells apart  *)
(* by what they change, and, for the other endpoints, whether the URB is   *)
(* the transfer the endpoint serves or is answered at once.                *)
Requests(ep) ==
  IF ep = "ep0" THEN {"get_feature", "set_feature", "set_output", "set_interface", "other"}
  ELSE {"transfer", "other"}

Threads == Urbs \union {"ctl", "cfg"}

Idle == [at |-> "none"]

Lost == 2 \* no frame told the daemon the setting of this interface

(***************************************************************************)
(* The two byte rings.                                                     *)
(***************************************************************************)
Least(a, b) == IF a < b THEN a ELSE b

Empty == [no |-> 0]

\* Mutant: the copy is not split at the end of the buffer.
WriteWithoutSplit(r, size, units) ==
  LET tail == (r.head + r.size) % size
  IN  [r EXCEPT !.cells = [i \in DOMAIN @ |-> IF i \in tail..tail + Len(units) - 1
                                              THEN units[i - tail + 1] ELSE @[i]],
                !.size = @ + Len(units)]

\* A write of the given units behind the newest one, in two copies at the wrap.
VdsControlRingWriteLocked(r, size, units) ==
  LET tail  == (r.head + r.size) % size
      at(i) == ((i - tail) % size) + 1
  IN  [r EXCEPT !.cells = [i \in DOMAIN @ |-> IF at(i) <= Len(units) THEN units[at(i)] ELSE @[i]],
                !.size = @ + Len(units)]

\* A read of at most n units: the ring left behind (a cell that was read counts
\* as empty) and, below, the units returned.
VdsControlRingReadLocked(r, size, n) ==
  LET count == Least(n, r.size)
  IN  [cells |-> [i \in DOMAIN r.cells |->
                    IF (i - r.head) % size < count THEN Empty ELSE r.cells[i]],
       head |-> (r.head + count) % size,
       size |-> r.size - count]

ReadUnits(r, size, n) ==
  [i \in 1..Least(n, r.size) |-> r.cells[(r.head + i - 1) % size]]

VdsResetAudioInPcm(r) == [cells |-> [i \in DOMAIN r.cells |-> Empty], head |-> 0, size |-> 0]

\* The microphone ring makes room by dropping the oldest units.
VdsAudioInRingWriteLocked(r, size, units) ==
  LET n     == Len(units)
      kept  == SubSeq(units, n - Least(n, size) + 1, n)
      start == IF n >= size THEN VdsResetAudioInPcm(r) ELSE r
      room  == size - start.size
      drop  == IF Len(kept) > room THEN Len(kept) - room ELSE 0
  IN  VdsControlRingWriteLocked(VdsControlRingReadLocked(start, size, drop), size, kept)

\* What an isochronous IN packet takes; the rest of the packet is zeros.
VdsCopyAudioInPcm(r, size) == VdsControlRingReadLocked(r, size, 1)

EmptyRing(size) == [cells |-> [i \in 0..size - 1 |-> Empty], head |-> 0, size |-> 0]

(***************************************************************************)
(* The initial state: VdsEvtDeviceAdd has run, no handle has bound the port.*)
(***************************************************************************)
NoChild == [dev |-> FALSE, valid |-> FALSE, profile |-> None, plugged |-> FALSE]

\* A URB the driver and UdeCx do not have.
Gone(st, n) == [st |-> st, ep |-> "ep0", req |-> "other", pub |-> FALSE, old |-> FALSE, done |-> n]

Init ==
  /\ port = [bound |-> FALSE, file |-> None, profile |-> None]
  /\ child = NoChild
  /\ handles = [f \in Files |-> "open"]
  /\ ctl = Idle
  /\ alt = [i \in Iso |-> 0]
  /\ released = {}
  /\ configured = {}
  /\ urb = [u \in Urbs |-> Gone("free", 0)]
  /\ cfg = Idle
  /\ pc = [t \in Threads |-> Idle]
  /\ ring = EmptyRing(RingSize)
  /\ sent = 0
  /\ told = [i \in Iso |-> 0]
  /\ handed = [u \in Urbs |-> 0]
  /\ rd = [st |-> "off", want |-> 0, part |-> "header"]
  /\ audio = EmptyRing(AudioSize)
  /\ mic = 0
  /\ cached = FALSE
  /\ session = 0
  /\ left = MaxOps

(***************************************************************************)
(* VdsQueueFrame and VdsCompleteControlReadRequests.  A thread that has a  *)
(* frame to queue is at "frame"; when the ring has no room the whole frame *)
(* is dropped and the call returns.                                        *)
(***************************************************************************)
Frame(n, i) == [at |-> "frame", payload |-> n, iface |-> i]

\* The units of a frame with n units of payload.
FrameUnits(n) ==
  [k \in 1..n + 1 |-> [no |-> sent + k, part |-> IF k = 1 THEN "header" ELSE "payload", rest |-> n]]

VdsQueueFrame(t) ==
  /\ pc[t].at = "frame"
  /\ LET n    == 1 + pc[t].payload
         room == n <= RingSize - ring.size
     IN  /\ pc' = [pc EXCEPT ![t] = IF room THEN [at |-> "check"] ELSE Idle]
         /\ told' = IF pc[t].iface = <<>> THEN told
                    ELSE [told EXCEPT ![pc[t].iface[1]] = IF room THEN pc[t].iface[2] ELSE Lost]
         /\ IF room
            THEN /\ ring' = VdsControlRingWriteLocked(ring, RingSize, FrameUnits(pc[t].payload))
                 /\ sent' = sent + n
                 /\ handed' = IF t \in Urbs THEN [handed EXCEPT ![t] = @ + 1] ELSE handed
            ELSE UNCHANGED ringVars
  /\ UNCHANGED <<portVars, epVars, ctl, urb, cfg, rd, dataVars, left>>

\* The first lock section of the loop: only the fill of the ring is looked at.
CheckRing(t) ==
  /\ pc[t].at = "check"
  /\ pc' = [pc EXCEPT ![t] = IF ring.size = 0 THEN Idle ELSE [at |-> "take"]]
  /\ UNCHANGED <<portVars, epVars, ctl, urb, cfg, ringVars, told, rd, dataVars, left>>

\* What read_handle_frame asks for after a read that returned `units`: the
\* rest of this part, the payload a header announces, or the next header.  A
\* unit that is no header is taken for one and announces any length.
AfterRead(units) ==
  LET n == Len(units)
  IN  IF n = 0 THEN {[st |-> "off", want |-> 0, part |-> "header"]}
      ELSE IF n < rd.want THEN {[rd EXCEPT !.st = "ask", !.want = @ - n]}
      ELSE IF rd.part = "payload" THEN {[st |-> "ask", want |-> 1, part |-> "header"]}
      ELSE LET u == units[n]
           IN  IF u.part = "header" THEN {[st |-> "ask", want |-> u.rest, part |-> "payload"]}
               ELSE {[st |-> "off", want |-> 0, part |-> "header"]}
                      \union [st : {"ask"}, want : 1..2, part : {"payload"}]

\* A parked read request is retrieved, filled from what the ring holds by
\* then, and completed; without one the loop ends.
TakeRead(t) ==
  /\ pc[t].at = "take"
  /\ IF rd.st = "parked"
     THEN /\ rd' \in AfterRead(ReadUnits(ring, RingSize, rd.want))
          /\ ring' = VdsControlRingReadLocked(ring, RingSize, rd.want)
          /\ pc' = [pc EXCEPT ![t] = [at |-> "check"]]
     ELSE /\ pc' = [pc EXCEPT ![t] = Idle]
          /\ UNCHANGED <<ring, rd>>
  /\ UNCHANGED <<portVars, epVars, ctl, urb, cfg, sent, handed, told, dataVars, left>>

QueueFrameSteps == \E t \in Threads : VdsQueueFrame(t) \/ CheckRing(t) \/ TakeRead(t)

(***************************************************************************)
(* The control device's queue: one request at a time.                      *)
(***************************************************************************)
CtlFree == ctl = Idle /\ pc["ctl"] = Idle

OthersOfCtl == <<epVars, urb, cfg, pc, ringVars, told>>

\* A new session takes every interface for off and has been told of none: one
\* that a kept child still has on is lost to it until it changes.
ToldNothing == [i \in Iso |-> IF alt[i] = 0 THEN 0 ELSE Lost]

\* VdsBindPort up to its unlock: a port bound through another handle is busy.
BindLock(f, p) ==
  /\ CtlFree /\ handles[f] = "open" /\ left > 0
  /\ left' = left - 1
  /\ IF port.bound /\ port.file # f
     THEN UNCHANGED <<port, session, ctl, told>>
     ELSE /\ port' = [bound |-> TRUE, file |-> f, profile |-> p]
          /\ session' = session + 1
          /\ ctl' = [at |-> "plug", file |-> f]
          /\ told' = ToldNothing
  /\ UNCHANGED <<child, handles, rd, dataVars, epVars, urb, cfg, pc, ringVars>>

\* VdsDeleteUsbChildDevice: UdeCx unplugs and deletes the child, or fails.
\* The queues of its endpoints are left with the URBs the driver still holds.
DeleteChild(ok) ==
  IF child.dev /\ ok THEN NoChild ELSE child

\* Mutant: any child that exists is kept.
CreateKeepsAnyChild ==
  IF child.dev THEN {[ok |-> TRUE, child |-> child]}
  ELSE {[ok |-> TRUE, child |-> [dev |-> TRUE, valid |-> TRUE, profile |-> port.profile, plugged |-> FALSE]]}

\* VdsCreateUsbChildDevice: the child is kept when it has the profile asked
\* for, else deleted and created; a failure leaves no child, or one without
\* a valid profile.
VdsCreateUsbChildDevice ==
  LET want  == port.profile
      fresh == [dev |-> TRUE, valid |-> TRUE, profile |-> want, plugged |-> FALSE]
  IN  IF child.dev /\ child.valid /\ child.profile = want
      THEN {[ok |-> TRUE, child |-> child]}
      ELSE (IF child.dev THEN {[ok |-> FALSE, child |-> child]} ELSE {})
           \union {[ok |-> TRUE, child |-> fresh],
                   [ok |-> FALSE, child |-> NoChild],
                   [ok |-> FALSE, child |-> [fresh EXCEPT !.valid = FALSE, !.profile = None]]}

\* VdsPlugUsbChildDevice: UdecxUsbDevicePlugIn of a child not yet plugged.
VdsPlugUsbChildDevice ==
  UNION {IF ~c.ok \/ c.child.plugged THEN {c}
         ELSE {[c EXCEPT !.child.plugged = TRUE], [c EXCEPT !.ok = FALSE]} :
           c \in VdsCreateUsbChildDevice}

SameChild(c) == c = [child EXCEPT !.plugged = c.plugged] /\ c.dev

\* The queues and a configure callback of a deleted child are nobody's any more;
\* a new child has new endpoints with new queues.
ChildReplaced ==
  /\ urb' = [u \in Urbs |-> [urb[u] EXCEPT !.old = urb[u].st \notin {"free", "done", "cancelled"}]]
  /\ released' = {}
  /\ cfg' = IF cfg = Idle THEN cfg ELSE [cfg EXCEPT !.gone = TRUE]

\* Mutant: the microphone ring is left as the last session left it.
BindKeepsAudio ==
  /\ ctl.at = "plug"
  /\ \E r \in VdsPlugUsbChildDevice :
       /\ r.ok /\ child' = r.child
       /\ IF SameChild(r.child) THEN UNCHANGED <<urb, released, cfg>> ELSE ChildReplaced
  /\ ctl' = Idle
  /\ configured' = Endpoints \ Iso
  /\ rd' = [st |-> "ask", want |-> 1, part |-> "header"]
  /\ UNCHANGED <<port, handles, session, alt, pc, ringVars, told, dataVars, left>>

\* The rest of VdsBindPort: microphone reset, plug, and on failure the unbind.
BindPlug ==
  /\ ctl.at = "plug"
  /\ audio' = VdsResetAudioInPcm(audio)
  /\ \E r \in VdsPlugUsbChildDevice :
       /\ child' = r.child
       /\ ctl' = IF r.ok THEN Idle ELSE [ctl EXCEPT !.at = "undo"]
       /\ rd' = IF r.ok THEN [st |-> "ask", want |-> 1, part |-> "header"] ELSE rd
       /\ IF SameChild(r.child)
          THEN /\ configured' = IF r.child.plugged /\ ~child.plugged
                                THEN Endpoints \ Iso ELSE configured
               /\ UNCHANGED <<urb, released, cfg>>
          ELSE /\ ChildReplaced
               /\ configured' = IF r.child.plugged THEN Endpoints \ Iso ELSE {}
  /\ UNCHANGED <<port, handles, session, alt, pc, ringVars, told, mic, cached, left>>

BindUndo ==
  /\ ctl.at = "undo"
  /\ port' = IF port.file = ctl.file THEN [port EXCEPT !.bound = FALSE, !.file = None] ELSE port
  /\ ctl' = Idle
  /\ UNCHANGED <<child, handles, session, rd, dataVars, left, OthersOfCtl>>

\* VdsUnbindPort up to its unlock; a port bound through another handle is left alone.
UnbindLock(f) ==
  /\ CtlFree /\ handles[f] = "open" /\ left > 0
  /\ left' = left - 1
  /\ IF port.bound /\ port.file # f
     THEN UNCHANGED <<port, ctl>>
     ELSE /\ port' = [port EXCEPT !.bound = FALSE, !.file = None]
          /\ ctl' = [at |-> "unplug", file |-> f]
  /\ UNCHANGED <<child, handles, session, rd, dataVars, OthersOfCtl>>

UnbindUnplug ==
  /\ ctl.at = "unplug"
  /\ audio' = VdsResetAudioInPcm(audio)
  /\ \E ok \in BOOLEAN : child' = DeleteChild(ok)
  /\ IF child' = child
     THEN UNCHANGED <<urb, released, cfg, configured>>
     ELSE /\ ChildReplaced
          /\ configured' = {}
  /\ ctl' = Idle
  /\ UNCHANGED <<port, handles, session, alt, pc, ringVars, told, rd, mic, cached, left>>

\* VdsEvtControlFileCleanup, outside the control queue: the lock section, then
\* the microphone reset.  The child stays plugged; closing a handle that has not
\* bound the port changes nothing.
Cleanup(f) ==
  /\ handles[f] = "open" /\ port.bound /\ port.file = f /\ left > 0
  /\ left' = left - 1
  /\ port' = [port EXCEPT !.bound = FALSE, !.file = None]
  /\ handles' = [handles EXCEPT ![f] = "cleanup"]
  /\ UNCHANGED <<child, session, ctl, rd, dataVars, OthersOfCtl>>

CleanupReset(f) ==
  /\ handles[f] = "cleanup"
  /\ handles' = [handles EXCEPT ![f] = "closed"]
  /\ audio' = VdsResetAudioInPcm(audio)
  /\ UNCHANGED <<port, child, session, ctl, rd, mic, cached, left, OthersOfCtl>>

\* Mutant: the read is parked and the ring is not looked at.
ParkOnly ==
  /\ CtlFree /\ rd.st = "ask" /\ port.bound
  /\ rd' = [rd EXCEPT !.st = "parked"]
  /\ UNCHANGED <<portVars, epVars, ctl, urb, cfg, pc, ringVars, told, dataVars, left>>

\* VdsEvtControlRead: refused on an unbound port, else parked and the reads served.
VdsEvtControlRead ==
  /\ CtlFree /\ rd.st = "ask"
  /\ IF port.bound
     THEN /\ rd' = [rd EXCEPT !.st = "parked"]
          /\ pc' = [pc EXCEPT !["ctl"] = [at |-> "check"]]
     ELSE /\ rd' = [rd EXCEPT !.st = "off"]
          /\ UNCHANGED pc
  /\ UNCHANGED <<portVars, epVars, ctl, urb, cfg, ringVars, told, dataVars, left>>

\* The daemon's session is told to stop and cancels its read (vds_io.cc).
CancelRead ==
  /\ rd.st \in {"ask", "parked"} /\ left > 0
  /\ left' = left - 1
  /\ rd' = [rd EXCEPT !.st = "off"]
  /\ UNCHANGED <<portVars, epVars, ctl, urb, cfg, pc, ringVars, told, dataVars>>

\* VdsEvtControlWrite: VdsPortReadyForIo, then, unlocked, the frame is stored.
\* (A write to an unbound port is refused and changes nothing.)
WriteCheck(type) ==
  /\ CtlFree /\ left > 0 /\ port.bound
  /\ left' = left - 1
  /\ ctl' = [at |-> "store", type |-> type, of |-> session]
  /\ UNCHANGED <<portVars, rd, dataVars, OthersOfCtl>>

WriteStore ==
  /\ ctl.at = "store"
  /\ ctl' = Idle
  /\ \/ /\ ctl.type = "feature_reply" /\ cached' = TRUE
        /\ UNCHANGED <<audio, mic>>
     \/ /\ ctl.type = "audio_in"
        /\ \E n \in 1..AudioSize + 1 :
             /\ audio' = VdsAudioInRingWriteLocked(audio, AudioSize,
                           [k \in 1..n |-> [no |-> mic + k, of |-> ctl.of]])
             /\ mic' = mic + n
        /\ UNCHANGED cached
  /\ UNCHANGED <<portVars, rd, left, OthersOfCtl>>

Control ==
  \/ \E f \in Files : \/ \E p \in Profiles : BindLock(f, p)
                      \/ UnbindLock(f) \/ Cleanup(f) \/ CleanupReset(f)
  \/ BindPlug \/ BindUndo \/ UnbindUnplug
  \/ VdsEvtControlRead \/ CancelRead
  \/ \E type \in {"feature_reply", "audio_in"} : WriteCheck(type)
  \/ WriteStore

(***************************************************************************)
(* URBs.  The queue of an endpoint is sequential: it delivers a URB when   *)
(* the one before is completed.  `old` marks a URB of a queue that is no   *)
(* longer the endpoint's.                                                  *)
(***************************************************************************)
OthersOfUrb == <<portVars, ctl, cfg, ringVars, rd, left>>

InDriver(u) == urb[u].st \notin {"free", "queued", "done", "cancelled"}

\* The host changes one interface setting at a time.
SettingFree == cfg = Idle /\ ~\E u \in Urbs : urb[u].req = "set_interface" /\ urb[u].st = "queued"

Submit(u, ep, req) ==
  /\ req = "set_interface" => SettingFree
  /\ urb[u].st = "free" /\ ep \in configured /\ left > 0
  /\ left' = left - 1
  /\ urb' = [urb EXCEPT ![u] = [st |-> "queued", ep |-> ep, req |-> req,
                                pub |-> FALSE, old |-> FALSE, done |-> 0]]
  /\ UNCHANGED <<portVars, epVars, ctl, cfg, pc, ringVars, told, rd, dataVars>>

\* UdeCx cancels what the driver was not given of a queue it has taken away.
Cancel(u) ==
  /\ urb[u].st = "queued" /\ (urb[u].old \/ urb[u].ep \notin configured)
  /\ urb' = [urb EXCEPT ![u] = Gone("cancelled", 0)]
  /\ UNCHANGED <<epVars, pc, told, dataVars, OthersOfUrb>>

Delivered(u) ==
  /\ urb[u].st = "queued" /\ ~urb[u].old
  /\ ~\E v \in Urbs : InDriver(v) /\ urb[v].ep = urb[u].ep /\ ~urb[v].old

Becomes(u, st) == urb' = [urb EXCEPT ![u].st = st]
Queues(u, f)   == pc' = [pc EXCEPT ![u] = f]

\* VdsEvtControlUrb: a feature read that misses the cache asks the daemon and
\* is answered with zeros at once.
VdsEvtControlUrb(u) ==
  /\ Delivered(u) /\ urb[u].ep = "ep0"
  /\ Becomes(u, "finish")
  /\ \/ /\ urb[u].req = "get_feature"
        /\ IF cached THEN UNCHANGED pc ELSE Queues(u, Frame(1, <<>>))
        /\ UNCHANGED <<cached, alt, told>>
     \/ /\ urb[u].req = "set_feature"
        /\ cached' = TRUE
        /\ Queues(u, Frame(1, <<>>))
        /\ UNCHANGED <<alt, told>>
     \/ /\ urb[u].req = "set_output"
        /\ Queues(u, Frame(1, <<>>))
        /\ UNCHANGED <<cached, alt, told>>
     \/ /\ urb[u].req = "set_interface"
        /\ \E i \in Iso, a \in 0..1 : /\ alt' = [alt EXCEPT ![i] = a]
                                     /\ told' = [told EXCEPT ![i] = Lost]
        /\ UNCHANGED <<cached, pc>>
     \/ /\ urb[u].req = "other" /\ UNCHANGED <<cached, alt, told, pc>>
  /\ UNCHANGED <<released, configured, audio, mic, OthersOfUrb>>

VdsEvtHidOutUrb(u) ==
  /\ Delivered(u) /\ urb[u].ep = "hid_out"
  /\ Becomes(u, "finish")
  /\ IF urb[u].req = "transfer" THEN Queues(u, Frame(1, <<>>)) ELSE UNCHANGED pc
  /\ UNCHANGED <<epVars, told, dataVars, OthersOfUrb>>

\* VdsEvtIsoInUrb takes a unit of microphone PCM, zero-filled when there is none.
VdsEvtIsoInUrb(u) ==
  /\ Delivered(u) /\ urb[u].ep = "audio_in"
  /\ IF urb[u].req = "transfer"
     THEN /\ Becomes(u, "delay")
          /\ audio' = VdsCopyAudioInPcm(audio, AudioSize)
     ELSE /\ Becomes(u, "finish")
          /\ UNCHANGED audio
  /\ UNCHANGED <<epVars, pc, told, mic, cached, OthersOfUrb>>

\* VdsEvtIsoOutUrb and VdsEvtHidInUrb: the transfer is completed after a delay.
VdsEvtIsoOutUrb(u) ==
  /\ Delivered(u) /\ urb[u].ep = "audio_out"
  /\ Becomes(u, IF urb[u].req = "transfer" THEN "delay" ELSE "finish")
  /\ UNCHANGED <<epVars, pc, told, dataVars, OthersOfUrb>>

VdsEvtHidInUrb(u) ==
  /\ Delivered(u) /\ urb[u].ep = "hid_in"
  /\ Becomes(u, IF urb[u].req = "transfer" THEN "delay" ELSE "finish")
  /\ UNCHANGED <<epVars, pc, told, dataVars, OthersOfUrb>>

\* What VdsCompleteDelayedUrb does before it completes the URB.
CompletionFrame(u) ==
  IF urb[u].ep = "audio_out" THEN Queues(u, Frame(2, <<>>)) ELSE UNCHANGED pc

\* VdsCompleteUrbAfterDelay up to its unlock: the timer is published in the
\* queue's context; when it cannot be created, or another is there, the URB
\* is completed at once.
PublishTimer(u) ==
  /\ urb[u].st = "delay"
  /\ \E created \in BOOLEAN :
       IF created /\ ~\E v \in Urbs : urb[v].pub /\ urb[v].ep = urb[u].ep /\ ~urb[v].old /\ ~urb[u].old
       THEN urb' = [urb EXCEPT ![u].st = "unstarted", ![u].pub = TRUE] /\ UNCHANGED pc
       ELSE Becomes(u, "finish") /\ CompletionFrame(u)
  /\ UNCHANGED <<epVars, told, dataVars, OthersOfUrb>>

\* WdfTimerStart, after the unlock.
StartTimer(u) ==
  /\ urb[u].st = "unstarted"
  /\ Becomes(u, "armed")
  /\ UNCHANGED <<epVars, pc, told, dataVars, OthersOfUrb>>

TimerExpires(u) ==
  /\ urb[u].st = "armed"
  /\ Becomes(u, "expired")
  /\ UNCHANGED <<epVars, pc, told, dataVars, OthersOfUrb>>

\* Mutant: the callback completes the URB only when its timer is still published.
TimerCompletesOwnOnly(u) ==
  /\ urb[u].st = "expired" /\ urb[u].pub
  /\ urb' = [urb EXCEPT ![u].st = "finish", ![u].pub = FALSE]
  /\ CompletionFrame(u)
  /\ UNCHANGED <<epVars, told, dataVars, OthersOfUrb>>

\* The timer's callback: unpublishes the timer if nobody has, and completes the URB.
VdsEvtDelayedUrbCompletionTimer(u) ==
  /\ urb[u].st = "expired"
  /\ urb' = [urb EXCEPT ![u].st = "finish", ![u].pub = FALSE]
  /\ CompletionFrame(u)
  /\ UNCHANGED <<epVars, told, dataVars, OthersOfUrb>>

\* VdsCompleteUrbAsync, once the frame of the URB is out.
VdsCompleteUrbAsync(u) ==
  /\ urb[u].st = "finish" /\ pc[u] = Idle
  /\ urb' = [urb EXCEPT ![u] = Gone("done", @.done + 1)]
  /\ UNCHANGED <<epVars, pc, told, dataVars, OthersOfUrb>>

UrbStep(u) ==
  \/ VdsEvtControlUrb(u) \/ VdsEvtHidOutUrb(u) \/ VdsEvtIsoInUrb(u)
  \/ VdsEvtIsoOutUrb(u) \/ VdsEvtHidInUrb(u)
  \/ PublishTimer(u) \/ StartTimer(u) \/ TimerExpires(u)
  \/ VdsEvtDelayedUrbCompletionTimer(u) \/ VdsCompleteUrbAsync(u) \/ Cancel(u)

(***************************************************************************)
(* VdsEvtEndpointsConfigure.                                               *)
(***************************************************************************)
ConfigureRequests ==
  (UNION {{[iface |-> i, alt |-> 1, conf |-> {i}, rel |-> {}],
          [iface |-> i, alt |-> 1, conf |-> {i}, rel |-> {i}],
          [iface |-> i, alt |-> 0, conf |-> {}, rel |-> {i}],
          [iface |-> "none", alt |-> 0, conf |-> {i}, rel |-> {}],
          [iface |-> "none", alt |-> 0, conf |-> {}, rel |-> {i}]} : i \in Iso})
  \union {[iface |-> "hid", alt |-> 0, conf |-> {}, rel |-> {}]}

OthersOfCfg == <<portVars, ctl, ringVars, rd, dataVars>>

\* The callback begins: the setting is noted first.
Configure(r) ==
  /\ SettingFree /\ child.plugged /\ left > 0
  /\ r.rel \subseteq configured \union released /\ r.conf \subseteq (Iso \ configured) \union r.rel
  /\ left' = left - 1
  /\ cfg' = [at |-> "release", req |-> r, todo |-> r.rel, wait |-> None, gone |-> FALSE]
  /\ alt' = IF r.iface \in Iso THEN [alt EXCEPT ![r.iface] = r.alt] ELSE alt
  /\ configured' = configured \ r.rel
  /\ UNCHANGED <<released, urb, pc, told, OthersOfCfg>>

Waited == cfg.wait \in {None} \union {u \in Urbs : urb[u].st = "done"}

\* VdsFlushDelayedEndpointUrb of one released endpoint: the published timer is
\* taken; WdfTimerStop stops an armed one, and then the URB is completed here;
\* it waits for a callback that is running; it does nothing to a timer that is
\* not started yet.
Published(e) == {u \in Urbs : urb[u].pub /\ urb[u].ep = e /\ urb[u].old = cfg.gone}

\* Mutant: the URB is completed whatever WdfTimerStop returned.
FlushCompletesAlways(e) ==
  /\ urb' = [u \in Urbs |-> IF u \in Published(e) THEN [urb[u] EXCEPT !.pub = FALSE, !.done = @ + 1]
                            ELSE urb[u]]
  /\ cfg' = [cfg EXCEPT !.todo = @ \ {e}]
  /\ UNCHANGED pc

VdsFlushDelayedEndpointUrb(e) ==
  IF Published(e) = {} THEN UNCHANGED <<urb, pc>> /\ cfg' = [cfg EXCEPT !.todo = @ \ {e}]
  ELSE LET u == CHOOSE x \in Published(e) : TRUE
           stopped == urb[u].st = "armed"
       IN  /\ urb' = [urb EXCEPT ![u].pub = FALSE,
                                 ![u].st = IF stopped THEN "finish" ELSE @]
           /\ IF stopped THEN CompletionFrame(u) ELSE UNCHANGED pc
           /\ cfg' = [cfg EXCEPT !.todo = @ \ {e},
                                 !.wait = IF urb[u].st = "unstarted" THEN None ELSE u]

ReleaseEndpoint(e) ==
  /\ cfg.at = "release" /\ Waited /\ e \in cfg.todo
  /\ VdsFlushDelayedEndpointUrb(e)
  /\ released' = IF cfg.gone THEN released ELSE released \union {e}
  /\ UNCHANGED <<alt, configured, told, left, OthersOfCfg>>

\* VdsAssignFreshEndpointQueue for the configured endpoints whose queue was
\* released; when it fails the request fails and no event is sent.
VdsAssignFreshEndpointQueue ==
  /\ cfg.at = "release" /\ Waited /\ cfg.todo = {}
  /\ LET stale == IF cfg.gone THEN {} ELSE cfg.req.conf \intersect released
     IN  \/ /\ released' = released \ stale
            /\ urb' = [u \in Urbs |-> [urb[u] EXCEPT !.old = @ \/ (urb[u].ep \in stale /\ urb[u].st # "free")]]
            /\ cfg' = [cfg EXCEPT !.at = "audio_out"]
            /\ UNCHANGED told
         \/ /\ stale # {}
            /\ cfg' = Idle
            /\ told' = [i \in Iso |-> IF i = cfg.req.iface THEN Lost ELSE told[i]]
            /\ UNCHANGED <<released, urb>>
  /\ UNCHANGED <<alt, configured, pc, left, OthersOfCfg>>

\* The interface events, audio out, audio in, then HID: a setting noted and a
\* frame queued for the daemon.
Event(i, a) ==
  /\ alt' = [alt EXCEPT ![i] = a]
  /\ pc' = [pc EXCEPT !["cfg"] = Frame(1, <<i, a>>)]

\* Mutant: a release without a setting change goes unreported.
EventOnChangeOnly(i) ==
  IF cfg.req.iface = i THEN Event(i, cfg.req.alt)
  ELSE IF i \in cfg.req.rel THEN alt' = [alt EXCEPT ![i] = 0] /\ UNCHANGED pc
  ELSE UNCHANGED <<alt, pc>>

EventOf(i) ==
  LET r == cfg.req
  IN  IF i \in r.rel /\ i \notin r.conf THEN Event(i, 0)
      ELSE IF r.iface = i THEN Event(i, r.alt)
      ELSE IF i = "audio_in" /\ i \in r.conf THEN Event(i, 1)
      ELSE UNCHANGED <<alt, pc>>

EventStep ==
  /\ cfg # Idle /\ pc["cfg"] = Idle
  /\ \/ /\ cfg.at = "audio_out" /\ EventOf("audio_out")
        /\ cfg' = [cfg EXCEPT !.at = "audio_in"]
     \/ /\ cfg.at = "audio_in" /\ EventOf("audio_in")
        /\ cfg' = [cfg EXCEPT !.at = "hid"]
     \/ /\ cfg.at = "hid"
        /\ IF cfg.req.iface = "hid" THEN pc' = [pc EXCEPT !["cfg"] = Frame(1, <<>>)] ELSE UNCHANGED pc
        /\ cfg' = [cfg EXCEPT !.at = "complete"]
        /\ UNCHANGED alt
  /\ UNCHANGED <<released, configured, urb, told, left, OthersOfCfg>>

\* The request is completed (vds_endpoint_release_delay_ms is 0: at once), and
\* the host uses the endpoints.
CompleteConfigure ==
  /\ cfg.at = "complete" /\ pc["cfg"] = Idle
  /\ configured' = IF cfg.gone THEN configured ELSE configured \union cfg.req.conf
  /\ cfg' = Idle
  /\ UNCHANGED <<alt, released, urb, pc, told, left, OthersOfCfg>>

ConfigureStep ==
  \/ \E e \in Iso : ReleaseEndpoint(e)
  \/ VdsAssignFreshEndpointQueue \/ EventStep \/ CompleteConfigure

(***************************************************************************)
(* The specification.                                                      *)
(***************************************************************************)
Next ==
  \/ Control
  \/ QueueFrameSteps
  \/ \E u \in Urbs : UrbStep(u)
  \/ \E u \in Urbs, ep \in Endpoints : \E req \in Requests(ep) : Submit(u, ep, req)
  \/ \E r \in ConfigureRequests : Configure(r)
  \/ ConfigureStep

Spec == Init /\ [][Next]_vars

(***************************************************************************)
(* Properties.                                                             *)
(***************************************************************************)
RingType(size, units) ==
  [cells : [0..size - 1 -> units \union {Empty}], head : 0..size - 1, size : 0..size]

FrameUnit == [no : Nat, part : {"header", "payload"}, rest : Nat]
MicUnit   == [no : Nat, of : Nat]

UrbStates == {"free", "queued", "delay", "unstarted", "armed", "expired", "finish",
              "done", "cancelled"}
UrbType ==
  [st : UrbStates, ep : Endpoints, req : UNION {Requests(ep) : ep \in Endpoints},
   pub : BOOLEAN, old : BOOLEAN, done : Nat]

CtlType ==
  {Idle} \union [at : {"plug", "undo", "unplug"}, file : Files]
         \union [at : {"store"}, type : {"feature_reply", "audio_in"}, of : Nat]

CfgType ==
  {Idle} \union [at : {"release", "audio_out", "audio_in", "hid", "complete"},
                 req : ConfigureRequests, todo : SUBSET Iso, wait : Urbs \union {None},
                 gone : BOOLEAN]

Places ==
  {Idle, [at |-> "check"], [at |-> "take"]}
    \union [at : {"frame"}, payload : Nat, iface : {<<>>} \union (Iso \X {0, 1})]

PortTypes ==
  /\ port \in [bound : BOOLEAN, file : Files \union {None}, profile : Profiles \union {None}]
  /\ child \in [dev : BOOLEAN, valid : BOOLEAN, profile : Profiles \union {None}, plugged : BOOLEAN]
  /\ handles \in [Files -> {"open", "cleanup", "closed"}]
  /\ ctl \in CtlType /\ session \in Nat

UrbTypes ==
  /\ alt \in [Iso -> {0, 1}] /\ told \in [Iso -> {0, 1, Lost}]
  /\ released \subseteq Iso /\ configured \subseteq Endpoints
  /\ urb \in [Urbs -> UrbType] /\ handed \in [Urbs -> Nat]
  /\ cfg \in CfgType /\ pc \in [Threads -> Places]

DataTypes ==
  /\ ring \in RingType(RingSize, FrameUnit) /\ sent \in Nat
  /\ audio \in RingType(AudioSize, MicUnit) /\ mic \in Nat
  /\ rd \in [st : {"off", "ask", "parked"}, want : Nat, part : {"header", "payload"}]
  /\ cached \in BOOLEAN /\ left \in Nat

\* The types of the port's state and of the threads' places.
TypeOK == PortTypes /\ UrbTypes /\ DataTypes

\* The control ring holds exactly the units accepted and not yet read, in
\* order: neither the wrap of VdsControlRingWriteLocked and ...ReadLocked nor a
\* full ring loses, repeats or overwrites a unit of a frame.
RingIsFifo ==
  \A i \in 0..ring.size - 1 :
    ring.cells[(ring.head + i) % RingSize].no = sent - ring.size + 1 + i

\* The microphone ring holds the newest samples in order, and, once a bind has
\* returned, none of an earlier session: neither a cleanup that resets late nor
\* a write that outlives its session leaves PCM behind.
MicIsFresh ==
  \A i \in 0..audio.size - 1 :
    LET k == audio.cells[(audio.head + i) % AudioSize]
    IN  /\ k.no = mic - audio.size + 1 + i
        /\ port.bound /\ ctl.at # "plug" => k.of = session

\* A read parked while the ring holds data is about to be served: the check of
\* the ring and the parking of a read are not under one lock, and still no
\* wake-up is lost.
NoStrandedRead ==
  rd.st = "parked" /\ ring.size > 0 => \E t \in Threads : pc[t].at \in {"check", "take"}

\* What VDS_IOCTL_GET_PORT_INFO reports.
VdsCompletePortInfo ==
  [bound |-> port.bound, profile |-> port.profile, plugged |-> child.plugged,
   usbProfile |-> child.profile, usbProfileValid |-> child.valid]

\* A port whose bind has returned success has its child plugged with the
\* profile asked for, whatever failed in earlier binds and whichever handles
\* were closed without an unbind.
BoundPortServed ==
  LET info == VdsCompletePortInfo
  IN  info.bound /\ ctl.at \notin {"plug", "undo"} =>
        child.dev /\ info.plugged /\ info.usbProfileValid /\ info.usbProfile = info.profile

\* When no configure callback runs, the daemon has been told the setting of
\* each audio interface, unless the frame that said so found the ring full,
\* the callback failed, the host set it behind the callback's back, or the
\* session began (VdsBindPort) on a kept child whose interface was already on.
AltReported ==
  cfg = Idle => \A i \in Iso : told[i] \in {alt[i], Lost}

\* The steps of the driver itself, as opposed to the host's and the daemon's.
DriverStep ==
  \/ QueueFrameSteps \/ ConfigureStep
  \/ \E u \in Urbs : UrbStep(u)
  \/ BindPlug \/ BindUndo \/ UnbindUnplug \/ WriteStore

\* The guards of those steps, written out.
UrbReady(u) ==
  \/ urb[u].st \in {"delay", "unstarted", "armed", "expired"}
  \/ urb[u].st = "finish" /\ pc[u] = Idle
  \/ Delivered(u) /\ urb[u].req \in Requests(urb[u].ep)
  \/ urb[u].st = "queued" /\ (urb[u].old \/ urb[u].ep \notin configured)

CfgReady == cfg # Idle /\ IF cfg.at = "release" THEN Waited ELSE pc["cfg"] = Idle

Ready ==
  \/ \E t \in Threads : pc[t].at \in {"frame", "check", "take"}
  \/ ctl.at \in {"plug", "undo", "unplug", "store"}
  \/ \E u \in Urbs : UrbReady(u)
  \/ CfgReady

AtRest ==
  /\ \A u \in Urbs : urb[u].st \in {"free", "done", "cancelled"}
  /\ cfg = Idle /\ ctl = Idle /\ pc = [t \in Threads |-> Idle]

\* The driver does not come to rest with something in hand: when none of its
\* steps can be taken, every URB it was given is given back, the configure
\* callback has returned (its wait for a timer callback was not for ever), the
\* control queue is free and no thread is inside the ring's loop.
SettlesClean == (AtRest \/ Ready) /\ (Ready => ENABLED DriverStep)

\* The driver keeps the host's contract: no URB is given back twice,
\* its frame is queued at most once and before, with a flush at any point of
\* the delayed completion.
Contract == INSTANCE UrbContract WITH
  submitted <- {u \in Urbs : urb[u].st # "free"},
  handed    <- handed,
  returned  <- [u \in Urbs |-> urb[u].done + (IF urb[u].st = "cancelled" THEN 1 ELSE 0)]

GivenBackOnce == Contract!Safety
=============================================================================
