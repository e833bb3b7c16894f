# TLA+ models of vDS

vDS makes a Bluetooth DualSense controller look like a wired one: a virtual USB
device on the host, and a daemon that translates USB traffic to and from the
controller's Bluetooth protocol. This directory holds TLA+ models of its
concurrent parts, the TLC configurations that check them on small instances,
and TLAPS proofs of the results that hold for every instance. Paths below are
relative to the repository root. `PROJECT.json` maps every definition to the
lines it models.

## 1. The system

| component | state it keeps | operations | talks to |
|---|---|---|---|
| HCD URB engine (`module/vds_hcd_core.c`) | URB contexts on four lists (`hid_in_urbs`, `feature_get_urbs`, `completed_urbs`, none), frame queue `events`, one buffered input report, `next_*_ready` clocks | `urb_enqueue`, `urb_dequeue`, giveback kthread, `read`, `write`, `ioctl`, `stop` | USB core above, daemon through `/dev/vdsN` |
| HCD port, character device and root hub (same file) | `opened`, `status_flags`, `port_status` | `open`, `release`, `hub_control`, `hub_status_data` | USB hub driver, daemon |
| USB device core (`module/vds_usb_core.c`) | configuration, alternate settings, feature cache, profile | control requests, reset | HCD |
| Audio-in PCM queue (`module/vds_hcd_core.c`) | PCM frames, `audio_in_queued_bytes` | write, fill an ISO IN URB | daemon, USB audio driver |
| Linux daemon (`src/platform/linux/vdsd.cc`) | ports, controllers with pending L2CAP channels and backends, output and audio queues | one epoll loop: accept, port frame, Bluetooth frame, control command, reload | `/dev/vdsN`, L2CAP sockets, `vdsctl` |
| Linux Bluetooth and system services (`vds_bt`, `vds_bluez`, `vds_udev`, `vds_fs`, `vds_io`) | file descriptors | accept, send, receive, enumerate, lock | kernel, BlueZ |
| Daemon common logic (`src/vdsd_common.cc`) | back-off and warning tables | launch decision, control commands | both daemons |
| DualSense protocol (`src/vds_protocol.cc`) | sequence counters, PCM windows, last output state | report translation, CRC, Opus and haptics packets | both daemons |
| Configuration database (`src/vds_config.cc`, `src/jsonl.cc`) | JSONL file | load, upsert, remove under a file lock | daemons, `vdsctl` |
| Windows daemon (`src/platform/win32/vdsd.cc`) | supervisor's workers, back-offs, per-session `BridgeState` | scan, launch, retire, control pipe, three session threads, audio flush | `\\.\vdsN` or the USB/IP pipe, HID Bluetooth device |
| USB/IP virtual port (`src/platform/win32/vds_usbip.cc`) | import session, demultiplexed frame queues, microphone ring, paced replies | CMD_SUBMIT, CMD_UNLINK, reader thread, pacer thread, stop | usbip-win2 client over TCP, daemon over a named pipe |
| Windows Bluetooth transport (`vds_bt.cc`, `vds_io.cc`) | overlapped reads and writes | read, write, cancel | HID stack |
| Windows `vds_usb` driver (`windrv/vds_usb/vds_usb.c`) | port bindings, control ring, delayed URBs, feature cache | bind, unbind, read, write, URB handlers, timers, purge | UDECX, daemon |
| Windows `vds_filter` driver (`windrv/vds_filter/vds_filter.c`) | device list, generation, pending waits | PnP start and remove, list devices, wait for change | PnP, daemon |
| `vdsctl`, logging, installer, launcher, tray (`ui/VdsTray`) | none of interest | one request and reply; sequential scripts; drawing | daemon |

What is hard here:

* **Lock splitting in the HCD.** `vds_urb_enqueue` takes and drops `dev->lock`
  and `usb.lock` up to four times; unlink, feature replies, disconnect and the
  giveback thread all run in the gaps. An URB context has one list node, so a
  second queueing corrupts two lists.
* **Requests that wait for user space.** A feature GET and an interrupt IN wait
  for the daemon, which may stall, disconnect or die; the frame queue is
  bounded.
* **Time.** ISO and HID completions mature later and share a list with
  completions that are due at once.
* **The USB/IP port.** One session thread, one pipe reader, one pacer and the
  destructor share queues; requests time out while their answers are under way;
  clients vanish and come back.
* **The daemons.** Channels arrive in any order and from different connections;
  events are dispatched by index after the table has changed; the Windows
  supervisor launches, retires and restarts worker threads.
* **The Windows drivers.** Timers race purges; list changes and generation
  changes are in different lock sections.

What makes each part correct: the HCD gives every accepted URB back exactly
once, with no dead context touched, in an order the audio clock allows, and
delivers the newest input; the ports never serve one session's state to the
next; a request gets the answer to that request; the daemons never lose a
controller or a port; nothing waits for ever on a thread that is not going to
move.

## 2. Modules and plan

| module | models | runs |
|---|---|---|
| `Lists`, `VdsHcd` | the URB engine of the Linux driver | `hcd_unlink_any_time`, `hcd_progress`, `hcd_unlink_race` |
| `AudioIn`, `VdsPort` | the microphone queue, in the port of the Linux driver: its character device, its root hub and the state of the USB device | `port` |
| `VdsUsbip` | the USB/IP virtual port | `usbip_sessions`, `usbip_progress`, `usbip_stop_reimport`, `usbip_late_reply` |
| `VdsdBridge` | the Linux daemon's bridge of one port | `linux_bridge` |
| `VdsdLinux` | the Linux daemon's supervisor | `linux_supervisor` |
| `WinFilter`, `WinSupervisor` | the filter driver, composed with the Windows supervisor that waits on it | `win_supervisor` |
| `UrbContract`, `WinUsb` | what a host is promised of its URBs, and one port of the Windows USB driver that keeps it | `win_usb` |
| `Lists_proofs`, `VdsHcd_proofs`, `VdsPort_proofs`, `VdsUsbip_proofs`, `WinSupervisor_proofs`, `WinUsb_proofs`, `VdsdBridge_proofs`, `VdsdLinux_proofs` | theorems | |

`MC_*` modules hold the instances. The modules meet at the interfaces the code
has: `VdsHcd` and `VdsdBridge` at the frames of `/dev/vdsN` (each has the other
as its environment), `VdsdBridge` and `VdsdLinux` at the session (one event of
`VdsdLinux` is a whole wake-up's worth of `VdsdBridge`), `WinUsb` and the
daemon at the control ring, `VdsHcd` and `VdsPort` at `dev->lock` (the URBs a
disconnect cancels are in the one, the connection in the other), `VdsPort`
extends `AudioIn`, `WinSupervisor` extends `WinFilter`.

What is left, in this order: the microphone ring of the USB/IP port; the threads
of a Windows bridge session.

## 3. The URB engine: `VdsHcd`

**State.** Each element of `Urbs` is one submission: `vds_urb_enqueue`
allocates a context per call, so a driver that resubmits its URB is a new
element. `kind`, `rid`, `pc`, `ret`, `data`, `unlinked` describe the submission
and the thread inside `vds_urb_enqueue`; `cstate`, `status`, `ready` are
`struct vds_urb_context`; the rest are fields of `struct vds_hcd_dev`, the
giveback thread's locals, and the daemon's position between two critical
sections of one system call. Payloads are abstracted to what the properties
compare: an input report is its stamp, a frame is the URB it is about.

**Actions.** One per critical section:

| code | actions |
|---|---|
| `vds_urb_enqueue` | `Submit`, then by request `AnswerNow`, `GetFeature`, `DeferFeatureGet`, `DeferRefused`, `FrameFeatureGet`, `SendFrame`, `HidInTake`, `HidInWait`, `ScheduleIso`, and at last `QueueGiveback` |
| `vds_urb_dequeue` | `Unlink` |
| `vds_giveback_thread` | `GbSleep`, `GbWakeUp`, `GbTake`, `GbDeliver`, `GbGiveback` |
| `vds_read` | `ReadFrame` |
| `vds_write` | `WriteInput`; `CacheReply`, `DeliverReply` |
| `vds_ioctl` | `Connect`, `Disconnect`, `ResetUsb`, `SetProfile` |
| `vds_hcd_stop` | `Stop` |

Using a context after `kfree`, or queueing one that is already on a list, is
undefined behaviour of the C code. The model then sets `corrupt`, a sink: what
such a state does next is not modelled, that it is reached is what
`NoStaleContext` asks.

**Bounds.** `EventMax` stands for the 16384 frames of `vds_enqueue_frame`; 1
makes both the refusing and the accepting branch happen. `MaxTime` bounds the
clock while nothing is timed (it may run on when a completion is waiting, so no
deadline is cut off), `MaxWrites` the daemon's input reports, `MaxConn` its
CONNECT calls. `HidInDepth` is the number of interrupt IN URBs the host driver
keeps in flight; `UnlinkMidSubmit` says whether the USB core may call
`vds_urb_dequeue` while `vds_urb_enqueue` is still running for that URB.

**Runs.**

| run | instance | question |
|---|---|---|
| `hcd_unlink_any_time` | 2 URBs of every kind, one HID IN in flight, frame queue of 1, 2 input reports, 2 connections, unlinks at any moment | Does every context stay on the list its state names, no deferred GET lose its request, and no input report get stranded beside a waiting URB or follow a newer one? Yes, up to the first stale use. |
| `hcd_progress` | 2 URBs, frame queue of 1, `FairSpec` | Are unlinked URBs, and URBs that need no daemon, given back although the daemon is dead and the queue full, does a cached reply complete the GETs of its report, and does a completion that is due now go before the audio stream? Yes. |
| `hcd_unlink_race` | (violation) | An unlink inside `vds_urb_enqueue` queues a context that the submitter then queues again, or frees it. |

The model also shows that a control URB that becomes ready while the giveback
thread sleeps in `schedule_hrtimeout_range_clock` for an ISO deadline waits with
it (`vds_hcd_core.c:623`, against the comment at line 370): `CompletedOrdered`
speaks of the list's order, not of the thread's sleep. With two HID IN URBs in
flight `InputNeverGoesBack` fails; usbhid keeps one.

There is a second way to a stale context. With a full frame queue a reply to
another GET of the same report can complete and free a URB whose own
`vds_urb_enqueue` then takes the refusing branch (`DeferRefused`) and touches
it; the model has that behaviour, and `PROJECT.json` lists the hazard. That
there is no third way is the theorem `ContextsValid` (section 10).

**Fairness.** `FairSpec` assumes weak fairness of each thread that is inside a
kernel call, of the giveback kthread and of the clock: the scheduler runs them.
It assumes nothing of the host (it may stop submitting) and nothing of the
daemon (it may stop reading or die).

## 4. The port of the Linux driver: `AudioIn`, `VdsPort`

**State.** The fields of `struct vds_hcd_dev` that `VdsHcd` leaves out
(`opened`, `status_flags`, the connection, enable and change bits of
`port_status`, the microphone queue) and the fields of `struct vds_usb_device`
a host sets (`configuration`, `audio_out_altsetting`, the profile). `pc` is where
each process with the device open is inside a system call, `closing` who is
there because of `vds_release`; `hub` and `view` are the hub driver of the host
and what it believes; `request` is the control request in progress. `conns`
counts connections, so that two of them can be told apart, `wants` and `asked`
remember what the openers and the host asked for, and `overlap` whether the last
open came while another file was still in `vds_release`.

**Actions.** One per critical section of `dev->lock` or `usb.lock`:

| code | actions |
|---|---|
| `vds_open`, `vds_release` | `Open`; `Release`, then `Disconnect`, `ResetState`, `PollRootHub` |
| `vds_ioctl` | `Ioctl`, then `SetProfile`, or `Connect`, or `Disconnect` and `ResetState`, with `PollRootHub` at the end; `ConnectionTooLate` after the stop |
| `vds_hub_control` | `PortStatus`, `ClearConnection`, `Debounce`, `PortReset`, `WaitReset`, `ClearReset`, `ClearStaleReset` |
| control requests | `Enumerate`, `SetConfiguration`, `SetInterface`, `SetStatus` |
| `vds_write` of a PCM frame | `WriteFrame`, `WriteDrop` per dropped frame, `WriteAppend` |
| `vds_iso_in_urb` | `FillUrb`, `FillStep` per packet, `FillEnd` |
| `vds_hcd_stop` | `Stop` |

The hub driver is external: it reads the status on a reported change, clears the
change, debounces, resets a connected port and enumerates. `lock` marks the loops
of the microphone queue, which hold `dev->lock`: everything else that takes it
waits (`Free`). A byte of sound is its position in the stream the daemon wrote.

**Bounds.** Two openers. A behaviour follows one of `Scenarios`: changing
profiles, a control request that overlaps a disconnect, or the microphone, each
with every interleaving of opens, closes and the hub driver; two connections (a
connection, an unplug and a new one that the host may confuse with the first)
where connections matter. `QueueMax` 2 with frames of 1 and 3 bytes and URBs of
2 makes a frame larger than the queue, partly read frames and drops happen;
`MaxBytes` bounds the stream. The theorems of section 10 hold for any of these.

**Run.** `port`, under `FairSpec`, with closes that overlap an open or not:

* Can an unplug that falls between the hub driver's reading and clearing of a
  change be lost, can the host go by a profile that was changed meanwhile
  (`HostInformed`)? No. Does the host always come to have enumerated what is
  plugged in (`HubCatchesUp`)? Yes.
* Does an opener keep the device it has plugged in, and the device its
  configuration (`DeviceKept`)? Yes, if the open met no close under way.
* Do the status flags cover the device (`StatusCoversDevice`)? Is the microphone's
  byte count exact, the backlog bounded, the sound in order and none of it from
  before a flush (`MicFaithful`)? Yes.

`DeviceKept` names its exception because the code breaks it there. `vds_release`
clears `opened` before it disconnects (`vds_hcd_core.c:1045`), so a process that
opens and CONNECTs in between is unplugged by the close of its predecessor, and
the reset that follows (line 943) may clear the configuration the host has just
set. The run has these behaviours; what it and the theorem show is that nothing
of such an overlap outlives the next open that meets no close: The model shows two more things that
no property claims: a request that overlaps a disconnect leaves CONFIGURED set on
an unplugged device (`StatusCoversDevice` is the direction that holds), and
`vds_write` queues PCM while the device is unplugged, which is then heard in the
next connection (`MicFaithful` speaks of what was written before the flush).

**Fairness.** A system call that has begun is finished and the
hub driver's work is scheduled, both under strong fairness, since they compete
for a queued spinlock; a loop under the lock makes progress. Nobody has to start
a call. `HubCatchesUp` is about the openers leaving the port alone in the end,
which the bound on connections stands for.

## 5. The USB/IP port: `VdsUsbip`

**State.** Each element of `Cmds` is one CMD_SUBMIT (a sequence number is used
once). `peer`, `inbound`, `kind`, `rid`, `st`, `sess`, `answer`, `acked` are
the client's side of the connection; `tcpPc`, `cur`, `sock`, `published`,
`shut`, `sending` are the session thread and `client_socket`; `pipe`, `daemon`,
`toDaemon`, `toHost` the named pipe; `hidQueue`, `featQueue` the queues that
`pipe_reader_loop` fills; `paced`, `due`, `sockOf`, `anchor`, `inHand`, `alarm`
the pacer; `stopPc`, `stopReq`, `poked` the thread inside `stop()`. `paceLog`,
`seen`, `torn`, `late`, `inputs` and `imports` record history for the properties
and the bounds. A request is one of `getReport`, `hidIn` (interrupt IN), `isoOut`,
`isoIn`, `forward` (written to the daemon, not waited for) or `local` (answered
from the port's own tables).

**Actions.** One per critical section or blocking call:

| code | actions |
|---|---|
| `tcp_server_loop` | `Accept`, `AcceptDead`, `Publish`, `ReceiveHeader`, `Devlist`, `DevlistEnd`, `ImportHeader`, `Listen`, `CloseSocket` |
| `handle_import_session` | `ConnectPipe`, `ReceiveSubmit`, `ReceiveUnlink`, `ReceiveFails`, `ClearPaced`, `DisconnectPipe` |
| `handle_cmd_submit` | `TakeReply`, `ReplyTimeout`, `TakeInput`, `InputTimeout`, `ReplyHeader`, `ReplyBody`, `Pace` |
| `pipe_reader_loop` | `ReadFrame`, `ReaderExit` |
| `iso_pacer_loop` | `PacerCheck`, `PacerWait`, `PacerTimer`, `PacerTake`, `PacerSend` |
| `stop` | `StopBegin`, `StopShutdown`, `StopPoke`, `StopJoinTcp`, `StopJoinReader`, `StopJoinPacer` |
| usbip-win2 (external) | `ClientConnect`, `ClientSubmit`, `ClientUnlink`, `ClientClose` |
| vdsd at the pipe's other end | `DaemonOpen`, `DaemonInput`, `DaemonAnswer`, `DaemonClose` |

The reply of `handle_cmd_submit` is two `send` calls under `socket_send_mutex`
(`ReplyHeader`, `ReplyBody`); the pacer's reply may not fall between them. The
sends of OP_REP_DEVLIST and OP_REP_IMPORT are made without that mutex. A
SOCKET value is reused by the system once it is closed, so `Accept` takes any
handle and the pacer's copy may name the next client's connection.

**Abstractions.** Descriptor, volume and PCM bytes, the `attached` flag and
the microphone ring are left out. An ISO request
has at least one packet. Pipe and socket writes do not block for lack of
buffer space. `ConnectNamedPipe` blocks until the pipe is opened. A client
asks for the device list or for the import. The daemon answers a feature request
at any time after it was asked, or not at all: its read of an uncached report
(`win32/vdsd.cc:1184`) has no bound that the 500 ms of `wait_for_feature_reply`
would respect.

**Bounds.** `HidMax` stands for the 8 frames of `hid_in_queue`; 1 with two
reports reaches the drop. `IsoTicks` is the duration of one ISO request,
`StaleTicks` the lag after which the pacing anchor is reset (0: stale at once);
`Unlinks` says whether the client unlinks. A behaviour follows one of
`Scenarios`: which requests it mixes, how many connections the client makes, how
many input reports come, and how far the clock runs while no reply waits for it.

**Runs.**

| run | instance | question |
|---|---|---|
| `usbip_sessions` | 2 requests, unlinked at any time: GETs with input polls, GETs over a re-import, input that comes faster than it is fetched, audio over a re-import that reuses the SOCKET value, both audio streams with pauses, requests that need no daemon | Is a GET answered with another report only after a wait that ended too early (`PairedUnlessLate`)? Does the queue keep the newest input, do paced replies leave sorted and at real time, is a message torn only by a reply left over from an earlier connection (`TornOnlyByLeftover`), does no reply of the session thread follow the acknowledgement of its unlink? Yes. |
| `usbip_progress` | 2 requests, GETs, input polls and both audio streams, one import, `FairSpec` | Is every request answered while its session lives, and does `stop()` end the session thread wherever it blocks? Yes. |
| `usbip_stop_reimport` | (violation) two imports, `FairSpec` | After a re-import the session thread waits in `ConnectNamedPipe` on a pipe that vdsd does not open again, and `stop()` joins it for ever. |
| `usbip_late_reply` | (violation) 2 GETs of 2 reports | The reply that comes after the 500 ms stays in `feature_reply_queue` and is the answer to the next GET, which asked for another report (`AnswersReportAsked`). |

A reply that jumps ahead of another stream's takes three audio requests:
`PacerSorted` and `RealTime` prove `PacedSorted` and `PacedAtRealTime`, the two
parts of `PacedInOrder`, for any number of requests and connections.

Three behaviours are in the model and no run claims their absence. An
unlinked audio request is acknowledged while its reply waits in the pacer, which
then sends it. A reply that the pacer already holds when its session ends may be
written to the next client's socket, while those queued before it were cleared:
this is why `PacedAtRealTime` claims order without gaps for the current
connection only, and spacing and no early reply for all, and it is the leftover
of `TornOnlyByLeftover`: it may even fall between the two unlocked sends of the
next connection's OP_REP_IMPORT. And `stop()` notifies the pacer without
`pacer_mutex`, so its wake-up can be lost between `PacerCheck` and `PacerWait`.

**Fairness.** `FairSpec` assumes weak fairness of the port's threads, of the
thread inside `stop()`, of the clock, and of the daemon opening its pipe end and
serving the frames in it (its reader thread does nothing else). It assumes
nothing of the client or of the controller's input, and not that the daemon
answers a feature request: `DaemonAnswer` may drop it, and the timeout covers
that.

CHECK_DEADLOCK is off in every run of the models so far: the daemon, the client
and the host may stop for good, and a stopped port has no steps left.

## 6. The Windows supervisor and the filter driver: `WinFilter`, `WinSupervisor`

**State.** `WinFilter` has one PnP program counter per Bluetooth HID stack
(`pnp`), because PnP serialises the requests of one stack and not those of
different stacks, the driver's list, generation and symbolic links, and the one
WAIT_DEVICE_CHANGE request its only reader can have (`irp`). `WinSupervisor`
extends it with the locals of `run_bridge_supervisor`, the workers, the
configuration file, the ports of the USB driver and the control pipe.

| code | actions |
|---|---|
| `VdsDispatchPnp`, `VdsAddDevice` | the `Pnp` steps, one per lock section (list, generation, drain, link) |
| `VdsDispatchDeviceControl` | `GetDevices`, `VdsWaitQueueInsertIrpEx`, `CancelWait` |
| the loop of `run_bridge_supervisor` | `Reap`, `Load`, the snapshot, retirement and launch steps, `Arm` and `ArmInsert`, the wake-ups, `LoopEnds` |
| `run_configured_bridge_worker` | the `Worker` steps: opening, bound, ended, done |
| `ControlPipeServer` | `Send`, `Reply` |
| outside | `PortsChange`, `StopRequested`, `TimerFires`, `BackoffExpires` |

**Run.** `win_supervisor`: two controllers (one behind the filter, with a
second HID collection that carries no reports), two ports, and two inputs from
outside (`MaxOps`: PnP arrivals and removals, commands, port changes, worker
failures) in any order, and a stop at any time. Two inputs are enough for a
change to fall into any gap of the reaction to another. `NoMissedChange`: as
long as the driver stays loaded, a change wait that sleeps has a current
snapshot. The condition is needed: a driver that is unloaded and loaded again
starts its generation at 1 (`vds_filter.c:1034`), and the number the supervisor
holds may be that of a list it has never seen. `WorkersExclusive` is safety
too; `StopEnds`, `Bridged` and `ControlServedOrStranded` are liveness. The last
is as strong as it can be: `consume_vdsd_worker_retry` removes a back-off only
of a configured controller, so after a worker failed and its controller was
detached the loop runs through `continue` (`vdsd.cc:3699`) for ever and answers
no further command.

The run has the driver's ports (`Usbip` FALSE), because only those can change
(`PortsChange`) and be seen as bound. USB/IP, the transport of the installer, is
covered by it: `TransportsAgree` proves that the supervisor chooses, and its
workers bind, the same ports with either transport, so that the behaviours over
USB/IP are those of the run in which `PortsChange` does not happen.

**Fairness.** `LiveSpec`: weak fairness of the loop, of the pipe thread, of
worker threads inside a call and of workers told to stop, of PnP requests under
way, and of timers. A bound worker that nobody stops may run for ever; users,
PnP and failures never have to happen.

## 7. The Windows USB driver: `UrbContract`, `WinUsb`

**Abstract specification.** `UrbContract` is what a host may rely on: a URB is
given back at most once, and the frame it carries is handed to the daemon at
most once and not after that. `GivenBackOnce` says that `WinUsb` implements it
(`Contract == INSTANCE UrbContract WITH ...`); that no URB is left in the driver
is `SettlesClean`: when the driver is not at rest a guard in `Ready` holds, and
when one does a step can be taken.

**State.** One port: its binding and child device, the handles that may own it,
the interface settings, each URB with its delayed timer, the configure callback
in progress, the control ring as head, size and cells, the daemon's reader
(`read_handle_exact`: header, then payload), and the microphone ring. The
threads are the URBs' callbacks, `"ctl"` and `"cfg"`; no URB has one of these two
names. `pc` says
where each thread is in `VdsQueueFrame` and `VdsCompleteControlReadRequests`,
which look at the ring and retrieve a request in different lock sections. A
cell is a unit that stands for a frame header or a slice of a payload.

| code | actions |
|---|---|
| control device queue | bind (`BindPlug`, `BindUndo`), unbind (`UnbindUnplug`), write (`WriteStore`), read (`VdsEvtControlRead`), cleanup |
| endpoint queues | `Submit` (external), the `UrbStep`s: serve, delay, publish, start, expire, complete, cancel |
| `VdsEvtEndpointsConfigure` | `Configure`, `ReleaseEndpoint` with `VdsFlushDelayedEndpointUrb`, `VdsAssignFreshEndpointQueue`, `EventStep`, `CompleteConfigure` |

**Run.** `win_usb`: two handles, two profiles, two URBs, a control ring of four
units (frames of two or three units wrap, split and find it full), a microphone
ring of two, and four operations of the host and the daemon (`MaxOps`), which
is what a bind, two URBs and a configure, or two sessions of two handles, take.
The model also shows that a read of a bound port can be completed with no bytes
(`vds_usb.c:915` looks, line 922 takes), which `read_handle_exact` reports as a
closed port; `NoStrandedRead` is the direction that holds. A bind resets the
microphone ring and not the control ring, so frames queued for the previous
owner are read by the next, and the feature cache survives a rebind. A new
session on a kept child is not told which interfaces are already on: `told`
starts anew with each bind, and `AltReported` counts such an interface as `Lost`
until its setting changes.

## 8. The Linux bridge: `VdsdBridge`

Each C++ function is an operator on a record of what a handler changes, and a
handler is their composition, so that an exception skips the rest of it as in
the code. The state of a controller is split into what only the host sets, the
audio route, and the microphone volume, mute LED and power-save bytes, which
host reports and the daemon's microphone reports both write; `ctrl` is what the
reports in the socket leave the controller with. The actions are the event sources (`PortEvent`,
`ControlEvent`, `InterruptEvent`, `AcceptEvent`), `Wake`, `Timeout` and
`EndBatch` with the flushes, and the environment: the USB host, the driver's
frame queue, which drops a frame when it is full (`SendFrame`), the controller,
the link and the clock.

**Run.** `linux_bridge`: a socket with room for one packet, so that reports are
blocked as often as sent; a queue of two chunks of which one is fresh; four
operations and two sessions. `HostReports` holds a report for each path,
with two states of the rest, and one that sets volumes alone, the speaker's and
the microphone's; the theorems hold for any set of reports. `Scenarios` lists the kinds of traffic one behaviour mixes: those that meet
in the same fields of the port, host reports, a stream and a headset that is
plugged and unplugged among them.

`NewestStateKept` says that the newest host state is what the controller was told
or is pending. `RouteFollowsHeadset` says that while sound plays, the remembered
path, the state every audio packet carries, and the last state report sent or
pending all name the headset if one is plugged and the speaker if not, whatever
the host asks for. `NoStaleAudio` says that no audio of a closed stream is queued,
unless the driver dropped a setting of the interface (`untold`), of which the
daemon then never hears. `RequestRemembered` says that no feature request is
forgotten that the controller has still to answer.

The model also shows that the report after a press of the mute button is lost
when the socket is full (`vdsd.cc:1144` ignores the result), so that the mute
LED is wrong until a later report. Switching the test tone off clears
`audio_out_stream_active` although the host's stream may be open (872). With a
state report that the socket does not take, queued audio makes the poll timeout
0 (1699); the loop still passes through `epoll_wait`.

## 9. The Linux supervisor: `VdsdLinux`

`ports` and `ctl` are the two tables of `main`, by index; `reg` is what the
epoll set watches under those indices, `batch` the events of one wake-up, taken
in any order. A reload is one step of the loop, as is the rebuild of the epoll
set; it may fail before, within or after `sync_virtual_ports` and is then given
up as the code does. Accepting takes one connection at a time, so links may
break between two. The world is `vdsctl`, the controllers with their two
channels and connection numbers, and the driver's endpoints; the daemon may be
stopped or killed and started again (`Stop`, `Crash`, `Start`). Loops over a
table whose rounds do not disturb each other (the flush, the carry-over of a
reload) are written as one function of the table; for the carry-over that rests
on the addresses of a database being distinct, which `parse_config_db` enforces
(`vds_config.cc:119`, `Distinct`) and attach keeps.

**Run.** `linux_supervisor`: two controllers, two endpoints, attach requests
that pin an endpoint, name both and change the profile, or name one twice, and four events (`MaxEvents`:
connections made or lost, commands, endpoints added or removed, failures, ends
of the daemon): one session with three disturbances, or two sessions with two.
At most one data event shares a batch with the others (`MaxTraffic`); a data
event matters only by being handled for the right index.

Known limits of the claims: `EpollFollowsTables` (its `EventNamesController` for
ports only) and `TablesInForce` are claimed after a reload that went through;
one that fails at the database has already moved the ports and does not set
`epoll_dirty`. The model has these behaviours too, and no property excludes
them: `sync_virtual_ports` moves the ports it keeps before it opens the new ones
(`vdsd.cc:1441`), so a failed open leaves moved-from ports, and the next rebuild
of the epoll set ends the daemon; an endpoint removed and added again between
two reloads is matched by its path and keeps the dead handle (1430); a
controller that reconnects before the hang-up of its old link is handled is
turned away (1581), and a hang-up behind an accept in one batch drops the new
session; the first channel of a half-open controller holds its port until the
second comes (1622); attach validates every entry of the database, so a missing
endpoint of one controller refuses another (`vds_config.cc:376`).

CHECK_DEADLOCK is on in `win_supervisor` and `linux_bridge`. It is off in
`win_usb` and `linux_supervisor`, where the bounds on outside events leave a
driver or a stopped daemon with nothing to do. `linux_bridge` and
`linux_supervisor` check safety only: what would have to happen there rests on
the host, the controller or the link.

## 10. Proofs

`Lists_proofs` states what the list surgery keeps: which elements `Splice`,
`RemoveAt`, `Unlisted`, `InListOrder` and the sequence operators leave, where
they put them, and that they introduce no duplicates.

`VdsHcd_proofs` proves, for any number of URBs and reports and any bounds:

* `Typing`: `TypeOK`;
* `ListsAgree`: `ListsMatchStates`;
* `WaitersServed`: `NothingLeftBehind`, from `InputReachesHost`
  (`InputNotStranded`) and `FeatureGetsRemembered` (`NoOrphanedFeatureGet`);
* `DeferredBeforeSeen`: `QueuedBeforeSeen`;
* `CompletionsOrdered`: `CompletedOrdered`, where `UnlinkMidSubmit` is FALSE;
* `ContextsValid`: `NoStaleContext`, where `UnlinkMidSubmit` is FALSE, along the
  behaviours in which `FramesFit` always holds;
* `InputMonotonic`: the action property `InputNeverGoesBack`, where `HidInDepth`
  is at most 1.

The types and `QueuedBeforeSeen` are proved for every instance, so no run
repeats them.

All rest on `Invariance`, that `IInv` is inductive. `ListsMatchStates` is
inductive only together with `NotStarted` (a fresh submission is nowhere) and
the types; `QueuedBeforeSeen` and `NoOrphanedFeatureGet` need
`OnlyGetsDeferred`, which ties the position of the submitting thread to its
context's state. The assumptions are the ones in `VdsHcd`: finitely many URBs,
known kinds, null values that are no members, natural bounds.

The last three need more. `CompletedOrdered` compares ready times of listed
entries, so no step may give a listed entry a new one, except an unlink, which
zeroes it. `SubmitterOwns` excludes it (a context has a ready time only once its
submitter has given it away), and `SortedButUnlinked` is the order that remains
inductive, since it says what an unlink may leave out of place; `InsertSorted`
is the step for `vds_queue_urb_giveback_locked`. If an unlink may overtake
`vds_urb_enqueue` (`UnlinkMidSubmit`), `ScheduleIso` can set the ready time of an
entry that is already listed and the order is lost, so the hypothesis is needed.
`ContextsValid` says that the two races of section 3 are the only ways to a stale
context: without an unlink in the gap, and without a FEATURE_GET frame refused
by a full queue (`FramesFit`), the submitter owns its context whenever it uses
it (`SubmitterOwns`, `QueuesOwn`). `FramesFit` is a hypothesis on the daemon's
pace; the code does not ensure it. `InputMonotonic` rests on `InputsInOrder`: one
URB in flight, whose report lies between the last one delivered and the buffered
one.

`VdsPort_proofs` proves, for any set of openers and profiles, any queue limit
and any frame and URB sizes:

* `PortTyping`: `TypeOK`;
* `HostCurrent`: `HostInformed`, from `HotPlugSeen` (`ChangeReachesHub`) and
  `ProfileKnown` (`HostKnowsProfile`), and `StatusHonest`:
  `StatusCoversDevice`, with closes that overlap an open or not;
* `MicRight`: `MicFaithful`, from `MicBounded` (`MicBacklog`) and `MicOrdered`
  (`MicInOrder`);
* `DeviceStands`: `DeviceKept`, that is `OpenerKeepsPort` and
  `ConfigurationKept` for an opener whose open met no close.

They rest on `PortInvariant`, that `PortInv` and `AudioInv` are inductive
together. `HostKnowsProfile` needs that connections are numbered upwards and the
host knows no later one (`ConnectionsNumbered`), so that a new connection is
never the one it knows; that a host without a device has no profile
(`HubHasDevice`); and that the CONNECTED flag, which `VDS_IOC_SET_PROFILE`
tests, agrees with the port's bit (`FlagIsBit`). `StatusCoversDevice` speaks of
quiet moments only; `StateCovered` says for every moment who is about to make it
true, the flag, the request or the reset, and `RequestKnows` that a request
about to clear a flag has cleared the device's state. In `AudioInv` the count is
exact at every iteration, not only when the lock is free, and the queue is
ordered as a whole, not only from one packet to the next: the lemmas
`OrderedTail`, `OrderedAppend` and `OrderedRead` follow a queue through a drop,
a new frame and a read. `HandOverInv` says in `FilesHeld` what holds whatever
overlapped: one file at a time is not being released, and what is plugged in is
held or about to be unplugged. So an open that meets no close finds the port as
an earlier history without overlap would have left it, and `HandedOver` holds
from there: one opener is anywhere in the driver (`OneOpener`), what it plugged
in stands (`WantedIsPlugged`) and a reset finds the device unplugged
(`ResetIsUnplugged`).

`VdsUsbip_proofs` proves, for any number of requests, import sessions, reports
and socket values:

* `Typing`: `TypeOK`;
* `PacerOrdered`: `PacedInOrder`, from `PacerSorted` (`PacedSorted`) and
  `RealTime` (`PacedAtRealTime`);
* `MessagesWhole`: `TornOnlyByLeftover`; `NewestInput`: `NewestInputKept`;
* `AnswersPaired`: `PairedUnlessLate` (`AnswersReportAsked` itself does not hold,
  see section 5);
* `UnlinkSilences`: the action property `SilentAfterUnlink`.

`PacedSorted` compares the due times of queued requests, so a step that gave a
queued request a new due time would break it. The invariant `IInv` adds what
excludes that: `OnePlace` (a request is unsent, unread in the socket, in
`handle_cmd_submit`, or already handed to the pacer, and in one of these only)
and `ReadOnce` (the socket holds it once). The heart of the step is
`EmplaceSorted`: insertion behind every entry due no later (`PaceSlot`) keeps
the queue sorted.

`PacedAtRealTime` speaks of requests that have left the queue, so `IInv` follows
them over the connections: `SessionOrder` (a connection's requests are read and
handled before the next is made), `PacerHolds` (the pacer's hand holds only what
is due), `NoneLost` (while a connection lives each of its paced replies is sent,
held or queued, and the anchors lie past them), `Spaced` and `InOrder`. An
earlier form of the property claimed the order of submission on every
connection; its proof failed at `PacerSend` after a reconnect, where TLC then
showed the counterexample with two connections.

`NewestInputKept` needs that the frames in the pipe are stamped in the order
they were written (`InputsStamped`, which counts the frames behind each).
`SilentAfterUnlink` needs that an unlink never overtakes its submission
(`UnlinkFollows`, `AckedHandled`). `TornOnlyByLeftover` needs `SessionOrder`: a
connection has no paced reply of its own before its import has been answered, so
the pacer can only hold one of an earlier connection then. `PairedUnlessLate`
rests on there being, as long as no wait ended too early, one request under way: asked, answered in the pipe, or in `feature_reply_queue`,
always for the thread that waits, and none when nobody waits (`AwaitedMatch`,
`NothingLate`, `AnswersSent`).

`WinSupervisor_proofs` proves, for any device stacks, controllers, ports and
worker failures:

* `Typing`: `TypeOK` of the driver and the supervisor;
* `Exclusive`: `WorkersExclusive`, which with the types is inductive: `Launch`
  sees every worker that has not been joined, through `HasWorker` and `Reserved`;
* `TransportsAgree`: the ports chosen and bound do not depend on the transport,
  because a bound port has a worker and the launch leaves out every worker's;
* `ChangeNeverMissed`: `NoMissedChange`. The list, its generation and the wait
  queue change in different lock sections, so the invariant `ChangeInv` says
  what holds in the gaps: a snapshot of the current generation is the current
  list unless a stack is between its list section and its bump, and a queued
  wait is of the current generation unless a stack is between its bump and its
  drain. It is proved as `[](DriverStays => ...)` along a behaviour in which the
  driver is not unloaded; unloading is the one step that breaks it.

`WinUsb_proofs` proves, for any handles, profiles, URBs and ring sizes:

* `Typing`: `TypeOK`; `ControlRingFifo`: `RingIsFifo`; `MicrophoneFresh`:
  `MicIsFresh`. The invariants number the units of a ring and add that a write
  under way is of the session in force (`MicInv`). The work is in the lemmas on
  a ring that wraps: what a split copy leaves at each offset from the head.
* `NoWakeupLost`: `NoStrandedRead`.
* `UrbContractKept`: `GivenBackOnce`, the refinement of `UrbContract`. `UrbInv`
  counts, for each URB, completions and accepted frames by the place of the URB
  and of its thread; every step is then a step of the contract or a stutter.
* `PortServed`: `BoundPortServed`, with `BindInv` (whom a bind in progress is
  for). `SettingsReported`: `AltReported`, with `AltInv`: the daemon knows a
  setting, or its frame was lost, or the callback is still to say it; a bind,
  which starts a session that was told nothing, leaves it so.
* `NeverStuck`, the part of `SettlesClean` within the prover's reach: the driver
  is at rest or the guard of one of its steps, written out in `Ready`, holds. Its
  invariant `FlushInv` says that a timer is published only from its creation to
  its callback, and that the configure callback waits in `WdfTimerStop` only for
  a URB whose timer has expired or that is being completed or has been; the
  second is not inductive without the first, because the flush waits for the URB
  whose timer it finds published. So what the callback waits for has a step of
  its own, and so has the URB that keeps another one in its queue.

`VdsdBridge_proofs` proves, for any host reports, features, queue bounds and any
number of operations and sessions:

* `Typing`: `TypeOK`; `NewestKept`: `NewestStateKept`; `RouteCorrect`:
  `RouteFollowsHeadset`; `SoundFresh`: `NoStaleAudio`; `RequestsKept`:
  `RequestRemembered`.

The lemmas follow the code: what a send, a flush, each forward function and each
frame handler does to the handler's record, whether or not it throws. The
invariant `BridgeInv` relates that record to the world. `NoStaleAudio` alone is
not inductive, because an audio frame behind an interface frame is of a later
stream than the one the port knows: `TellsOf` says that the frames on their way
lead from the stream the port knows of to the one the host has, one frame at a
time. `Dropped` says what the end of a session leaves, from which the next one
starts.

`VdsdLinux_proofs` proves, for any controllers, profiles, attach requests and
databases, any finite set of endpoints and any bounds:

* `Typing`: `TypeOK`; `PortsExclusive`: `PortExclusive`; `UsbOfSession`:
  `UsbFollowsSession`;
* `EpollCurrent`: `EpollFollowsTables`, from `SessionsWatched` and `EventsNamed`
  (`SessionWatched`, `EventNamesController`);
* `TablesCurrent`: `TablesInForce`, from `ConfigsInForce` and
  `AllEndpointsTracked` (`ConfigInForce`, `EndpointsTracked`);
* `SessionsContinue`: the action property `ReloadKeepsSessions`.

The argument has two levels. `Consistent` is about one record of the daemon's
tables, and each C++ function has a lemma that it keeps `Consistent` and says
what else it leaves alone (`Edit`: the ports, who the controllers are, and that
a session begun makes the epoll set dirty). `Consistent` strengthens
`PortExclusive` and `UsbFollowsSession` with `Sound` (whoever holds a port has
one its config allows, a session has no half-open channel), with paths opened
once, and with virtual USB devices only on drivers that run. `IInv` then ties
the tables to the loop: `Watches` (a clean epoll set matches the tables),
`Configured` and `Tracked` (so does the database, and so do the endpoints,
until a reload is asked for), and `Attended`: a reload finds every session on
an open port, because the flush at the end of each iteration let go of the
others. Without `Attended` a reload could open a port under a session that is
not plugged in, and `UsbFollowsSession` would not be inductive. The assumptions
are those of `VdsdLinux`, the distinct addresses of a database included.

Only model-checked: the liveness properties, and of `SettlesClean` that the
guards in `Ready` are the ones under which a step can be taken (`Ready =>
ENABLED DriverStep`), which are outside the prover's reach. Every other property
of a passing run is stated by a theorem.

## 11. Not modelled

Byte contents of reports, descriptors and PCM, CRC and sample arithmetic;
logging, tracing and statistics; BlueZ over D-Bus, the file lock and the text of
the configuration file; `vdsctl`, the installer, the launcher and the tray
application (sequential I/O or user interface).

Of the modelled parts: port power, bus suspend and resume, probe and remove of
the HCD; address, idle rate, volume, mute and the audio IN setting of its USB
device; the microphone ring of the USB/IP port; the threads
inside a Windows bridge session; `VdsEvtEndpointStart` and
`VdsEvtEndpointPurge`, which the Windows driver never registers, and its release
delay, a constant 0. In `VdsdLinux` the removal of an endpoint stops it
and takes its device node away in one step, an attach of an address that is not
paired and the list and trace commands change no modelled state, and the log is
not reopened. In `WinUsb` closing an unbound handle and writing to an unbound
port do nothing.
