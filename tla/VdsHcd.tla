------------------------------- MODULE VdsHcd -------------------------------
(***************************************************************************)
(* The URB engine of the virtual USB host controller of vds                *)
(* (module/vds_hcd_core.c, with the feature-report path of                 *)
(* module/vds_usb_core.c).                                                 *)
(*                                                                         *)
(* Four kinds of threads meet here, serialised only by dev->lock and by    *)
(* usb.lock, both of which are dropped several times inside one call:      *)
(*   - host drivers, each submitting URBs through vds_urb_enqueue and      *)
(*     cancelling them through vds_urb_dequeue;                            *)
(*   - the giveback kthread, the only one that completes URBs;             *)
(*   - the daemon, which reads frames and writes input reports, feature    *)
(*     replies, and CONNECT / DISCONNECT / SET_PROFILE;                    *)
(*   - the clock, which matures the timed entries of completed_urbs.       *)
(* An action is one critical section of one of these threads.              *)
(*                                                                         *)
(* A URB stands for one submission: a driver that resubmits its URB gets a *)
(* new context from vds_urb_enqueue, hence a new element of Urbs.          *)
(***************************************************************************)
EXTENDS Naturals, FiniteSets, Lists

CONSTANTS
    Urbs,            \* submissions
    Kinds,           \* the kinds of request the host makes
    Reports,         \* feature report ids
    NoUrb,           \* no URB in the hands of the giveback thread
    NoReport,        \* no feature reply half written
    EventMax,        \* bound of the frame queue (16384 in vds_enqueue_frame)
    IsoTicks,        \* duration of the PCM of one ISO URB
    HidTicks,        \* profile->hid_in_interval_us
    HidInDepth,      \* HID IN URBs the host driver keeps in flight
    UnlinkMidSubmit, \* may vds_urb_dequeue overtake vds_urb_enqueue?
    MaxTime,         \* bound: the clock runs freely up to this tick
    MaxWrites,       \* bound: input reports written by the daemon
    MaxConn          \* bound: CONNECT ioctls

AllKinds == {"getFeature", "setFeature", "setInterface", "ctlNow",
             "hidIn", "hidOut", "isoOut", "isoIn"}

ASSUME UrbsFinite == IsFiniteSet(Urbs)
ASSUME KindsKnown == Kinds \subseteq AllKinds
ASSUME NoneDistinct == NoUrb \notin Urbs /\ NoReport \notin Reports
ASSUME BoundsNat ==
    /\ EventMax \in Nat /\ HidInDepth \in Nat
    /\ IsoTicks \in Nat \ {0} /\ HidTicks \in Nat \ {0}
    /\ MaxTime \in Nat /\ MaxWrites \in Nat /\ MaxConn \in Nat
ASSUME UnlinkBoolean == UnlinkMidSubmit \in BOOLEAN

VARIABLES
    (* The submission u and the thread that runs vds_urb_enqueue for it.   *)
    kind,       \* what is requested
    rid,        \* feature report asked for
    pc,         \* where the submitting thread is
    ret,        \* the status it will pass to vds_queue_urb_giveback
    data,       \* stamp of the input report copied into the URB (0: none)
    unlinked,   \* usb_hcd_check_unlink_urb has accepted an unlink
    (* struct vds_urb_context.                                             *)
    cstate,     \* context->state; "none" before, "freed" after its life
    status,     \* context->status
    ready,      \* context->ready_time, 0 when untimed
    (* struct vds_hcd_dev.                                                 *)
    stopping, connected,
    events,     \* frames for the daemon, each named by the URB it is about
    hidPending, featPending, completed,   \* the three context lists
    input,      \* stamp of the buffered input report (0: input_packets empty)
    nextIsoOut, nextIsoIn, nextHid,       \* next_*_ready
    cache,      \* reports with feature_cache_len # 0
    (* The giveback thread.                                                *)
    gb,         \* the URB being given back
    gbPc,       \* "deliver" or "giveback"
    gbWake,     \* expiry of schedule_hrtimeout_range_clock, 0 when awake
    (* The daemon, between two critical sections of one system call.       *)
    replying,   \* report of a reply that is cached but not yet delivered
    resetting,  \* vds_set_connection(false) before vds_usb_device_reset_state
    (* The clock, the bounds, and history.                                 *)
    now, stamp, conns,
    asked,      \* URBs whose FEATURE_GET frame the daemon has read
    lastIn,     \* stamp of the newest input report the host has received
    corrupt     \* a context was used after kfree, or put on a second list

urbVars == <<kind, rid, pc, ret, data, unlinked>>
ctxVars == <<cstate, status, ready>>
listVars == <<hidPending, featPending, completed>>
timeVars == <<nextIsoOut, nextIsoIn, nextHid>>
gbVars == <<gb, gbPc, gbWake>>
daemonVars == <<replying, resetting, stamp, conns, asked>>
vars == <<urbVars, ctxVars, listVars, timeVars, gbVars, daemonVars,
          stopping, connected, events, input, cache, now, lastIn, corrupt>>

(* -ESTATUS values the properties tell apart; "unlink" is the status the   *)
(* USB core passes to vds_urb_dequeue.                                     *)
Statuses == {"ok", "ENOSPC", "ESHUTDOWN", "EINVAL", "EPIPE", "unlink"}

ContextStates == {"none", "ACTIVE", "PENDING_HID_IN", "PENDING_FEATURE_GET",
                  "PENDING_GIVEBACK", "GIVING_BACK", "freed"}

(* The URB is on its endpoint's list, and urb->hcpriv is its context.      *)
Linked(u) == cstate[u] \in {"ACTIVE", "PENDING_HID_IN",
                            "PENDING_FEATURE_GET", "PENDING_GIVEBACK"}

-----------------------------------------------------------------------------
(* completed_urbs and time.                                                *)

(* Mutant: every completion goes to the tail.                              *)
IsSlotTail(rd, t, i) == i = Len(completed) + 1

(* i is where vds_queue_urb_giveback_locked inserts a context due at t     *)
(* (0: untimed): before the first entry due after t.  rd is ready_time.    *)
IsSlot(rd, t, i) ==
    /\ \A j \in 1 .. i - 1 : rd[completed[j]] <= t
    /\ i <= Len(completed) => rd[completed[i]] > t

(* The list surgery of vds_queue_urb_giveback_locked for the contexts s.   *)
AddCompleted(s, t, rd) ==
    \E i \in 1 .. Len(completed) + 1 :
        /\ IsSlot(rd, t, i)
        /\ completed' = Splice(completed, i, s)

Later(t) == IF t > now THEN t ELSE now

-----------------------------------------------------------------------------
(* Frames for the daemon: vds_enqueue_frame.                               *)

FrameRefused == stopping \/ Len(events) >= EventMax
FrameError == IF stopping THEN "ESHUTDOWN" ELSE "ENOSPC"

(* A frame sent with the result ignored.                                   *)
SendBestEffort(u) ==
    events' = IF FrameRefused THEN events ELSE Append(events, u)

-----------------------------------------------------------------------------
(* vds_urb_enqueue.                                                        *)

Init ==
    /\ kind = [u \in Urbs |-> "ctlNow"]
    /\ rid = [u \in Urbs |-> NoReport]
    /\ pc = [u \in Urbs |-> "idle"]
    /\ ret = [u \in Urbs |-> "ok"]
    /\ data = [u \in Urbs |-> 0]
    /\ unlinked = [u \in Urbs |-> FALSE]
    /\ cstate = [u \in Urbs |-> "none"]
    /\ status = [u \in Urbs |-> "ok"]
    /\ ready = [u \in Urbs |-> 0]
    /\ stopping = FALSE /\ connected = FALSE
    /\ events = <<>> /\ hidPending = <<>> /\ featPending = <<>>
    /\ completed = <<>>
    /\ input = 0
    /\ nextIsoOut = 0 /\ nextIsoIn = 0 /\ nextHid = 0
    /\ cache = {}
    /\ gb = NoUrb /\ gbPc = "deliver" /\ gbWake = 0
    /\ replying = NoReport /\ resetting = FALSE
    /\ now = 1 /\ stamp = 0 /\ conns = 0
    /\ asked = {} /\ lastIn = 0
    /\ corrupt = FALSE

(* The thread submitting u is at l.  A corrupted kernel takes no step.     *)
At(u, l) == ~corrupt /\ pc[u] = l

(* The host submits only to a device it has enumerated, and keeps          *)
(* HidInDepth HID IN URBs in flight.                                       *)
HostMaySubmit(k) ==
    /\ conns > 0
    /\ k = "hidIn" => Cardinality({u \in Urbs : kind[u] = "hidIn" /\ pc[u] # "idle"
                                                /\ cstate[u] # "freed"})
                      < HidInDepth

(* A new ACTIVE context, linked to the endpoint; or, when stopping, the    *)
(* submission fails and leaves nothing behind.                             *)
Submit(u, k, r) ==
    /\ At(u, "idle") /\ HostMaySubmit(k)
    /\ k # "getFeature" => r = NoReport
    /\ k = "getFeature" => r # NoReport
    /\ pc' = [pc EXCEPT ![u] = IF stopping THEN "returned" ELSE "entered"]
    /\ cstate' = [cstate EXCEPT ![u] = IF stopping THEN "freed" ELSE "ACTIVE"]
    /\ kind' = [kind EXCEPT ![u] = k]
    /\ rid' = [rid EXCEPT ![u] = r]
    /\ UNCHANGED <<ret, data, unlinked, status, ready, listVars, timeVars,
                   gbVars, daemonVars, stopping, connected, events, input,
                   cache, now, lastIn, corrupt>>

(* Control, and the refused pipes: the request is served at once.          *)
AnswerNow(u, s) ==
    /\ At(u, "entered") /\ kind[u] = "ctlNow"
    /\ pc' = [pc EXCEPT ![u] = "queue"]
    /\ ret' = [ret EXCEPT ![u] = s]
    /\ UNCHANGED <<kind, rid, data, unlinked, ctxVars, listVars, timeVars,
                   gbVars, daemonVars, stopping, connected, events, input,
                   cache, now, lastIn, corrupt>>

(* GET_REPORT(feature): a hit in feature_cache is served at once, a miss   *)
(* goes on to vds_usb_defer_feature_get.                                   *)
GetFeature(u) ==
    /\ At(u, "entered") /\ kind[u] = "getFeature"
    /\ pc' = [pc EXCEPT ![u] = IF rid[u] \in cache THEN "queue" ELSE "defer"]
    /\ UNCHANGED <<kind, rid, ret, data, unlinked, ctxVars, listVars,
                   timeVars, gbVars, daemonVars, stopping, connected, events,
                   input, cache, now, lastIn, corrupt>>

(* vds_usb_defer_feature_get: the context goes on pending_feature_get.     *)
DeferFeatureGet(u) ==
    /\ At(u, "defer") /\ cstate[u] = "ACTIVE" /\ ~stopping
    /\ pc' = [pc EXCEPT ![u] = "frame"]
    /\ cstate' = [cstate EXCEPT ![u] = "PENDING_FEATURE_GET"]
    /\ featPending' = Append(featPending, u)
    /\ UNCHANGED <<kind, rid, ret, data, unlinked, status, ready, hidPending,
                   completed, timeVars, gbVars, daemonVars, stopping,
                   connected, events, input, cache, now, lastIn, corrupt>>

(* It refuses when urb->hcpriv is already NULL, or when stopping.          *)
DeferRefused(u) ==
    /\ At(u, "defer")
    /\ ~Linked(u) \/ stopping
    /\ pc' = [pc EXCEPT ![u] = "queue"]
    /\ ret' = [ret EXCEPT ![u] = IF ~Linked(u) THEN "EINVAL" ELSE "ESHUTDOWN"]
    /\ UNCHANGED <<kind, rid, data, unlinked, ctxVars, listVars, timeVars,
                   gbVars, daemonVars, stopping, connected, events, input,
                   cache, now, lastIn, corrupt>>

(* The FEATURE_GET frame for a deferred URB.  When it is queued            *)
(* vds_urb_enqueue returns with the URB pending; when it is refused, the   *)
(* error goes to vds_queue_urb_giveback.                                   *)
FrameFeatureGet(u) ==
    /\ At(u, "frame")
    /\ IF FrameRefused
       THEN /\ pc' = [pc EXCEPT ![u] = "queue"]
            /\ ret' = [ret EXCEPT ![u] = FrameError]
            /\ UNCHANGED events
       ELSE /\ pc' = [pc EXCEPT ![u] = "returned"]
            /\ events' = Append(events, u)
            /\ UNCHANGED ret
    /\ UNCHANGED <<kind, rid, data, unlinked, ctxVars, listVars, timeVars,
                   gbVars, daemonVars, stopping, connected, input, cache,
                   now, lastIn, corrupt>>

(* Mutant: a full frame queue holds the host's request back.               *)
SendFrameBackpressure(u) ==
    /\ At(u, "entered") /\ kind[u] \in {"setFeature", "setInterface", "hidOut"}
    /\ ~FrameRefused
    /\ pc' = [pc EXCEPT ![u] = "queue"]
    /\ SendBestEffort(u)
    /\ UNCHANGED <<kind, rid, ret, data, unlinked, ctxVars, listVars, timeVars,
                   gbVars, daemonVars, stopping, connected, input, cache,
                   now, lastIn, corrupt>>

(* SET_REPORT(feature) reports a refused frame to the host; SET_INTERFACE  *)
(* and interrupt OUT ignore it.                                            *)
SendFrame(u) ==
    /\ At(u, "entered") /\ kind[u] \in {"setFeature", "setInterface", "hidOut"}
    /\ pc' = [pc EXCEPT ![u] = "queue"]
    /\ SendBestEffort(u)
    /\ ret' = [ret EXCEPT ![u] =
                 IF kind[u] = "setFeature" /\ FrameRefused THEN FrameError
                                                           ELSE "ok"]
    /\ UNCHANGED <<kind, rid, data, unlinked, ctxVars, listVars, timeVars,
                   gbVars, daemonVars, stopping, connected, input, cache,
                   now, lastIn, corrupt>>

(* vds_schedule_hid_in_giveback_locked for u.                              *)
ScheduleHidIn(u) ==
    LET t == Later(nextHid) + HidTicks
    IN  ready' = [ready EXCEPT ![u] = t] /\ nextHid' = t

(* vds_interrupt_in_urb with a buffered report: it is popped into the URB, *)
(* which is queued by a later critical section.                            *)
HidInTake(u) ==
    /\ At(u, "entered") /\ kind[u] = "hidIn" /\ input # 0
    /\ cstate[u] # "freed"
    /\ pc' = [pc EXCEPT ![u] = "queue"]
    /\ data' = [data EXCEPT ![u] = input]
    /\ input' = 0
    /\ ScheduleHidIn(u)
    /\ UNCHANGED <<kind, rid, ret, unlinked, cstate, status, listVars,
                   nextIsoOut, nextIsoIn, gbVars, daemonVars, stopping,
                   connected, events, cache, now, lastIn, corrupt>>

(* Mutant: the URB waits although a report is buffered.                    *)
HidInWaitAlways(u) ==
    /\ At(u, "entered") /\ kind[u] = "hidIn" /\ cstate[u] = "ACTIVE"
    /\ pc' = [pc EXCEPT ![u] = "returned"]
    /\ cstate' = [cstate EXCEPT ![u] = "PENDING_HID_IN"]
    /\ hidPending' = Append(hidPending, u)
    /\ UNCHANGED <<kind, rid, ret, data, unlinked, status, ready, featPending,
                   completed, timeVars, gbVars, daemonVars, stopping,
                   connected, events, input, cache, now, lastIn, corrupt>>

(* vds_interrupt_in_urb without one: the context goes on pending_hid_in.   *)
HidInWait(u) ==
    /\ At(u, "entered") /\ kind[u] = "hidIn" /\ input = 0
    /\ cstate[u] = "ACTIVE"
    /\ pc' = [pc EXCEPT ![u] = "returned"]
    /\ cstate' = [cstate EXCEPT ![u] = "PENDING_HID_IN"]
    /\ hidPending' = Append(hidPending, u)
    /\ UNCHANGED <<kind, rid, ret, data, unlinked, status, ready, featPending,
                   completed, timeVars, gbVars, daemonVars, stopping,
                   connected, events, input, cache, now, lastIn, corrupt>>

(* vds_schedule_iso_giveback: the URB is due one PCM duration after its    *)
(* predecessor on the same pipe.                                           *)
ScheduleIso(u) ==
    /\ At(u, "entered") /\ kind[u] \in {"isoOut", "isoIn"}
    /\ cstate[u] # "freed"
    /\ pc' = [pc EXCEPT ![u] = "queue"]
    /\ \/ /\ kind[u] = "isoOut"
          /\ ready' = [ready EXCEPT ![u] = Later(nextIsoOut) + IsoTicks]
          /\ nextIsoOut' = Later(nextIsoOut) + IsoTicks
          /\ UNCHANGED nextIsoIn
       \/ /\ kind[u] = "isoIn"
          /\ ready' = [ready EXCEPT ![u] = Later(nextIsoIn) + IsoTicks]
          /\ nextIsoIn' = Later(nextIsoIn) + IsoTicks
          /\ UNCHANGED nextIsoOut
    /\ UNCHANGED <<kind, rid, ret, data, unlinked, cstate, status, listVars,
                   nextHid, gbVars, daemonVars, stopping, connected, events,
                   input, cache, now, lastIn, corrupt>>

(* vds_queue_urb_giveback, the last call of vds_urb_enqueue: a context     *)
(* that is ACTIVE, or deferred and not yet answered, goes on               *)
(* completed_urbs; one that is already there is left alone.                *)
QueueGiveback(u) ==
    /\ At(u, "queue") /\ cstate[u] # "freed"
    /\ pc' = [pc EXCEPT ![u] = "returned"]
    /\ \/ /\ cstate[u] \in {"ACTIVE", "PENDING_FEATURE_GET"}
          /\ cstate' = [cstate EXCEPT ![u] = "PENDING_GIVEBACK"]
          /\ status' = [status EXCEPT ![u] = ret[u]]
          /\ featPending' \in Unlisted(featPending, u)
          /\ AddCompleted(<<u>>, ready[u], ready)
       \/ /\ cstate[u] \in {"PENDING_GIVEBACK", "GIVING_BACK"}
          /\ UNCHANGED <<cstate, status, featPending, completed>>
    /\ UNCHANGED <<kind, rid, ret, data, unlinked, ready, hidPending,
                   timeVars, gbVars, daemonVars, stopping, connected, events,
                   input, cache, now, lastIn, corrupt>>

(* The submitting thread reaches for a context it no longer owns: one that *)
(* the giveback thread has freed, or one that is already on a list (or is  *)
(* about to be freed) when it is added to a pending list.                  *)
UsesStaleContext(u) ==
    \/ pc[u] = "queue" /\ cstate[u] = "freed"
    \/ pc[u] = "defer" /\ cstate[u] = "PENDING_GIVEBACK" /\ ~stopping
    \/ /\ pc[u] = "entered" /\ kind[u] = "hidIn"
       /\ IF input = 0 THEN cstate[u] # "ACTIVE" ELSE cstate[u] = "freed"
    \/ /\ pc[u] = "entered" /\ kind[u] \in {"isoOut", "isoIn"}
       /\ cstate[u] = "freed"

(* Undefined behaviour: nothing that follows is modelled.                  *)
StaleContext(u) ==
    /\ ~corrupt /\ UsesStaleContext(u)
    /\ corrupt' = TRUE
    /\ UNCHANGED <<urbVars, ctxVars, listVars, timeVars, gbVars, daemonVars,
                   stopping, connected, events, input, cache, now, lastIn>>

-----------------------------------------------------------------------------
(* Mutant: only a queued context is touched.                               *)
UnlinkQueuedOnly(u) ==
    /\ ~corrupt /\ Linked(u) /\ ~unlinked[u]
    /\ UnlinkMidSubmit \/ pc[u] = "returned"
    /\ unlinked' = [unlinked EXCEPT ![u] = TRUE]
    /\ status' = [status EXCEPT ![u] = "unlink"]
    /\ ready' = [ready EXCEPT ![u] = 0]
    /\ UNCHANGED <<kind, rid, pc, ret, data, cstate, listVars, timeVars,
                   gbVars, daemonVars, stopping, connected, events, input,
                   cache, now, lastIn, corrupt>>

(* vds_urb_dequeue: the USB core unlinks u.  A context waiting for its     *)
(* giveback keeps its place in the list and loses its ready time; any      *)
(* other goes on completed_urbs.                                           *)
Unlink(u) ==
    /\ ~corrupt /\ Linked(u) /\ ~unlinked[u]
    /\ UnlinkMidSubmit \/ pc[u] = "returned"
    /\ unlinked' = [unlinked EXCEPT ![u] = TRUE]
    /\ status' = [status EXCEPT ![u] = "unlink"]
    /\ \/ /\ cstate[u] = "PENDING_GIVEBACK"
          /\ ready' = [ready EXCEPT ![u] = 0]
          /\ UNCHANGED <<cstate, listVars>>
       \/ /\ cstate[u] # "PENDING_GIVEBACK"
          /\ cstate' = [cstate EXCEPT ![u] = "PENDING_GIVEBACK"]
          /\ hidPending' \in Unlisted(hidPending, u)
          /\ featPending' \in Unlisted(featPending, u)
          /\ AddCompleted(<<u>>, ready[u], ready)
          /\ UNCHANGED ready
    /\ UNCHANGED <<kind, rid, pc, ret, data, timeVars, gbVars, daemonVars,
                   stopping, connected, events, input, cache, now, lastIn,
                   corrupt>>

-----------------------------------------------------------------------------
(* vds_giveback_thread.                                                    *)

GbIdle == ~corrupt /\ gb = NoUrb /\ gbWake = 0
GbBusy == ~corrupt /\ gb # NoUrb

(* The head is not due: sleep until it is.  The thread is then on no wait  *)
(* queue, so wake_up_interruptible(&dev->giveback_wq) does not reach it.   *)
GbSleep ==
    /\ GbIdle /\ completed # <<>> /\ ready[Head(completed)] > now
    /\ gbWake' = ready[Head(completed)]
    /\ UNCHANGED <<urbVars, ctxVars, listVars, timeVars, gb, gbPc, daemonVars,
                   stopping, connected, events, input, cache, now, lastIn,
                   corrupt>>

GbWakeUp ==
    /\ ~corrupt /\ gbWake # 0 /\ now >= gbWake
    /\ gbWake' = 0
    /\ UNCHANGED <<urbVars, ctxVars, listVars, timeVars, gb, gbPc, daemonVars,
                   stopping, connected, events, input, cache, now, lastIn,
                   corrupt>>

(* The head is due: unlink it from the endpoint and from the list.         *)
GbTake ==
    /\ GbIdle /\ completed # <<>> /\ ready[Head(completed)] <= now
    /\ gb' = Head(completed) /\ gbPc' = "deliver"
    /\ completed' = Tail(completed)
    /\ cstate' = [cstate EXCEPT ![Head(completed)] = "GIVING_BACK"]
    /\ UNCHANGED <<urbVars, status, ready, hidPending, featPending, timeVars,
                   gbWake, daemonVars, stopping, connected, events, input,
                   cache, now, lastIn, corrupt>>

(* vds_iso_out_urb: the PCM of a successful ISO OUT URB becomes a frame,   *)
(* dropped when the queue is full.                                         *)
DeliversIsoOut == kind[gb] = "isoOut" /\ status[gb] = "ok"
GbDeliver ==
    /\ GbBusy /\ gbPc = "deliver" /\ DeliversIsoOut
    /\ gbPc' = "giveback"
    /\ SendBestEffort(gb)
    /\ UNCHANGED <<urbVars, ctxVars, listVars, timeVars, gb, gbWake,
                   daemonVars, stopping, connected, input, cache, now, lastIn,
                   corrupt>>

(* usb_hcd_giveback_urb and kfree.  A HID IN URB completed without error   *)
(* hands its report to the host.                                           *)
GbGiveback ==
    /\ GbBusy
    /\ gbPc = "giveback" \/ ~DeliversIsoOut
    /\ gb' = NoUrb
    /\ cstate' = [cstate EXCEPT ![gb] = "freed"]
    /\ lastIn' = IF kind[gb] = "hidIn" /\ status[gb] = "ok" THEN data[gb]
                                                            ELSE lastIn
    /\ UNCHANGED <<urbVars, status, ready, listVars, timeVars, gbPc, gbWake,
                   daemonVars, stopping, connected, events, input, cache, now,
                   corrupt>>

-----------------------------------------------------------------------------
(* The daemon's system calls on /dev/vdsN.  It is one thread, so none      *)
(* starts while another is between its critical sections.                  *)

DaemonIdle == ~corrupt /\ replying = NoReport /\ ~resetting

(* vds_read.                                                               *)
ReadFrame ==
    /\ DaemonIdle /\ events # <<>>
    /\ events' = Tail(events)
    /\ asked' = IF kind[Head(events)] = "getFeature"
                THEN asked \cup {Head(events)} ELSE asked
    /\ UNCHANGED <<urbVars, ctxVars, listVars, timeVars, gbVars, replying,
                   resetting, stamp, conns, stopping, connected, input, cache,
                   now, lastIn, corrupt>>

(* vds_write_input_frame: the oldest waiting HID IN URB takes the report;  *)
(* when there is none the report replaces the buffered one.                *)
WriteInput ==
    /\ DaemonIdle /\ ~stopping /\ stamp < MaxWrites
    /\ stamp' = stamp + 1
    /\ \/ /\ hidPending # <<>>
          /\ LET u == Head(hidPending)
             IN  /\ data' = [data EXCEPT ![u] = stamp']
                 /\ ScheduleHidIn(u)
                 /\ cstate' = [cstate EXCEPT ![u] = "PENDING_GIVEBACK"]
                 /\ status' = [status EXCEPT ![u] = "ok"]
                 /\ AddCompleted(<<u>>, ready'[u], ready)
          /\ hidPending' = Tail(hidPending)
          /\ UNCHANGED input
       \/ /\ hidPending = <<>>
          /\ input' = stamp'
          /\ UNCHANGED <<data, ready, nextHid, cstate, status, hidPending,
                         completed>>
    /\ UNCHANGED <<kind, rid, pc, ret, unlinked, featPending, nextIsoOut,
                   nextIsoIn, gbVars, replying, resetting, conns, asked,
                   stopping, connected, events, cache, now, lastIn, corrupt>>

(* vds_write_feature_reply, under usb.lock: the reply is cached.           *)
CacheReply(r) ==
    /\ DaemonIdle /\ ~stopping
    /\ cache' = cache \cup {r}
    /\ replying' = r
    /\ UNCHANGED <<urbVars, ctxVars, listVars, timeVars, gbVars, resetting,
                   stamp, conns, asked, stopping, connected, events, input,
                   now, lastIn, corrupt>>

(* Mutant: one reply answers one GET.                                      *)
AnsweredFirst == {u \in ToSet(featPending) :
                    rid[u] = replying /\ u = Head(featPending)}

(* The deferred GETs a reply answers: every one of its report.             *)
Answered == {u \in ToSet(featPending) : rid[u] = replying}

(* vds_complete_pending_feature_replies_locked.                            *)
DeliverReply ==
    /\ ~corrupt /\ replying # NoReport
    /\ replying' = NoReport
    /\ \/ /\ stopping
          /\ UNCHANGED <<featPending, cstate, status, completed>>
       \/ /\ ~stopping
          /\ LET S == Answered
             IN  /\ featPending' \in
                        InListOrder(ToSet(featPending) \ S, featPending)
                 /\ cstate' = [u \in Urbs |-> IF u \in S THEN "PENDING_GIVEBACK"
                                                         ELSE cstate[u]]
                 /\ status' = [u \in Urbs |-> IF u \in S THEN "ok"
                                                         ELSE status[u]]
                 /\ \E s \in InListOrder(S, featPending) :
                        AddCompleted(s, 0, ready)
    /\ UNCHANGED <<urbVars, ready, hidPending, timeVars, gbVars, resetting,
                   stamp, conns, asked, stopping, connected, events, input,
                   cache, now, lastIn, corrupt>>

(* VDS_IOC_SET_PROFILE: refused while connected; resets the USB state.     *)
SetProfile ==
    /\ DaemonIdle /\ ~stopping /\ ~connected /\ cache # {}
    /\ cache' = {}
    /\ UNCHANGED <<urbVars, ctxVars, listVars, timeVars, gbVars, daemonVars,
                   stopping, connected, events, input, now, lastIn, corrupt>>

(* VDS_IOC_CONNECT.                                                        *)
Connect ==
    /\ DaemonIdle /\ ~stopping /\ conns < MaxConn
    /\ connected' = TRUE
    /\ conns' = conns + 1
    /\ UNCHANGED <<urbVars, ctxVars, listVars, timeVars, gbVars, replying,
                   resetting, stamp, asked, stopping, events, input, cache,
                   now, lastIn, corrupt>>

(* Mutant: deferred feature GETs are not cancelled.                        *)
CancelPendingHidOnly(s) ==
    /\ hidPending' = <<>> /\ UNCHANGED featPending
    /\ cstate' = [u \in Urbs |-> IF u \in ToSet(hidPending)
                                  THEN "PENDING_GIVEBACK" ELSE cstate[u]]
    /\ status' = [u \in Urbs |-> IF u \in ToSet(hidPending) THEN s
                                                            ELSE status[u]]
    /\ AddCompleted(hidPending, 0, ready)

(* vds_cancel_pending_urbs_locked: both pending lists, in order, to        *)
(* completed_urbs.                                                         *)
CancelPending(s) ==
    LET q == hidPending \o featPending
    IN  /\ hidPending' = <<>> /\ featPending' = <<>>
        /\ cstate' = [u \in Urbs |-> IF u \in ToSet(q) THEN "PENDING_GIVEBACK"
                                                       ELSE cstate[u]]
        /\ status' = [u \in Urbs |-> IF u \in ToSet(q) THEN s ELSE status[u]]
        /\ AddCompleted(q, 0, ready)

(* vds_flush_buffered_frames_locked.                                       *)
FlushBuffered == events' = <<>> /\ input' = 0

(* VDS_IOC_DISCONNECT, under dev->lock ...                                 *)
Disconnect ==
    /\ DaemonIdle /\ ~stopping
    /\ connected' = FALSE
    /\ CancelPending("ESHUTDOWN")
    /\ FlushBuffered
    /\ nextIsoOut' = 0 /\ nextIsoIn' = 0 /\ nextHid' = 0
    /\ resetting' = TRUE
    /\ UNCHANGED <<urbVars, ready, gbVars, replying, stamp, conns, asked,
                   stopping, cache, now, lastIn, corrupt>>

(* ... and vds_usb_device_reset_state, after it is released.               *)
ResetUsb ==
    /\ ~corrupt /\ resetting
    /\ resetting' = FALSE
    /\ cache' = {}
    /\ UNCHANGED <<urbVars, ctxVars, listVars, timeVars, gbVars, replying,
                   stamp, conns, asked, stopping, connected, events, input,
                   now, lastIn, corrupt>>

(* vds_hcd_stop.  usb_remove_hcd calls it when the root hub is gone and    *)
(* every URB has been killed and given back.                               *)
Stop ==
    /\ ~corrupt /\ ~stopping
    /\ \A u \in Urbs : pc[u] = "idle" \/ (pc[u] = "returned" /\ cstate[u] = "freed")
    /\ stopping' = TRUE
    /\ connected' = FALSE
    /\ CancelPending("ESHUTDOWN")
    /\ FlushBuffered
    /\ UNCHANGED <<urbVars, ready, timeVars, gbVars, daemonVars, cache, now,
                   lastIn, corrupt>>

-----------------------------------------------------------------------------
(* Time passes: freely up to MaxTime, and beyond it as long as some        *)
(* deadline is ahead.                                                      *)
Tick ==
    /\ ~corrupt
    /\ \/ now < MaxTime
       \/ \E u \in Urbs : cstate[u] # "freed" /\ ready[u] > now
       \/ gbWake > now
    /\ now' = now + 1
    /\ UNCHANGED <<urbVars, ctxVars, listVars, timeVars, gbVars, daemonVars,
                   stopping, connected, events, input, cache, lastIn, corrupt>>

SubmitterStep(u) ==
    \/ \E s \in {"ok", "EPIPE"} : AnswerNow(u, s)
    \/ GetFeature(u)
    \/ DeferFeatureGet(u)
    \/ DeferRefused(u)
    \/ FrameFeatureGet(u)
    \/ SendFrame(u)
    \/ HidInTake(u)
    \/ HidInWait(u)
    \/ ScheduleIso(u)
    \/ QueueGiveback(u)
    \/ StaleContext(u)

GivebackStep == GbSleep \/ GbWakeUp \/ GbTake \/ GbDeliver \/ GbGiveback

DaemonStep ==
    \/ ReadFrame
    \/ WriteInput
    \/ \E r \in Reports : CacheReply(r)
    \/ DeliverReply
    \/ SetProfile
    \/ Connect
    \/ Disconnect
    \/ ResetUsb

Next ==
    \/ \E u \in Urbs, k \in Kinds, r \in Reports \cup {NoReport} :
          Submit(u, k, r)
    \/ \E u \in Urbs : SubmitterStep(u)
    \/ \E u \in Urbs : Unlink(u)
    \/ GivebackStep
    \/ DaemonStep
    \/ Stop
    \/ Tick

Spec == Init /\ [][Next]_vars

(* Threads inside a system call, the giveback kthread and the clock keep   *)
(* running; hosts and daemon need not start anything.                      *)
Fairness ==
    /\ \A u \in Urbs : WF_vars(SubmitterStep(u))
    /\ WF_vars(GivebackStep)
    /\ WF_vars(DeliverReply \/ ResetUsb)
    /\ WF_vars(Tick)

FairSpec == Spec /\ Fairness

-----------------------------------------------------------------------------
(* Properties.                                                             *)

(* The state has the types of the struct fields it models, and             *)
(* vds_enqueue_frame keeps the frame queue within its bound.               *)
TypeOK ==
    /\ kind \in [Urbs -> AllKinds]
    /\ rid \in [Urbs -> Reports \cup {NoReport}]
    /\ pc \in [Urbs -> {"idle", "entered", "defer", "frame", "queue", "returned"}]
    /\ ret \in [Urbs -> Statuses]
    /\ data \in [Urbs -> Nat]
    /\ unlinked \in [Urbs -> BOOLEAN]
    /\ cstate \in [Urbs -> ContextStates]
    /\ status \in [Urbs -> Statuses]
    /\ ready \in [Urbs -> Nat]
    /\ stopping \in BOOLEAN /\ connected \in BOOLEAN
    /\ events \in Seq(Urbs) /\ Len(events) <= EventMax
    /\ hidPending \in Seq(Urbs) /\ featPending \in Seq(Urbs)
    /\ completed \in Seq(Urbs)
    /\ input \in Nat
    /\ nextIsoOut \in Nat /\ nextIsoIn \in Nat /\ nextHid \in Nat
    /\ cache \subseteq Reports
    /\ gb \in Urbs \cup {NoUrb} /\ gbPc \in {"deliver", "giveback"}
    /\ gbWake \in Nat
    /\ replying \in Reports \cup {NoReport} /\ resetting \in BOOLEAN
    /\ now \in Nat \ {0} /\ stamp \in Nat /\ conns \in Nat
    /\ asked \subseteq Urbs /\ lastIn \in Nat
    /\ corrupt \in BOOLEAN

(* Each context is on the one list its state names, once, and the giveback *)
(* thread holds exactly the context that is GIVING_BACK: the meaning of    *)
(* enum vds_urb_context_state across every hand-over between the           *)
(* submitter, the daemon, the USB core and the giveback thread.            *)
ListsMatchStates ==
    /\ NoDup(hidPending) /\ NoDup(featPending) /\ NoDup(completed)
    /\ \A u \in Urbs :
        /\ u \in ToSet(hidPending) <=> cstate[u] = "PENDING_HID_IN"
        /\ u \in ToSet(featPending) <=> cstate[u] = "PENDING_FEATURE_GET"
        /\ u \in ToSet(completed) <=> cstate[u] = "PENDING_GIVEBACK"
        /\ gb = u <=> cstate[u] = "GIVING_BACK"

(* A report is never left in input_packets while a HID IN URB waits for    *)
(* one (vds_interrupt_in_urb against vds_write_input_frame).               *)
InputNotStranded == input # 0 => hidPending = <<>>

(* A context is in no use after kfree and on no two lists, at any          *)
(* interleaving of vds_urb_enqueue with the threads that complete URBs.    *)
NoStaleContext == ~corrupt

(* A deferred feature GET whose submission has returned is never forgotten:*)
(* its FEATURE_GET frame is queued, or the daemon has read it.  Otherwise  *)
(* no reply would ever complete the URB.                                   *)
NoOrphanedFeatureGet ==
    \A u \in Urbs :
        cstate[u] = "PENDING_FEATURE_GET" /\ pc[u] = "returned"
            => u \in ToSet(events) \cup asked

(* Neither an input report nor a feature request is left behind: a URB     *)
(* that waits for one has nothing to wait for but the daemon.              *)
NothingLeftBehind == InputNotStranded /\ NoOrphanedFeatureGet

(* "The HCD queues this URB before userspace sees the request frame"       *)
(* (vds_usb_hid_control): when a FEATURE_GET frame is in the queue, or has *)
(* been read, its URB has already left the ACTIVE state.                   *)
QueuedBeforeSeen ==
    \A u \in ToSet(events) \cup asked :
        kind[u] = "getFeature" => cstate[u] \notin {"none", "ACTIVE"}

(* completed_urbs is sorted by ready time, untimed entries first, except   *)
(* for entries unlinked while they wait (vds_urb_dequeue zeroes their      *)
(* ready time where they stand): no control or interrupt URB is queued     *)
(* behind an audio completion that is still in the future.                 *)
CompletedOrdered ==
    \A i, j \in DOMAIN completed :
        i < j => \/ ready[completed[i]] <= ready[completed[j]]
                 \/ unlinked[completed[i]] \/ unlinked[completed[j]]

(* The host never receives an input report older than one it already has:  *)
(* vds_queue_input_packet_locked keeps the newest state "instead of        *)
(* replaying stale inputs later".                                          *)
InputNeverGoesBack == [][lastIn' >= lastIn]_vars

(* A URB the USB core unlinks is given back (usb_kill_urb waits for it),   *)
(* unless a stale context has been used.                                   *)
UnlinkedIsGivenBack ==
    \A u \in Urbs : unlinked[u] ~> cstate[u] = "freed" \/ corrupt

(* A request that needs nothing from the daemon is given back, whatever    *)
(* the daemon does and however full its frame queue is.                    *)
ServedWithoutDaemon ==
    \A u \in Urbs :
        pc[u] = "entered" /\ kind[u] \notin {"hidIn", "getFeature"}
            ~> cstate[u] = "freed" \/ corrupt

(* A reply the daemon has begun to write completes every GET of that       *)
(* report which is pending.                                                *)
ReplyCompletes ==
    \A u \in Urbs :
        replying # NoReport /\ rid[u] = replying
            /\ cstate[u] = "PENDING_FEATURE_GET"
            ~> cstate[u] = "freed" \/ corrupt

-----------------------------------------------------------------------------
(* Strengthenings, for the proofs.                                         *)

(* A submission that has not begun has no context, and is in no frame.     *)
NotStarted ==
    \A u \in Urbs : pc[u] = "idle" =>
        cstate[u] = "none" /\ u \notin ToSet(events) \cup asked

(* Only a feature GET is ever deferred, and its frame follows.             *)
OnlyGetsDeferred ==
    \A u \in Urbs :
        /\ pc[u] \in {"defer", "frame"} \/ cstate[u] = "PENDING_FEATURE_GET"
              => kind[u] = "getFeature"
        /\ pc[u] = "frame" => cstate[u] \notin {"none", "ACTIVE"}

(* The inductive invariant.                                                *)
IInv ==
    /\ TypeOK
    /\ ListsMatchStates
    /\ NotStarted
    /\ OnlyGetsDeferred
    /\ InputNotStranded
    /\ NoOrphanedFeatureGet
    /\ QueuedBeforeSeen

(* For CompletedOrdered: as long as vds_urb_dequeue waits for              *)
(* vds_urb_enqueue, a context belongs to its submitter until that has      *)
(* given it away, and has a ready time only then; in completed_urbs only   *)
(* an entry whose ready time an unlink has zeroed is out of order.         *)
SubmitterOwns ==
    \A u \in Urbs :
        /\ pc[u] \in {"entered", "defer"} => cstate[u] = "ACTIVE"
        /\ pc[u] \in {"idle", "entered", "defer", "frame"} => ready[u] = 0
        /\ cstate[u] \in {"PENDING_HID_IN", "PENDING_FEATURE_GET"} => ready[u] = 0
        /\ cstate[u] = "PENDING_HID_IN" => pc[u] = "returned"

SortedButUnlinked ==
    \A i, j \in DOMAIN completed :
        i < j => \/ ready[completed[i]] <= ready[completed[j]]
                 \/ ready[completed[j]] = 0 /\ unlinked[completed[j]]

OrderInv == SubmitterOwns /\ SortedButUnlinked

(* For NoStaleContext: no FEATURE_GET frame finds the queue full, and the  *)
(* context is then still the submitter's when it comes to queue it.        *)
FramesFit == \A u \in Urbs : pc[u] = "frame" => Len(events) < EventMax

QueuesOwn ==
    /\ stopping => \A u \in Urbs : pc[u] \in {"idle", "returned"}
    /\ \A u \in Urbs : pc[u] = "queue" => cstate[u] = "ACTIVE"

(* For InputNeverGoesBack: u is a HID IN URB the host waits for.           *)
InFlight(u) == kind[u] = "hidIn" /\ pc[u] # "idle" /\ cstate[u] # "freed"

(* u is on completed_urbs or with the giveback thread.                     *)
Completing(u) == cstate[u] \in {"PENDING_GIVEBACK", "GIVING_BACK"}

(* There is one such URB; it holds a report when it completes without error*)
(* that is no older than lastIn and no newer than the buffered one.        *)
InputsInOrder ==
    /\ lastIn <= stamp /\ input <= stamp
    /\ input # 0 => lastIn <= input
    /\ \A u, v \in Urbs : InFlight(u) /\ InFlight(v) => u = v
    /\ \A u \in Urbs :
        /\ data[u] <= stamp
        /\ pc[u] = "idle" => data[u] = 0
        /\ InFlight(u) /\ data[u] # 0 => lastIn <= data[u]
        /\ InFlight(u) /\ input # 0 => data[u] <= input
        /\ cstate[u] = "PENDING_HID_IN" => kind[u] = "hidIn"
        /\ kind[u] = "hidIn" /\ pc[u] = "queue" => data[u] # 0
        /\ kind[u] = "hidIn" /\ Completing(u) /\ status[u] = "ok" => data[u] # 0
=============================================================================
