--------------------------- MODULE WinSupervisor ---------------------------
(***************************************************************************)
(* The supervisor of the Windows daemon (run_bridge_supervisor in          *)
(* src/platform/win32/vdsd.cc) together with the filter driver it watches. *)
(*                                                                         *)
(* The supervisor loop reaps finished bridge workers, scans (configuration *)
(* file, virtual ports, connected controllers), retires workers whose      *)
(* configuration changed, launches workers, arms the filter's              *)
(* device-change request and sleeps in WaitForMultipleObjects.  Each       *)
(* worker is a thread that binds one virtual port for one controller.      *)
(* Control commands arrive through a pipe served by a thread of its own,   *)
(* one client at a time, and are executed by the loop.                     *)
(***************************************************************************)
EXTENDS WinFilter

CONSTANTS
    Ports,       \* virtual port numbers, a set of naturals
    Configs,     \* configurations a user gives: [ports, profile]
    NoConfig,
    Initial,     \* initial contents of the configuration file
    Commands,    \* control commands of this instance
    Usbip        \* usbip_transport_enabled: ports have no bound state

ASSUME ConfigsNamed ==
    /\ Configs \subseteq [ports : SUBSET Ports \ {{}}, profile : STRING]
    /\ NoConfig \notin Configs
    /\ Initial \subseteq [Addresses -> Configs \cup {NoConfig}]
    /\ Ports \subseteq Nat
    /\ Commands \subseteq {"attach", "detach", "list"}
    /\ Usbip \in BOOLEAN

VARIABLES
    spc,        \* where the supervisor loop is
    stop,       \* g_stop_requested and g_stop_event
    scanReq,    \* scan_requested
    retryReq,   \* provider_retry_required
    reload,     \* reload_requested
    gen,        \* filter_generation
    held,       \* filter_change_wait holds the control device open
    snap,       \* filter_snapshot: the connected controllers
    cfg,        \* the configuration this scan read
    usable,     \* enabled_ports of this scan
    todo,       \* configurations the launch loop has not looked at
    timer,      \* retry_timer: "off", "armed", "fired"
    backoff,    \* worker_failure_backoffs: "none", "waiting", "due"
    workers,    \* the BridgeWorkers
    db,         \* the configuration file
    enabled,    \* ports the driver has enabled
    bound,      \* ports the driver has bound
    ctl         \* the control pipe: "idle", the queued command, "answered"

loopVars == <<scanReq, retryReq, reload, gen, held, snap, cfg, usable, todo,
              timer, backoff>>
sleeping == <<loaded, pnp, stackVars, generation>>  \* no filter thread moves
outside == <<db, enabled, bound>>
vars == <<filterVars, loopVars, outside, spc, stop, workers, ctl>>

Workers == [addr : Addresses, port : Ports, profile : STRING,
            stop : BOOLEAN, phase : {"opening", "bound", "ended", "done"},
            failed : BOOLEAN]

Init ==
    /\ FilterInit
    /\ spc = "top" /\ stop = FALSE
    /\ scanReq = TRUE /\ retryReq = FALSE /\ reload = FALSE
    /\ gen = 0 /\ held = FALSE /\ snap = {}
    /\ cfg = [a \in Addresses |-> NoConfig]
    /\ usable = {} /\ todo = {} /\ timer = "off"
    /\ backoff = [a \in Addresses |-> "none"]
    /\ workers = {}
    /\ db \in Initial /\ enabled = Ports /\ bound = {}
    /\ ctl = "idle"

-----------------------------------------------------------------------------
(* The loop.  Top: reap the workers that are done, and decide to scan.     *)
(* record_vdsd_worker_failure starts the back-off of a failed worker.      *)
Done == {w \in workers : w.phase = "done"}

RecordFailures(failed) ==
    [a \in Addresses |-> IF a \in failed THEN "waiting" ELSE backoff[a]]

Reap ==
    /\ spc = "top" /\ ~stop
    /\ workers' = workers \ Done
    /\ backoff' = RecordFailures({w.addr : w \in {v \in Done : v.failed}})
    /\ scanReq' = (\/ scanReq \/ Done # {} \/ reload
                   \/ \E a \in Addresses : backoff'[a] = "due")
    /\ spc' = IF scanReq' THEN "load" ELSE "plan"
    /\ UNCHANGED <<filterVars, outside, stop, retryReq, reload, gen, held, snap,
                   cfg, usable, todo, timer, ctl>>

LoopEnds ==
    /\ spc = "top" /\ stop
    /\ spc' = "join"
    /\ UNCHANGED <<filterVars, loopVars, outside, stop, workers, ctl>>

(* The scan: cancel the pending wait, read the file and the ports.         *)
Load ==
    /\ spc = "load"
    /\ CancelWait
    /\ scanReq' = FALSE
    /\ cfg' = db /\ usable' = enabled
    /\ retryReq' = (enabled = {})
    /\ spc' = "snapshot"
    /\ UNCHANGED <<ops, sleeping, outside, stop, reload, gen, held, snap, todo,
                   timer, backoff, workers, ctl>>

(* The configuration and the ports of a scan are locals of its try block.  *)
ForgetScan == cfg' = [a \in Addresses |-> NoConfig] /\ usable' = {}

(* load_config_db or the snapshot throws.                                  *)
ScanFails ==
    /\ spc \in {"load", "snapshot"} /\ Input
    /\ IF spc = "load" THEN CancelWait ELSE UNCHANGED irp
    /\ scanReq' = TRUE /\ retryReq' = TRUE
    /\ ForgetScan
    /\ spc' = "plan"
    /\ UNCHANGED <<sleeping, outside, stop, reload, gen, held, snap, todo,
                   timer, backoff, workers, ctl>>

(* vdsd_worker_config_is_stale, with the ports as they are now.            *)
Stale(w) ==
    \/ cfg[w.addr] = NoConfig
    \/ cfg[w.addr].profile # w.profile
    \/ w.port \notin cfg[w.addr].ports
    \/ w.port \notin enabled

Retire(ws) == {IF Stale(w) THEN [w EXCEPT !.stop = TRUE] ELSE w : w \in ws}

(* Without the filter, plain HID discovery finds some of the controllers   *)
(* that are connected, or fails and finds none.                            *)
PlainHid == SUBSET Addresses

(* The snapshot and its generation, then the workers to retire.            *)
Snapshot ==
    /\ spc = "snapshot"
    /\ \/ /\ loaded
          /\ snap' = Connected(GetDevices(Entries))
          /\ gen' = generation /\ retryReq' = retryReq
       \/ /\ ~loaded
          /\ snap' \in PlainHid
          /\ gen' = gen /\ retryReq' = TRUE
    /\ workers' = Retire(workers)
    /\ todo' = {a \in Addresses : cfg[a] # NoConfig}
    /\ IF todo' = {} THEN spc' = "plan" /\ ForgetScan
       ELSE spc' = "launch" /\ UNCHANGED <<cfg, usable>>
    /\ UNCHANGED <<filterVars, outside, stop, scanReq, reload, held, timer,
                   backoff, ctl>>

(* select_vdsd_worker_launch_decision: the first allowed port that is      *)
(* enabled, unbound and not reserved by a worker, retiring ones included.  *)
(* Mutant: the port of a retiring worker counts as free.                   *)
ReservedByLive == {w.port : w \in {v \in workers : ~v.stop}}
Reserved == {w.port : w \in workers}
Available == IF Usbip THEN enabled ELSE enabled \ bound
Candidates(a) == (cfg[a].ports \cap Available) \ Reserved

(* Mutant: a retiring worker no longer counts.                             *)
LiveWorker(a) == \E w \in workers : w.addr = a /\ ~w.stop
HasWorker(a) == \E w \in workers : w.addr = a

MayLaunch(a) ==
    /\ ~HasWorker(a)
    /\ cfg[a].ports \cap usable # {}
    /\ a \in snap
    /\ Candidates(a) # {}

Worker(a) == [addr |-> a, port |-> Min(Candidates(a)),
              profile |-> cfg[a].profile, stop |-> FALSE,
              phase |-> "opening", failed |-> FALSE]

(* Mutant: an expired back-off still blocks the launch that consumes it.   *)
RetryNowStrict(b) == b = "none"
RetryNow(b) == b # "waiting"

Consumed(b) == IF b = "due" THEN "none" ELSE b

(* One turn of the launch loop; consume_vdsd_worker_retry comes first.     *)
Launch(a) ==
    /\ spc = "launch" /\ a \in todo
    /\ todo' = todo \ {a}
    /\ backoff' = [backoff EXCEPT ![a] = Consumed(@)]
    /\ workers' = IF RetryNow(backoff[a]) /\ MayLaunch(a)
                  THEN workers \cup {Worker(a)} ELSE workers
    /\ IF todo' = {} THEN spc' = "plan" /\ ForgetScan
       ELSE UNCHANGED <<spc, cfg, usable>>
    /\ UNCHANGED <<filterVars, outside, stop, scanReq, retryReq, reload, gen,
                   held, snap, timer, ctl>>

(* After the scan: an expired back-off goes round again at once; otherwise *)
(* the retry timer is set and the filter's change request is armed.        *)
(* Mutant: a missing provider also goes round again without sleeping.      *)
OverdueOrRetry == retryReq \/ \E a \in Addresses : backoff[a] = "due"
Overdue == \E a \in Addresses : backoff[a] = "due"

TimerNeeded == retryReq \/ \E a \in Addresses : backoff[a] # "none"

Plan ==
    /\ spc = "plan"
    /\ reload' = FALSE
    /\ IF Overdue
       THEN /\ scanReq' = TRUE /\ spc' = "top"
            /\ UNCHANGED <<timer, irp>>
       ELSE /\ timer' = IF TimerNeeded THEN "armed" ELSE "off"
            /\ IF ~retryReq /\ gen # 0
               THEN /\ spc' = IF irp = "none" THEN "arm" ELSE "wait"
                    /\ UNCHANGED irp
               ELSE spc' = "wait" /\ CancelWait
            /\ UNCHANGED scanReq
    /\ UNCHANGED <<ops, sleeping, outside, stop, retryReq, gen, held, snap, cfg,
                   usable, todo, backoff, workers, ctl>>

(* arm: the first comparison of WAIT_DEVICE_CHANGE ...                     *)
Arm ==
    /\ spc = "arm"
    /\ IF ~loaded
       THEN /\ scanReq' = TRUE /\ retryReq' = TRUE /\ held' = held
            /\ spc' = "top"
       ELSE /\ held' = TRUE /\ retryReq' = retryReq
            /\ scanReq' = (scanReq \/ ~StillCurrent(gen))
            /\ spc' = IF StillCurrent(gen) THEN "insert" ELSE "top"
    /\ UNCHANGED <<filterVars, outside, stop, reload, gen, snap, cfg, usable,
                   todo, timer, backoff, workers, ctl>>

(* ... and the insertion into the cancel-safe queue.                       *)
ArmInsert ==
    /\ spc = "insert"
    /\ VdsWaitQueueInsertIrpEx(gen)
    /\ spc' = "wait"
    /\ UNCHANGED <<ops, sleeping, loopVars, outside, stop, workers, ctl>>

-----------------------------------------------------------------------------
(* WaitForMultipleObjects: the handle with the lowest index wins, in the   *)
(* order stop, control, filter change, retry timer, worker.                *)
(* Mutant: the stop event is not among the handles.                        *)
WakeStopUnwatched ==
    /\ spc = "wait" /\ stop /\ timer = "fired"
    /\ spc' = "top"
    /\ UNCHANGED <<filterVars, loopVars, outside, stop, workers, ctl>>

WakeStop ==
    /\ spc = "wait" /\ stop
    /\ spc' = "top"
    /\ UNCHANGED <<filterVars, loopVars, outside, stop, workers, ctl>>

(* service_ready runs the command: attach and detach rewrite the file and  *)
(* ask for a reload; a failed update leaves both alone.                    *)
Attachable ==
    IF loaded THEN {e.addr : e \in ToSet(GetDevices(Entries))} ELSE Addresses

Attach(a, c) ==
    IF db[a] # NoConfig \/ a \notin Attachable
    THEN UNCHANGED <<db, reload>>
    ELSE db' = [db EXCEPT ![a] = c] /\ reload' = TRUE

Detach(a) ==
    IF db[a] = NoConfig THEN UNCHANGED <<db, reload>>
    ELSE db' = [db EXCEPT ![a] = NoConfig] /\ reload' = TRUE

WakeControl ==
    /\ spc = "wait" /\ ~stop /\ ctl \in Commands
    /\ \/ ctl = "attach" /\ \E a \in Addresses, c \in Configs : Attach(a, c)
       \/ ctl = "detach" /\ \E a \in Addresses : Detach(a)
       \/ UNCHANGED <<db, reload>>
    /\ ctl' = "answered"
    /\ scanReq' = (scanReq \/ reload')
    /\ spc' = "top"
    /\ UNCHANGED <<filterVars, stop, retryReq, gen, held, snap, cfg, usable,
                   todo, timer, backoff, workers, enabled, bound>>

WakeFilter ==
    /\ spc = "wait" /\ ~stop /\ ctl \notin Commands
    /\ irp \in {"done", "failed"}
    /\ scanReq' = TRUE
    /\ retryReq' = (retryReq \/ irp = "failed")
    /\ irp' = "none"
    /\ spc' = "top"
    /\ UNCHANGED <<ops, sleeping, outside, stop, reload, gen, held, snap, cfg,
                   usable, todo, timer, backoff, workers, ctl>>

WakeRetry ==
    /\ spc = "wait" /\ ~stop /\ ctl \notin Commands
    /\ irp \notin {"done", "failed"} /\ timer = "fired"
    /\ timer' = "off" /\ scanReq' = TRUE /\ spc' = "top"
    /\ UNCHANGED <<filterVars, outside, stop, retryReq, reload, gen, held, snap,
                   cfg, usable, todo, backoff, workers, ctl>>

WakeWorker ==
    /\ spc = "wait" /\ ~stop /\ ctl \notin Commands
    /\ irp \notin {"done", "failed"} /\ timer # "fired" /\ Done # {}
    /\ scanReq' = TRUE /\ spc' = "top"
    /\ UNCHANGED <<filterVars, outside, stop, retryReq, reload, gen, held, snap,
                   cfg, usable, todo, timer, backoff, workers, ctl>>

(* The end: join every worker, then the control server is destroyed and    *)
(* answers what is queued.                                                 *)
CompleteQueued == ctl' = IF ctl \in Commands THEN "answered" ELSE ctl

Join ==
    /\ spc = "join" /\ workers = Done
    /\ workers' = {}
    /\ CompleteQueued
    /\ CancelWait
    /\ spc' = "stopped"
    /\ UNCHANGED <<ops, sleeping, loopVars, outside, stop>>

-----------------------------------------------------------------------------
(* A worker (run_configured_bridge_worker): bind the port, run the bridge  *)
(* session, unbind, and report an error unless it was told to stop.        *)
Advance(w, v) == workers' = (workers \ {w}) \cup {v}
WorkerFrame == UNCHANGED <<loopVars, db, enabled, spc, stop, ctl, sleeping,
                           irp>>

WorkerBinds(w) ==
    /\ w.phase = "opening" /\ w.port \in Available
    /\ bound' = bound \cup {w.port}
    /\ Advance(w, [w EXCEPT !.phase = "bound"])
    /\ WorkerFrame /\ UNCHANGED ops

(* The transport or the bind fails: no port is held.                       *)
WorkerFailsToOpen(w) ==
    /\ w.phase = "opening"
    /\ \/ (w.stop \/ stop) /\ UNCHANGED ops
       \/ w.port \notin Available /\ UNCHANGED ops
       \/ Input
    /\ Advance(w, [w EXCEPT !.phase = "ended"])
    /\ WorkerFrame /\ UNCHANGED bound

(* The session ends: told to stop, or an I/O error of either side.         *)
ToldToStop(w) == w.stop \/ stop

WorkerUnbinds(w) ==
    /\ w.phase = "bound"
    /\ \/ ToldToStop(w) /\ UNCHANGED ops
       \/ Input
    /\ bound' = bound \ {w.port}
    /\ Advance(w, [w EXCEPT !.phase = "ended"])
    /\ WorkerFrame

WorkerDone(w) ==
    /\ w.phase = "ended"
    /\ Advance(w, [w EXCEPT !.phase = "done", !.failed = ~(w.stop \/ stop)])
    /\ WorkerFrame /\ UNCHANGED <<ops, bound>>

WorkerStep ==
    \E w \in workers : \/ WorkerBinds(w) \/ WorkerFailsToOpen(w)
                       \/ WorkerUnbinds(w) \/ WorkerDone(w)

-----------------------------------------------------------------------------
(* Outside: time, users, the service manager and the ports of the driver.  *)
BackoffExpires(a) ==
    /\ backoff[a] = "waiting"
    /\ backoff' = [backoff EXCEPT ![a] = "due"]
    /\ UNCHANGED <<filterVars, outside, spc, stop, scanReq, retryReq, reload,
                   gen, held, snap, cfg, usable, todo, timer, workers, ctl>>

TimerFires ==
    /\ timer = "armed" /\ (retryReq \/ Overdue)
    /\ timer' = "fired"
    /\ UNCHANGED <<filterVars, outside, spc, stop, scanReq, retryReq, reload,
                   gen, held, snap, cfg, usable, todo, backoff, workers, ctl>>

(* The pipe thread: accept a client, read its command, queue it; when the  *)
(* loop has answered, write the reply and disconnect.                      *)
Send(command) ==
    /\ ctl = "idle" /\ spc # "stopped" /\ Input
    /\ ctl' = command
    /\ UNCHANGED <<loopVars, outside, spc, stop, workers, sleeping, irp>>

Reply ==
    /\ ctl = "answered"
    /\ ctl' = "idle"
    /\ UNCHANGED <<filterVars, loopVars, outside, spc, stop, workers>>

PortsChange ==
    /\ ~Usbip /\ Input
    /\ enabled' \in {{}, Ports} \ {enabled}
    /\ UNCHANGED <<loopVars, spc, stop, workers, sleeping, irp, db, bound, ctl>>

StopRequested ==
    /\ ~stop /\ Input
    /\ stop' = TRUE
    /\ UNCHANGED <<loopVars, outside, spc, workers, sleeping, irp, ctl>>

Loop ==
    \/ Reap \/ LoopEnds \/ Load \/ Snapshot \/ Plan
    \/ \E a \in Addresses : Launch(a)
    \/ Arm \/ ArmInsert
    \/ WakeStop \/ WakeControl \/ WakeFilter \/ WakeRetry \/ WakeWorker \/ Join

Filter ==
    /\ \/ DriverEntry \/ VdsUnload(held) \/ \E d \in Devs : PnpStep(d)
    /\ UNCHANGED <<loopVars, outside, spc, stop, workers, ctl>>

Time == TimerFires \/ \E a \in Addresses : BackoffExpires(a)

(* Nothing more comes from outside, or the daemon has ended.               *)
Idle ==
    /\ spc = "stopped" \/ (spc = "wait" /\ ops = MaxOps)
    /\ UNCHANGED vars

Next ==
    \/ Loop \/ ScanFails \/ Reply \/ Filter \/ WorkerStep \/ Time \/ PortsChange
    \/ StopRequested \/ Idle
    \/ \E command \in Commands : Send(command)

Spec == Init /\ [][Next]_vars

(* Every thread runs, PnP requests finish, time passes and a worker that   *)
(* was told to stop stops.  Nothing from outside has to happen.            *)
WorkerProceeds ==
    /\ WorkerStep
    /\ ops' = ops
PnpProceeds == /\ Filter
               /\ ops' = ops
Fairness ==
    /\ WF_vars(Loop) /\ WF_vars(Reply) /\ WF_vars(WorkerProceeds)
    /\ WF_vars(PnpProceeds)
    /\ WF_vars(TimerFires) /\ \A a \in Addresses : WF_vars(BackoffExpires(a))

LiveSpec == Spec /\ Fairness

-----------------------------------------------------------------------------
FilterTypes ==
    /\ ops \in 0..MaxOps /\ loaded \in BOOLEAN
    /\ pnp \in [Devs -> PnpSteps] /\ profile \in [Devs -> Profiles]
    /\ changed \in [Devs -> BOOLEAN] /\ devList \in Seq(Devs) /\ NoDup(devList)
    /\ linked \in [Devs -> BOOLEAN] /\ generation \in Nat \ {0}
    /\ irp \in {"none", "queued", "done", "failed"}

LoopTypes ==
    /\ spc \in {"top", "load", "snapshot", "launch", "plan", "arm", "insert",
                "wait", "join", "stopped"}
    /\ stop \in BOOLEAN /\ scanReq \in BOOLEAN /\ retryReq \in BOOLEAN
    /\ reload \in BOOLEAN /\ held \in BOOLEAN
    /\ gen \in Nat /\ snap \subseteq Addresses
    /\ usable \subseteq Ports /\ todo \subseteq Addresses
    /\ timer \in {"off", "armed", "fired"}
    /\ backoff \in [Addresses -> {"none", "waiting", "due"}]
    /\ ctl \in Commands \cup {"idle", "answered"}

ConfigTypes ==
    /\ cfg \in [Addresses -> Configs \cup {NoConfig}]
    /\ db \in [Addresses -> Configs \cup {NoConfig}]
    /\ \A a \in todo : cfg[a] # NoConfig
    /\ spc = "launch" \/ todo = {}
    /\ enabled \subseteq Ports /\ bound \subseteq Ports
    /\ workers \subseteq Workers

TypeOK == FilterTypes /\ LoopTypes /\ ConfigTypes

(* No two bridge workers, retiring ones included, ever share a controller  *)
(* or a virtual port, and the port a worker has bound is its own.          *)
WorkersExclusive ==
    /\ \A v, w \in workers : v # w => v.addr # w.addr /\ v.port # w.port
    /\ bound = {w.port : w \in {v \in workers : v.phase = "bound"}}

(* A change request that sleeps in the filter has not missed a change: if  *)
(* no PnP thread is between its change of the list and its notification,   *)
(* the supervisor's snapshot is the list as it is now.  The exception is a *)
(* driver that goes away after the daemon has seen it: DriverEntry starts  *)
(* the generation over, so the numbers of two lives of the driver can be   *)
(* equal, and the one the supervisor arms with may belong to the other.    *)
Quiet(d) == pnp[d] \in {"absent", "attached", "add_list", "add_link",
                        "remove_link"}
SnapshotCurrent ==
    irp = "queued" /\ spc = "wait" /\ (\A d \in Devs : Quiet(d))
        => snap = Connected(GetDevices(Entries))
DriverStays == gen # 0 => loaded
NoMissedChange == <>~DriverStays \/ []SnapshotCurrent

(* Every control command is answered, unless the supervisor spins on the   *)
(* back-off of a controller that is no longer configured, which nothing    *)
(* consumes: the one way a command can wait for ever.                      *)
StrandedBackoff == \E a \in Addresses : backoff[a] # "none" /\ db[a] = NoConfig
ControlServedOrStranded ==
    (ctl \in Commands) ~> (ctl = "idle" \/ StrandedBackoff)

(* A stop request ends the daemon.                                         *)
StopEnds == stop ~> (spc = "stopped")

(* A controller that stays connected and configured, with an allowed port  *)
(* enabled and free, gets a worker, unless the ports changed within a scan:*)
(* a controller that found no available port is only looked at again when  *)
(* something else wakes the supervisor.                                    *)
PortsBlinked == spc \in {"snapshot", "launch"} /\ enabled # usable
Eligible(a) ==
    /\ loaded /\ ~stop /\ a \in Connected(GetDevices(Entries))
    /\ db[a] # NoConfig
    /\ \E p \in db[a].ports : p \in Available /\ p \notin Reserved
Bridged ==
    <>PortsBlinked \/ \A a \in Addresses : []<>(~Eligible(a) \/ HasWorker(a))
=============================================================================
