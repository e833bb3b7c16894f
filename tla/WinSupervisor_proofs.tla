------------------------ MODULE WinSupervisor_proofs ------------------------
(***************************************************************************)
(* Theorems about the Windows supervisor and the filter driver, for every  *)
(* set of stacks, controllers, ports and configurations and every bound.   *)
(***************************************************************************)
EXTENDS WinSupervisor, Lists_proofs

-----------------------------------------------------------------------------
(* What the daemon does to the filter.                                     *)

(* A step of anything but the driver leaves its list and its generation    *)
(* alone; it touches the wait request only to cancel, reap or insert it,   *)
(* and takes over the generation only in a scan, together with the list.   *)
LEMMA DaemonStep ==
  ASSUME [Next]_vars, ~Filter
  PROVE  /\ UNCHANGED sleeping
         /\ ops' = ops \/ Input
         /\ irp' = irp \/ irp' = "none"
            \/ (spc = "insert" /\ VdsWaitQueueInsertIrpEx(gen) /\ gen' = gen)
         /\ \/ gen' = gen /\ snap' = snap
            \/ /\ spc = "snapshot" /\ irp' = irp
               /\ gen' = generation /\ snap' = Connected(GetDevices(Entries))
            \/ /\ spc = "snapshot" /\ irp' = irp /\ ~loaded
               /\ gen' = gen /\ snap' \subseteq Addresses
         /\ spc' = "snapshot" => irp' = "none" \/ (spc = "snapshot" /\ irp' = irp)
<1> USE DEF sleeping, filterVars, loopVars, Input
<1>1. CASE UNCHANGED vars
  BY <1>1 DEF vars
<1>2. CASE Reap
  BY <1>2 DEF Reap
<1>3. CASE LoopEnds
  BY <1>3 DEF LoopEnds
<1>4. CASE Load
  BY <1>4 DEF Load, CancelWait
<1>5. CASE Snapshot
  BY <1>5 DEF Snapshot, PlainHid
<1>6. CASE Plan
  BY <1>6 DEF Plan, CancelWait
<1>7. ASSUME NEW a \in Addresses, Launch(a)
      PROVE  UNCHANGED <<filterVars, gen, snap>> /\ spc' # "snapshot"
  BY <1>7 DEF Launch
<1>8. CASE Arm
  BY <1>8 DEF Arm
<1>9. CASE ArmInsert
  BY <1>9 DEF ArmInsert
<1>10. CASE WakeStop
  BY <1>10 DEF WakeStop
<1>11. CASE WakeControl
  BY <1>11 DEF WakeControl
<1>12. CASE WakeFilter
  BY <1>12 DEF WakeFilter
<1>13. CASE WakeRetry
  BY <1>13 DEF WakeRetry
<1>14. CASE WakeWorker
  BY <1>14 DEF WakeWorker
<1>15. CASE Join
  BY <1>15 DEF Join, CancelWait
<1>16. CASE ScanFails
  BY <1>16 DEF ScanFails, CancelWait
<1>17. CASE Reply
  BY <1>17 DEF Reply
<1>18. ASSUME NEW w \in workers,
              \/ WorkerBinds(w) \/ WorkerFailsToOpen(w)
              \/ WorkerUnbinds(w) \/ WorkerDone(w)
       PROVE  /\ UNCHANGED <<sleeping, irp, gen, snap, spc>>
              /\ ops' = ops \/ Input
  BY <1>18 DEF WorkerBinds, WorkerFailsToOpen, WorkerUnbinds, WorkerDone,
     WorkerFrame
<1>19. CASE TimerFires
  BY <1>19 DEF TimerFires
<1>20. ASSUME NEW a \in Addresses, BackoffExpires(a)
       PROVE  UNCHANGED <<filterVars, gen, snap, spc>>
  BY <1>20 DEF BackoffExpires
<1>21. CASE PortsChange
  BY <1>21 DEF PortsChange
<1>22. CASE StopRequested
  BY <1>22 DEF StopRequested
<1>23. CASE Idle
  BY <1>23 DEF Idle, vars
<1>24. ASSUME NEW command \in Commands, Send(command)
       PROVE  UNCHANGED <<sleeping, irp, gen, snap, spc>> /\ Input
  BY <1>24 DEF Send
<1> QED BY <1>1, <1>2, <1>3, <1>4, <1>5, <1>6, <1>7, <1>8, <1>9, <1>10, <1>11,
        <1>12, <1>13, <1>14, <1>15, <1>16, <1>17, <1>18, <1>19, <1>20, <1>21,
        <1>22, <1>23, <1>24 DEF Next, Loop, WorkerStep, Time

-----------------------------------------------------------------------------
(* Type correctness.                                                       *)

(* The lists a daemon may find: each stack once.                           *)
LEMMA InitialListsType ==
  ASSUME NEW l \in InitialLists
  PROVE  l \in Seq(Devs) /\ NoDup(l)
<1>1. PICK S \in SUBSET Devs : l \in SetToSeqs(S)
  BY DevicesNamed
<1>2. Cardinality(S) \in Nat
  BY DevicesNamed, FS_Subset, FS_CardinalityType
<1>3. /\ l \in [1 .. Cardinality(S) -> S]
      /\ \A i, j \in 1 .. Cardinality(S) : i # j => l[i] # l[j]
  BY <1>1, Zenon DEF SetToSeqs
<1>4. l \in Seq(S)
  BY <1>2, <1>3
<1> QED BY <1>3, <1>4 DEF NoDup

(* The driver and the daemon start with typed state.                       *)
LEMMA TypeInit ==
  ASSUME Init
  PROVE  TypeOK
<1> USE DevicesNamed, FilterBounds, ConfigsNamed
<1>1. devList \in Seq(Devs) /\ NoDup(devList)
  <2>1. CASE devList \in InitialLists
    BY <2>1, InitialListsType
  <2>2. CASE devList = <<>>
    BY <2>2 DEF NoDup
  <2> QED BY <2>1, <2>2 DEF Init, FilterInit
<1>2. \A d \in Devs : Known(d) \in Profiles /\ Unknown \in Profiles
  BY DEF Known, Unknown, Profiles
<1>3. profile \in [Devs -> Profiles]
  BY <1>2 DEF Init, FilterInit
<1>4. pnp \in [Devs -> PnpSteps]
  BY DEF Init, FilterInit, PnpSteps
<1>5. linked \in [Devs -> BOOLEAN] /\ changed \in [Devs -> BOOLEAN]
  BY DEF Init, FilterInit, Listed
<1>6. generation \in Nat \ {0}
  BY <1>1, LenProperties DEF Init, FilterInit
<1>7. FilterTypes
  BY <1>1, <1>3, <1>4, <1>5, <1>6 DEF Init, FilterInit, FilterTypes
<1>8. LoopTypes /\ ConfigTypes
  BY DEF Init, LoopTypes, ConfigTypes
<1> QED BY <1>7, <1>8 DEF TypeOK

(* PnP: every step of a stack's thread keeps the types, and the list holds *)
(* no stack twice.                                                         *)
LEMMA PnpTypes ==
  ASSUME FilterTypes, NEW d \in Devs, PnpStep(d)
  PROVE  FilterTypes'
<1> USE DevicesNamed, FilterBounds DEF FilterTypes, Goto, Input
<1>1. Known(d) \in Profiles /\ Unknown \in Profiles
  BY DEF Known, Unknown, Profiles
<1>2. CASE VdsAddDevice(d)
  <2>1. profile' \in [Devs -> Profiles]
    BY <1>1, <1>2 DEF VdsAddDevice, VdsReadPhysicalDeviceProfile
  <2>2. /\ UNCHANGED <<loaded, changed, devList, linked, generation, irp>>
        /\ Input /\ Goto(d, "add_list")
    BY <1>2, Zenon DEF VdsAddDevice
  <2> QED BY <2>1, <2>2 DEF PnpSteps
<1>3. CASE StartClears(d)
  BY <1>1, <1>3 DEF StartClears, PnpSteps
<1>4. CASE StartReads(d)
  <2>1. profile' \in [Devs -> Profiles]
    BY <1>1, <1>4 DEF StartReads, VdsReadPhysicalDeviceProfile
  <2> QED BY <1>4, <2>1 DEF StartReads, PnpSteps
<1>5. CASE VdsUpdateDeviceListMembership(d)
  <2> DEFINE change == ShouldList(d) # Listed(d)
  <2>1. devList' = devList \/ (devList' = Append(devList, d) /\ ~Listed(d))
        \/ devList' \in Unlisted(devList, d)
    BY <1>5 DEF VdsUpdateDeviceListMembership
  <2>2. devList' \in Seq(Devs) /\ NoDup(devList')
    <3>1. CASE devList' = Append(devList, d) /\ ~Listed(d)
      BY <3>1, AppendElements DEF Listed
    <3>2. CASE devList' \in Unlisted(devList, d)
      BY <3>2, UnlistedElements
    <3> QED BY <2>1, <3>1, <3>2
  <2>3. change \in BOOLEAN
    OBVIOUS
  <2>4. changed' = [changed EXCEPT ![d] = change]
    BY <1>5 DEF VdsUpdateDeviceListMembership
  <2> HIDE DEF change
  <2>5. changed' \in [Devs -> BOOLEAN]
    BY <2>3, <2>4
  <2>6. pnp' \in [Devs -> PnpSteps]
    BY <1>5 DEF VdsUpdateDeviceListMembership, PnpSteps
  <2> QED BY <1>5, <2>2, <2>5, <2>6 DEF VdsUpdateDeviceListMembership
<1>6. CASE VdsUpdateSymbolicLink(d)
  <2>1. linked' \in [Devs -> BOOLEAN]
    BY <1>6 DEF VdsUpdateSymbolicLink, Profiles
  <2>2. pnp' \in [Devs -> PnpSteps]
    BY <1>6 DEF VdsUpdateSymbolicLink, PnpSteps
  <2> QED BY <1>6, <2>1, <2>2 DEF VdsUpdateSymbolicLink
<1>7. CASE Bump(d)
  BY <1>7 DEF Bump, NextGeneration, PnpSteps
<1>8. CASE Drain(d)
  BY <1>8 DEF Drain, VdsCompleteDeviceWaitQueue, PnpSteps
<1>9. CASE RemoveUnlists(d)
  <2>1. devList' \in Seq(Devs) /\ NoDup(devList')
    BY <1>9, UnlistedElements DEF RemoveUnlists
  <2> QED BY <1>9, <2>1 DEF RemoveUnlists, PnpSteps
<1>10. CASE VdsDeleteSymbolicLink(d)
  BY <1>1, <1>10 DEF VdsDeleteSymbolicLink, PnpSteps
<1> QED BY <1>2, <1>3, <1>4, <1>5, <1>6, <1>7, <1>8, <1>9, <1>10 DEF PnpStep

(* Every step keeps the types of the driver's state.                       *)
LEMMA FilterTypeStep ==
  ASSUME FilterTypes, [Next]_vars
  PROVE  FilterTypes'
<1>1. CASE ~Filter
  BY <1>1, DaemonStep, FilterBounds
     DEF FilterTypes, sleeping, stackVars, Input, VdsWaitQueueInsertIrpEx
<1>2. CASE DriverEntry
  BY <1>2, FilterBounds DEF DriverEntry, FilterTypes, Input, NoDup
<1>3. CASE VdsUnload(held)
  <2>1. /\ loaded' = FALSE /\ Input /\ VdsCompleteDeviceWaitQueue("failed")
        /\ UNCHANGED <<pnp, profile, changed, devList, linked, generation>>
    BY <1>3, Zenon DEF VdsUnload
  <2>2. ops' \in 0 .. MaxOps
    BY <2>1, FilterBounds DEF FilterTypes, Input
  <2>3. irp' \in {"none", "queued", "done", "failed"}
    BY <2>1 DEF FilterTypes, VdsCompleteDeviceWaitQueue
  <2> QED BY <2>1, <2>2, <2>3 DEF FilterTypes
<1> QED BY <1>1, <1>2, <1>3, PnpTypes DEF Filter

(* Every step keeps the types of the supervisor's own state.               *)
LEMMA LoopTypeStep ==
  ASSUME FilterTypes, LoopTypes, ConfigTypes, [Next]_vars
  PROVE  LoopTypes'
<1> USE DEF LoopTypes, loopVars
<1>1. CASE Reap
  BY <1>1, ConfigsNamed DEF Reap, RecordFailures
<1>2. CASE LoopEnds
  BY <1>2, ConfigsNamed DEF LoopEnds
<1>3. CASE Load
  BY <1>3, ConfigsNamed DEF Load, ConfigTypes
<1>4. CASE Snapshot
  BY <1>4, ConfigsNamed DEF Snapshot, ForgetScan, Connected, PlainHid, FilterTypes
<1>5. CASE Plan
  BY <1>5, ConfigsNamed DEF Plan
<1>6. CASE Arm
  BY <1>6, ConfigsNamed DEF Arm
<1>7. CASE ArmInsert
  BY <1>7, ConfigsNamed DEF ArmInsert
<1>8. CASE WakeStop
  BY <1>8, ConfigsNamed DEF WakeStop
<1>9. CASE WakeControl
  BY <1>9, ConfigsNamed DEF WakeControl, Attach, Detach
<1>10. CASE WakeFilter
  BY <1>10, ConfigsNamed DEF WakeFilter
<1>11. CASE WakeRetry
  BY <1>11, ConfigsNamed DEF WakeRetry
<1>12. CASE WakeWorker
  BY <1>12, ConfigsNamed DEF WakeWorker
<1>13. CASE Join
  BY <1>13, ConfigsNamed DEF Join, CompleteQueued
<1>14. CASE ScanFails
  BY <1>14, ConfigsNamed DEF ScanFails, ForgetScan
<1>15. CASE Reply
  BY <1>15, ConfigsNamed DEF Reply
<1>16. CASE TimerFires
  BY <1>16, ConfigsNamed DEF TimerFires
<1>17. CASE PortsChange
  BY <1>17, ConfigsNamed DEF PortsChange
<1>18. CASE StopRequested
  BY <1>18, ConfigsNamed DEF StopRequested
<1>19. ASSUME NEW a \in Addresses, Launch(a)
      PROVE  LoopTypes'
  BY <1>19, ConfigsNamed DEF Launch, ForgetScan, Consumed
<1>20. ASSUME NEW a \in Addresses, BackoffExpires(a)
      PROVE  LoopTypes'
  BY <1>20, ConfigsNamed DEF BackoffExpires
<1>21. ASSUME NEW command \in Commands, Send(command)
      PROVE  LoopTypes'
  BY <1>21, ConfigsNamed DEF Send
<1>22. ASSUME NEW w \in workers,
              \/ WorkerBinds(w) \/ WorkerFailsToOpen(w)
              \/ WorkerUnbinds(w) \/ WorkerDone(w)
       PROVE  LoopTypes'
  BY <1>22 DEF WorkerBinds, WorkerFailsToOpen, WorkerUnbinds, WorkerDone,
     WorkerFrame
<1>23. CASE Filter
  BY <1>23 DEF Filter
<1>24. CASE Idle \/ UNCHANGED vars
  BY <1>24 DEF Idle, vars
<1> QED BY <1>1, <1>2, <1>3, <1>4, <1>5, <1>6, <1>7, <1>8, <1>9, <1>10, <1>11, <1>12,
     <1>13, <1>14, <1>15, <1>16, <1>17, <1>18, <1>19, <1>20, <1>21, <1>22, <1>23, <1>24
     DEF Next, Loop, WorkerStep, Time

(* A worker that is launched takes an allowed port that is enabled and     *)
(* that no worker, retiring or not, has reserved.                          *)
LEMMA LaunchedWorker ==
  ASSUME ConfigTypes, NEW a \in todo, todo \subseteq Addresses, MayLaunch(a)
  PROVE  /\ Worker(a) \in Workers
         /\ \A w \in workers : w.addr # a /\ w.port # Worker(a).port
<1> USE ConfigsNamed
<1>1. cfg[a] \in Configs
  BY DEF ConfigTypes
<1>2. cfg[a].ports \subseteq Ports /\ cfg[a].profile \in STRING
  BY <1>1
<1>3. Candidates(a) \in SUBSET Nat /\ Candidates(a) # {}
  BY <1>2 DEF Candidates, MayLaunch
<1>4. Min(Candidates(a)) \in Candidates(a)
  BY <1>3, MinOfNats
<1>5. Min(Candidates(a)) \in Ports /\ Min(Candidates(a)) \notin Reserved
  BY <1>2, <1>4 DEF Candidates
<1> QED BY <1>2, <1>5 DEF Worker, Workers, MayLaunch, HasWorker, Reserved

(* Retiring changes nothing but the stop flags.                            *)
LEMMA RetireKeeps ==
  ASSUME NEW ws \in SUBSET Workers
  PROVE  /\ Retire(ws) \subseteq Workers
         /\ \A v \in Retire(ws) : \E w \in ws :
               /\ v = IF Stale(w) THEN [w EXCEPT !.stop = TRUE] ELSE w
               /\ v.addr = w.addr /\ v.port = w.port /\ v.phase = w.phase
         /\ \A w \in ws : \E v \in Retire(ws) :
               v.addr = w.addr /\ v.port = w.port /\ v.phase = w.phase
<1> DEFINE f(w) == IF Stale(w) THEN [w EXCEPT !.stop = TRUE] ELSE w
<1>1. \A w \in ws : /\ f(w) \in Workers
                    /\ f(w).addr = w.addr /\ f(w).port = w.port
                    /\ f(w).phase = w.phase
  BY DEF Workers
<1>2. Retire(ws) = {f(w) : w \in ws}
  BY DEF Retire
<1> HIDE DEF f
<1>3. /\ \A v \in Retire(ws) : \E w \in ws : v = f(w)
      /\ \A w \in ws : f(w) \in Retire(ws)
  BY <1>2
<1> QED BY <1>1, <1>3 DEF f

(* A step of a worker thread replaces its own record, which keeps its      *)
(* controller and its port; only a bind or an unbind changes its hold of   *)
(* the port.                                                               *)
LEMMA WorkerAdvances ==
  ASSUME workers \subseteq Workers, NEW w \in workers,
         \/ WorkerBinds(w) \/ WorkerFailsToOpen(w)
         \/ WorkerUnbinds(w) \/ WorkerDone(w)
  PROVE  \E v \in Workers :
            /\ Advance(w, v) /\ v.addr = w.addr /\ v.port = w.port
            /\ \/ v.phase = "bound" /\ bound' = bound \cup {w.port}
                  /\ w.phase # "bound"
               \/ v.phase # "bound" /\ bound' = bound /\ w.phase # "bound"
               \/ v.phase # "bound" /\ bound' = bound \ {w.port}
                  /\ w.phase = "bound"
            /\ UNCHANGED <<cfg, todo, db, enabled, spc>>
<1>0. w \in Workers
  OBVIOUS
<1> USE DEF WorkerFrame, loopVars
<1>1. CASE WorkerBinds(w)
  <2> DEFINE v == [w EXCEPT !.phase = "bound"]
  <2>1. v \in Workers /\ v.addr = w.addr /\ v.port = w.port /\ v.phase = "bound"
    BY <1>0 DEF Workers
  <2>2. /\ Advance(w, v) /\ bound' = bound \cup {w.port} /\ w.phase # "bound"
        /\ UNCHANGED <<cfg, todo, db, enabled, spc>>
    BY <1>1 DEF WorkerBinds
  <2> QED BY <2>1, <2>2
<1>2. CASE WorkerFailsToOpen(w)
  <2> DEFINE v == [w EXCEPT !.phase = "ended"]
  <2>1. v \in Workers /\ v.addr = w.addr /\ v.port = w.port /\ v.phase # "bound"
    BY <1>0 DEF Workers
  <2>2. /\ Advance(w, v) /\ bound' = bound /\ w.phase # "bound"
        /\ UNCHANGED <<cfg, todo, db, enabled, spc>>
    BY <1>2 DEF WorkerFailsToOpen
  <2> QED BY <2>1, <2>2
<1>3. CASE WorkerUnbinds(w)
  <2> DEFINE v == [w EXCEPT !.phase = "ended"]
  <2>1. v \in Workers /\ v.addr = w.addr /\ v.port = w.port /\ v.phase # "bound"
    BY <1>0 DEF Workers
  <2>2. /\ Advance(w, v) /\ bound' = bound \ {w.port} /\ w.phase = "bound"
        /\ UNCHANGED <<cfg, todo, db, enabled, spc>>
    BY <1>3 DEF WorkerUnbinds
  <2> QED BY <2>1, <2>2
<1>4. CASE WorkerDone(w)
  <2> DEFINE told == w.stop \/ stop
             v == [w EXCEPT !.phase = "done", !.failed = ~told]
  <2>1. (~told) \in BOOLEAN
    OBVIOUS
  <2>2. /\ Advance(w, v) /\ bound' = bound /\ w.phase # "bound"
        /\ UNCHANGED <<cfg, todo, db, enabled, spc>>
    BY <1>4 DEF WorkerDone
  <2> HIDE DEF told
  <2>3. v \in Workers /\ v.addr = w.addr /\ v.port = w.port /\ v.phase # "bound"
    BY <1>0, <2>1 DEF Workers
  <2> QED BY <2>2, <2>3
<1> QED BY <1>1, <1>2, <1>3, <1>4

(* Every step keeps the types of the configurations, the ports and the     *)
(* workers.                                                                *)
LEMMA ConfigTypeStep ==
  ASSUME LoopTypes, ConfigTypes, [Next]_vars
  PROVE  ConfigTypes'
<1> USE ConfigsNamed DEF ConfigTypes, loopVars, outside
<1>0. todo \subseteq Addresses
  BY DEF LoopTypes
<1>1. CASE Reap
  BY <1>1 DEF Reap
<1>2. CASE LoopEnds
  BY <1>2 DEF LoopEnds
<1>3. CASE Load
  BY <1>3 DEF Load
<1>4. CASE Plan
  BY <1>4 DEF Plan
<1>5. CASE Arm
  BY <1>5 DEF Arm
<1>6. CASE ArmInsert
  BY <1>6 DEF ArmInsert
<1>7. CASE WakeStop
  BY <1>7 DEF WakeStop
<1>8. CASE WakeFilter
  BY <1>8 DEF WakeFilter
<1>9. CASE WakeRetry
  BY <1>9 DEF WakeRetry
<1>10. CASE WakeWorker
  BY <1>10 DEF WakeWorker
<1>11. CASE Join
  BY <1>11 DEF Join
<1>12. CASE ScanFails
  BY <1>12 DEF ScanFails, ForgetScan
<1>13. CASE Reply
  BY <1>13 DEF Reply
<1>14. CASE TimerFires
  BY <1>14 DEF TimerFires
<1>15. CASE PortsChange
  BY <1>15 DEF PortsChange
<1>16. CASE StopRequested
  BY <1>16 DEF StopRequested
<1>17. CASE Snapshot
  <2>1. Retire(workers) \subseteq Workers
    BY RetireKeeps
  <2> QED BY <1>17, <2>1 DEF Snapshot, ForgetScan
<1>18. ASSUME NEW a \in Addresses, Launch(a)
      PROVE  ConfigTypes'
  <2>1. workers' \subseteq Workers
    BY <1>0, <1>18, LaunchedWorker DEF Launch
  <2>2. UNCHANGED <<db, enabled, bound>> /\ spc = "launch"
    BY <1>18 DEF Launch
  <2>3. CASE todo' = {}
    <3>1. cfg' = [b \in Addresses |-> NoConfig]
      BY <1>18, <2>3 DEF Launch, ForgetScan
    <3> QED BY <2>1, <2>2, <2>3, <3>1
  <2>4. CASE todo' # {}
    <3>1. UNCHANGED <<spc, cfg>> /\ todo' \subseteq todo
      BY <1>18, <2>4 DEF Launch
    <3> QED BY <2>1, <2>2, <3>1
  <2> QED BY <2>3, <2>4
<1>19. CASE WakeControl
  <2>1. db' \in [Addresses -> Configs \cup {NoConfig}]
    BY <1>19 DEF WakeControl, Attach, Detach
  <2> QED BY <1>19, <2>1 DEF WakeControl
<1>20. ASSUME NEW w \in workers,
              \/ WorkerBinds(w) \/ WorkerFailsToOpen(w)
              \/ WorkerUnbinds(w) \/ WorkerDone(w)
       PROVE  ConfigTypes'
  <2>1. w.port \in Ports
    BY DEF Workers
  <2>2. PICK v \in Workers :
           /\ Advance(w, v)
           /\ bound' \in {bound \cup {w.port}, bound, bound \ {w.port}}
           /\ UNCHANGED <<cfg, todo, db, enabled, spc>>
    BY <1>20, WorkerAdvances
  <2>3. workers' \subseteq Workers
    BY <2>2 DEF Advance
  <2> QED BY <2>1, <2>2, <2>3
<1>21. ASSUME NEW a \in Addresses, BackoffExpires(a)
      PROVE  ConfigTypes'
  BY <1>21 DEF BackoffExpires
<1>22. ASSUME NEW command \in Commands, Send(command)
      PROVE  ConfigTypes'
  BY <1>22 DEF Send
<1>23. CASE Filter
  BY <1>23 DEF Filter
<1>24. CASE Idle \/ UNCHANGED vars
  BY <1>24 DEF Idle, vars
<1> QED BY <1>1, <1>2, <1>3, <1>4, <1>5, <1>6, <1>7, <1>8, <1>9, <1>10, <1>11, <1>12,
     <1>13, <1>14, <1>15, <1>16, <1>17, <1>18, <1>19, <1>20, <1>21, <1>22, <1>23, <1>24
        DEF Next, Loop, WorkerStep, Time

(* The state of the driver and of the daemon is always of its type; the    *)
(* list never holds a stack twice, and only the launch loop has            *)
(* configurations still to look at.                                        *)
THEOREM Typing == Spec => []TypeOK
<1>1. TypeOK /\ [Next]_vars => TypeOK'
  BY FilterTypeStep, LoopTypeStep, ConfigTypeStep DEF TypeOK
<1> QED BY <1>1, TypeInit, PTL DEF Spec

-----------------------------------------------------------------------------
(* Workers and ports.                                                      *)

(* Steps that leave the workers and the bound ports alone.                 *)
LEMMA ExclusiveKept ==
  ASSUME WorkersExclusive, UNCHANGED <<workers, bound>>
  PROVE  WorkersExclusive'
BY DEF WorkersExclusive

(* Every step keeps the workers apart.                                     *)
LEMMA ExclusiveStep ==
  ASSUME TypeOK, WorkersExclusive, [Next]_vars
  PROVE  WorkersExclusive'
<1>0. workers \subseteq Workers /\ todo \subseteq Addresses /\ ConfigTypes
  BY DEF TypeOK, LoopTypes, ConfigTypes
<1> USE DEF loopVars, outside
<1>1. CASE Reap
  BY <1>1 DEF Reap, Done, WorkersExclusive
<1>2. CASE Snapshot
  <2>1. workers' = Retire(workers) /\ bound' = bound
    BY <1>2 DEF Snapshot
  <2>2. \A v, w \in workers' : v # w => v.addr # w.addr /\ v.port # w.port
    <3> SUFFICES ASSUME NEW v \in workers', NEW w \in workers', v # w
                 PROVE  v.addr # w.addr /\ v.port # w.port
      OBVIOUS
    <3> DEFINE f(x) == IF Stale(x) THEN [x EXCEPT !.stop = TRUE] ELSE x
    <3>1. PICK x \in workers : v = f(x) /\ v.addr = x.addr /\ v.port = x.port
      BY <1>0, <2>1, RetireKeeps
    <3>2. PICK y \in workers : w = f(y) /\ w.addr = y.addr /\ w.port = y.port
      BY <1>0, <2>1, RetireKeeps
    <3> HIDE DEF f
    <3>3. x # y
      BY <3>1, <3>2
    <3> QED BY <3>1, <3>2, <3>3 DEF WorkersExclusive
  <2>3. {w.port : w \in {v \in workers' : v.phase = "bound"}}
          = {w.port : w \in {v \in workers : v.phase = "bound"}}
    BY <1>0, <2>1, RetireKeeps
  <2> QED BY <2>1, <2>2, <2>3 DEF WorkersExclusive
<1>3. ASSUME NEW a \in Addresses, Launch(a)
      PROVE  WorkersExclusive'
  <2>1. a \in todo /\ bound' = bound
    BY <1>3 DEF Launch
  <2>2. CASE workers' = workers
    BY <2>1, <2>2, ExclusiveKept
  <2>3. CASE workers' = workers \cup {Worker(a)} /\ MayLaunch(a)
    <3>1. \A w \in workers : w.addr # a /\ w.port # Worker(a).port
      BY <1>0, <2>1, <2>3, LaunchedWorker
    <3>2. Worker(a).addr = a /\ Worker(a).phase # "bound"
      BY DEF Worker
    <3> QED BY <2>1, <2>3, <3>1, <3>2 DEF WorkersExclusive
  <2> QED BY <1>3, <2>2, <2>3 DEF Launch
<1>4. CASE Join
  BY <1>4 DEF Join, Done, WorkersExclusive
<1>5. ASSUME NEW w \in workers,
              \/ WorkerBinds(w) \/ WorkerFailsToOpen(w)
              \/ WorkerUnbinds(w) \/ WorkerDone(w)
      PROVE  WorkersExclusive'
  <2>1. PICK v \in Workers :
            /\ Advance(w, v) /\ v.addr = w.addr /\ v.port = w.port
            /\ \/ v.phase = "bound" /\ bound' = bound \cup {w.port}
                  /\ w.phase # "bound"
               \/ v.phase # "bound" /\ bound' = bound /\ w.phase # "bound"
               \/ v.phase # "bound" /\ bound' = bound \ {w.port}
                  /\ w.phase = "bound"
    BY <1>0, <1>5, WorkerAdvances
  <2>2. workers' = (workers \ {w}) \cup {v}
    BY <2>1 DEF Advance
  <2>3. \A x, y \in workers' : x # y => x.addr # y.addr /\ x.port # y.port
    BY <2>1, <2>2 DEF WorkersExclusive
  <2>4. ASSUME NEW p
        PROVE  p \in bound' <=> \E x \in workers' : x.phase = "bound" /\ x.port = p
    BY <2>1, <2>2 DEF WorkersExclusive
  <2>5. bound' = {x.port : x \in {y \in workers' : y.phase = "bound"}}
    BY <2>4
  <2> QED BY <2>3, <2>5 DEF WorkersExclusive
<1>6. CASE \/ LoopEnds \/ Load \/ Plan \/ Arm \/ ArmInsert \/ WakeStop
           \/ WakeControl \/ WakeFilter \/ WakeRetry \/ WakeWorker
           \/ ScanFails \/ Reply \/ Filter \/ Time \/ PortsChange
           \/ StopRequested \/ Idle \/ UNCHANGED vars
           \/ \E command \in Commands : Send(command)
  <2>1. UNCHANGED <<workers, bound>>
    BY <1>6 DEF LoopEnds, Load, Plan, Arm, ArmInsert, WakeStop, WakeControl,
       WakeFilter, WakeRetry, WakeWorker, ScanFails, Reply, Filter, Time,
       TimerFires, BackoffExpires, PortsChange, StopRequested, Idle, vars, Send
  <2> QED BY <2>1, ExclusiveKept
<1> QED BY <1>1, <1>2, <1>3, <1>4, <1>5, <1>6 DEF Next, Loop, WorkerStep

(* No two bridge workers, retiring ones included, share a controller or a  *)
(* virtual port, and the bound ports are exactly those of the workers that *)
(* have bound one: for any number of controllers, ports and failures.      *)
THEOREM Exclusive == Spec => []WorkersExclusive
<1>1. Init => WorkersExclusive
  BY DEF Init, WorkersExclusive
<1>2. TypeOK /\ WorkersExclusive /\ [Next]_vars => WorkersExclusive'
  BY ExclusiveStep
<1> QED BY <1>1, <1>2, Typing, PTL DEF Spec

-----------------------------------------------------------------------------
(* The change request.                                                     *)

(* A stack whose thread has changed what GET_DEVICES would say and has yet *)
(* to raise the generation, and one that has raised it and has yet to      *)
(* complete the waiting request.                                           *)
Pending(d) ==
    \/ pnp[d] \in {"add_bump", "start_bump", "remove_bump"}
    \/ pnp[d] \in {"start_read", "start_list"} /\ Listed(d)
    \/ pnp[d] = "start_link" /\ (changed[d] \/ Listed(d))
Draining(d) == pnp[d] \in {"add_drain", "start_drain", "remove_drain"}

(* The inductive invariant: a snapshot of the current generation is the    *)
(* list of now unless a change is pending, and a waiting request is of the *)
(* current generation unless it is about to be completed.                  *)
OutsideList == {"absent", "add_list", "remove_bump", "remove_drain",
                "remove_link"}
Unlinked == \A d \in Devs : pnp[d] \in OutsideList => ~Listed(d)
SnapshotOfGeneration ==
    gen = generation /\ (\A d \in Devs : ~Pending(d))
        => snap = Connected(GetDevices(Entries))
WaitOfGeneration ==
    irp = "queued" => gen = generation \/ \E d \in Devs : Draining(d)
ChangeInv ==
    /\ Unlinked /\ SnapshotOfGeneration /\ WaitOfGeneration
    /\ gen <= generation
    /\ spc = "snapshot" => irp = "none"

(* The profile of a stack that is not listed is in no entry.               *)
LEMMA EntriesKept ==
  ASSUME FilterTypes, NEW d \in Devs, NEW x, devList' = devList,
         profile' = [profile EXCEPT ![d] = x], ~Listed(d)
  PROVE  Entries' = Entries
<1>1. \A i \in DOMAIN devList : devList[i] \in Devs /\ devList[i] # d
  BY DEF Listed, ToSet, FilterTypes
<1>2. \A i \in DOMAIN devList : profile'[devList[i]] = profile[devList[i]]
  BY <1>1 DEF FilterTypes
<1> QED BY <1>2 DEF Entries

(* Which stacks are listed after a list changed.                           *)
LEMMA ListedAfter ==
  ASSUME FilterTypes, NEW d \in Devs
  PROVE  /\ devList' = Append(devList, d)
              => \A e \in Devs : Listed(e)' <=> Listed(e) \/ e = d
         /\ devList' \in Unlisted(devList, d)
              => \A e \in Devs : Listed(e)' <=> Listed(e) /\ e # d
<1>1. devList \in Seq(Devs) /\ NoDup(devList)
  BY DEF FilterTypes
<1>2. ASSUME devList' = Append(devList, d)
      PROVE  ToSet(devList') = ToSet(devList) \cup {d}
  BY <1>1, <1>2, AppendElements
<1>3. ASSUME devList' \in Unlisted(devList, d)
      PROVE  ToSet(devList') = ToSet(devList) \ {d}
  BY <1>1, <1>3, UnlistedElements
<1> QED BY <1>2, <1>3 DEF Listed

(* A step of a PnP thread: it changes what GET_DEVICES says only when the  *)
(* change is pending afterwards, and a pending change stays pending until  *)
(* the generation is raised.                                               *)
LEMMA PnpChanges ==
  ASSUME FilterTypes, Unlinked, NEW d \in Devs, PnpStep(d)
  PROVE  /\ Unlinked'
         /\ \/ /\ generation' = generation
               /\ Pending(d) => Pending(d)'
               /\ Entries' = Entries \/ Pending(d)'
               /\ \A e \in Devs \ {d} : Pending(e)' <=> Pending(e)
            \/ generation' = generation + 1
         /\ \/ irp' = irp /\ (\A e \in Devs : Draining(e) => Draining(e)')
               /\ (generation' = generation \/ Draining(d)')
            \/ irp' # "queued"
<1> DEFINE Others == \A e \in Devs \ {d} :
                        /\ pnp'[e] = pnp[e] /\ changed'[e] = changed[e]
                        /\ Listed(e)' <=> Listed(e)
<1>1. ASSUME Others
      PROVE  /\ \A e \in Devs \ {d} : Pending(e)' <=> Pending(e)
             /\ \A e \in Devs \ {d} : Draining(e)' <=> Draining(e)
             /\ (pnp'[d] \in OutsideList => ~Listed(d)') => Unlinked'
  BY <1>1 DEF Pending, Draining, Unlinked
<1> USE DEF FilterTypes, Goto, Input
<1>2. CASE VdsAddDevice(d)
  <2>1. /\ pnp[d] = "absent" /\ pnp' = [pnp EXCEPT ![d] = "add_list"]
        /\ UNCHANGED <<changed, devList, generation, irp>>
        /\ \E x : profile' = [profile EXCEPT ![d] = x]
    BY <1>2 DEF VdsAddDevice, VdsReadPhysicalDeviceProfile
  <2>2. ~Listed(d) /\ ~Listed(d)'
    BY <2>1 DEF Unlinked, OutsideList, Listed
  <2>3. Entries' = Entries
    BY <2>1, <2>2, EntriesKept
  <2>4. Others
    BY <2>1 DEF Listed
  <2>5. ~Pending(d) /\ ~Draining(d)
    BY <2>1 DEF Pending, Draining
  <2> QED BY <1>1, <2>1, <2>2, <2>3, <2>4, <2>5
<1>3. CASE StartClears(d)
  <2>1. /\ pnp[d] = "attached" /\ pnp' = [pnp EXCEPT ![d] = "start_read"]
        /\ UNCHANGED <<changed, devList, generation, irp>>
        /\ profile' = [profile EXCEPT ![d] = Unknown]
    BY <1>3 DEF StartClears
  <2>2. Listed(d)' <=> Listed(d)
    BY <2>1 DEF Listed
  <2>3. Entries' = Entries \/ Pending(d)'
    BY <2>1, <2>2, EntriesKept DEF Pending
  <2>4. Others
    BY <2>1 DEF Listed
  <2>5. ~Pending(d) /\ ~Draining(d) /\ pnp'[d] \notin OutsideList
    BY <2>1 DEF Pending, Draining, OutsideList
  <2> QED BY <1>1, <2>1, <2>3, <2>4, <2>5
<1>4. CASE StartReads(d)
  <2>1. /\ pnp[d] = "start_read" /\ pnp' = [pnp EXCEPT ![d] = "start_list"]
        /\ UNCHANGED <<changed, devList, generation, irp>>
        /\ \E x : profile' = [profile EXCEPT ![d] = x]
    BY <1>4 DEF StartReads, VdsReadPhysicalDeviceProfile
  <2>2. Listed(d)' <=> Listed(d)
    BY <2>1 DEF Listed
  <2>3. Entries' = Entries \/ Pending(d)'
    BY <2>1, <2>2, EntriesKept DEF Pending
  <2>4. Others
    BY <2>1 DEF Listed
  <2>5. (Pending(d) => Pending(d)') /\ ~Draining(d) /\ pnp'[d] \notin OutsideList
    BY <2>1, <2>2 DEF Pending, Draining, OutsideList
  <2> QED BY <1>1, <2>1, <2>3, <2>4, <2>5
<1>5. CASE VdsUpdateDeviceListMembership(d)
  <2> DEFINE change == ShouldList(d) # Listed(d)
  <2>1. /\ pnp[d] \in {"add_list", "start_list"}
        /\ devList' \in IF ~change THEN {devList}
                        ELSE IF ShouldList(d) THEN {Append(devList, d)}
                        ELSE Unlisted(devList, d)
        /\ changed' = [changed EXCEPT ![d] = change]
        /\ pnp' = [pnp EXCEPT ![d] =
                     IF pnp[d] = "start_list" THEN "start_link"
                     ELSE IF change THEN "add_bump" ELSE "add_link"]
        /\ UNCHANGED <<profile, generation, irp>>
    BY <1>5 DEF VdsUpdateDeviceListMembership
  <2>2. pnp[d] = "add_list" => ~Listed(d)
    BY DEF Unlinked, OutsideList
  <2>3. CASE ~change
    <3>1. UNCHANGED <<devList, profile>> /\ (Listed(d)' <=> Listed(d))
      BY <2>1, <2>3 DEF Listed
    <3>2. Entries' = Entries
      BY <3>1 DEF Entries
    <3>3. pnp'[d] = IF pnp[d] = "start_list" THEN "start_link" ELSE "add_link"
      BY <2>1, <2>3
    <3>4. (Pending(d) => Pending(d)') /\ ~Draining(d)
          /\ pnp'[d] \notin OutsideList
      BY <2>1, <3>1, <3>3 DEF Pending, Draining, OutsideList
    <3>5. Others
      BY <2>1, <3>1 DEF Listed
    <3> QED BY <1>1, <2>1, <3>2, <3>4, <3>5
  <2>4. CASE change
    <3>1. changed'[d] = TRUE /\ pnp'[d] \in {"start_link", "add_bump"}
      BY <2>1, <2>4
    <3>2. Pending(d)' /\ ~Draining(d) /\ pnp'[d] \notin OutsideList
      BY <2>1, <3>1 DEF Pending, Draining, OutsideList
    <3>3. Others
      BY <2>1, <2>4, ListedAfter
    <3> QED BY <1>1, <2>1, <3>2, <3>3
  <2> QED BY <2>3, <2>4
<1>6. CASE VdsUpdateSymbolicLink(d)
  <2>1. /\ pnp[d] \in {"add_link", "start_link"}
        /\ pnp' = [pnp EXCEPT ![d] =
                     IF pnp[d] = "start_link" /\ (changed[d] \/ Listed(d))
                     THEN "start_bump" ELSE "attached"]
        /\ UNCHANGED <<profile, changed, devList, generation, irp>>
    BY <1>6 DEF VdsUpdateSymbolicLink
  <2>2. Entries' = Entries /\ Others
    BY <2>1 DEF Entries, Listed
  <2>3. (Pending(d) => Pending(d)') /\ ~Draining(d) /\ pnp'[d] \notin OutsideList
    BY <2>1 DEF Pending, Draining, OutsideList
  <2> QED BY <1>1, <2>1, <2>2, <2>3
<1>7. CASE Bump(d)
  <2>1. /\ pnp[d] \in {"add_bump", "start_bump", "remove_bump"}
        /\ generation' = generation + 1
        /\ pnp' = [pnp EXCEPT ![d] =
                     CASE pnp[d] = "add_bump" -> "add_drain"
                       [] pnp[d] = "start_bump" -> "start_drain"
                       [] OTHER -> "remove_drain"]
        /\ UNCHANGED <<profile, changed, devList, irp>>
    BY <1>7 DEF Bump, NextGeneration
  <2>2. Others
    BY <2>1 DEF Listed
  <2>3. Draining(d)' /\ (pnp'[d] \in OutsideList => pnp[d] \in OutsideList)
    BY <2>1 DEF Draining, OutsideList
  <2>4. pnp'[d] \in OutsideList => ~Listed(d)'
    BY <2>1, <2>3 DEF Unlinked, Listed
  <2> QED BY <1>1, <2>1, <2>2, <2>3, <2>4
<1>8. CASE Drain(d)
  <2>1. /\ Draining(d) /\ UNCHANGED <<profile, changed, devList, generation>>
        /\ irp' # "queued"
        /\ pnp' = [pnp EXCEPT ![d] =
                     CASE pnp[d] = "add_drain" -> "add_link"
                       [] pnp[d] = "start_drain" -> "attached"
                       [] OTHER -> "remove_link"]
    BY <1>8 DEF Drain, Draining, VdsCompleteDeviceWaitQueue
  <2>2. Entries' = Entries /\ Others
    BY <2>1 DEF Entries, Listed
  <2>3. ~Pending(d) /\ (pnp'[d] \in OutsideList => pnp[d] \in OutsideList)
    BY <2>1 DEF Pending, Draining, OutsideList
  <2>4. pnp'[d] \in OutsideList => ~Listed(d)'
    BY <2>1, <2>3 DEF Unlinked, Listed
  <2> QED BY <1>1, <2>1, <2>2, <2>3, <2>4
<1>9. CASE RemoveUnlists(d)
  <2>1. /\ pnp[d] = "attached" /\ devList' \in Unlisted(devList, d)
        /\ pnp' = [pnp EXCEPT ![d] = IF Listed(d) THEN "remove_bump"
                                     ELSE "remove_link"]
        /\ UNCHANGED <<profile, changed, generation, irp>>
    BY <1>9 DEF RemoveUnlists
  <2>2. Others /\ ~Listed(d)'
    BY <2>1, ListedAfter
  <2>3. ~Listed(d) => devList' = devList
    BY <2>1 DEF Unlisted, Listed
  <2>4. Entries' = Entries \/ Pending(d)'
    BY <2>1, <2>3 DEF Entries, Pending
  <2>5. ~Pending(d) /\ ~Draining(d)
    BY <2>1 DEF Pending, Draining
  <2> QED BY <1>1, <2>1, <2>2, <2>4, <2>5
<1>10. CASE VdsDeleteSymbolicLink(d)
  <2>1. /\ pnp[d] = "remove_link" /\ pnp' = [pnp EXCEPT ![d] = "absent"]
        /\ changed' = [changed EXCEPT ![d] = FALSE]
        /\ profile' = [profile EXCEPT ![d] = Unknown]
        /\ UNCHANGED <<devList, generation, irp>>
    BY <1>10 DEF VdsDeleteSymbolicLink
  <2>2. ~Listed(d) /\ ~Listed(d)'
    BY <2>1 DEF Unlinked, OutsideList, Listed
  <2>3. Entries' = Entries /\ Others
    BY <2>1, <2>2, EntriesKept DEF Listed
  <2>4. ~Pending(d) /\ ~Draining(d)
    BY <2>1 DEF Pending, Draining
  <2> QED BY <1>1, <2>1, <2>2, <2>3, <2>4
<1> QED BY <1>2, <1>3, <1>4, <1>5, <1>6, <1>7, <1>8, <1>9, <1>10 DEF PnpStep

(* The driver and the daemon start in agreement: the daemon has no         *)
(* generation yet, and every listed stack is attached.                     *)
LEMMA ChangeInit ==
  ASSUME Init
  PROVE  ChangeInv
<1>1. TypeOK
  BY TypeInit
<1>2. generation \in Nat \ {0} /\ gen = 0 /\ spc = "top" /\ irp = "none"
  BY <1>1 DEF TypeOK, FilterTypes, Init, FilterInit
<1>3. Unlinked
  BY DEF Init, FilterInit, Unlinked, OutsideList
<1> QED BY <1>2, <1>3 DEF ChangeInv, SnapshotOfGeneration, WaitOfGeneration

(* Every step keeps the invariant, as long as a driver the daemon has seen *)
(* is not taken away.                                                      *)
LEMMA ChangeStep ==
  ASSUME TypeOK, DriverStays, ChangeInv, [Next]_vars
  PROVE  ChangeInv'
<1>0. FilterTypes /\ generation \in Nat \ {0} /\ gen \in Nat
  BY DEF TypeOK, FilterTypes, LoopTypes
<1> USE DEF ChangeInv
<1>1. CASE ~Filter
  <2>1. UNCHANGED <<loaded, pnp, profile, changed, devList, linked, generation>>
    BY <1>1, DaemonStep DEF sleeping, stackVars
  <2>2. /\ Entries' = Entries
        /\ \A d \in Devs : /\ Listed(d)' <=> Listed(d)
                           /\ Pending(d)' <=> Pending(d)
                           /\ Draining(d)' <=> Draining(d)
    BY <2>1 DEF Entries, Listed, Pending, Draining
  <2>3. Unlinked'
    BY <2>1, <2>2 DEF Unlinked
  <2>4. Connected(GetDevices(Entries))' = Connected(GetDevices(Entries))
    BY <2>2
  <2>5. gen' <= generation' /\ (spc' = "snapshot" => irp' = "none")
    BY <1>0, <1>1, <2>1, DaemonStep
  <2>6. SnapshotOfGeneration'
    BY <1>0, <1>1, <2>1, <2>2, <2>4, DaemonStep
       DEF SnapshotOfGeneration, DriverStays
  <2>7. WaitOfGeneration'
    BY <1>0, <1>1, <2>1, <2>2, DaemonStep
       DEF WaitOfGeneration, VdsWaitQueueInsertIrpEx
  <2> QED BY <2>3, <2>5, <2>6, <2>7
<1>2. CASE Filter
  <2>0. UNCHANGED <<gen, snap, spc>>
    BY <1>2 DEF Filter, loopVars
  <2>1. CASE DriverEntry
    <3>1. gen = 0 /\ generation' = 1 /\ devList' = <<>> /\ UNCHANGED <<pnp, irp>>
      BY <1>0, <2>1 DEF DriverEntry, DriverStays
    <3>2. \A d \in Devs : ~Listed(d)' /\ (Draining(d)' <=> Draining(d))
      BY <3>1 DEF Listed, ToSet, Draining
    <3> QED BY <1>0, <2>0, <3>1, <3>2
            DEF Unlinked, SnapshotOfGeneration, WaitOfGeneration
  <2>2. CASE VdsUnload(held)
    <3>1. /\ UNCHANGED <<pnp, profile, changed, devList, linked, generation>>
          /\ VdsCompleteDeviceWaitQueue("failed")
      BY <2>2, Zenon DEF VdsUnload
    <3>2. irp' # "queued" /\ (irp = "none" => irp' = "none")
      BY <3>1 DEF VdsCompleteDeviceWaitQueue
    <3>3. /\ Entries' = Entries
          /\ \A d \in Devs : /\ Listed(d)' <=> Listed(d)
                             /\ Pending(d)' <=> Pending(d)
      BY <3>1 DEF Entries, Listed, Pending
    <3>4. Unlinked'
      BY <3>1, <3>3 DEF Unlinked
    <3>5. SnapshotOfGeneration'
      BY <2>0, <3>1, <3>3 DEF SnapshotOfGeneration
    <3> QED BY <2>0, <3>1, <3>2, <3>4, <3>5 DEF WaitOfGeneration
  <2>3. ASSUME NEW d \in Devs, PnpStep(d)
        PROVE  ChangeInv'
    <3>1. irp = "none" => irp' = "none"
      BY <2>3 DEF PnpStep, VdsAddDevice, StartClears, StartReads,
         VdsUpdateDeviceListMembership, VdsUpdateSymbolicLink, Bump, Drain,
         RemoveUnlists, VdsDeleteSymbolicLink, VdsCompleteDeviceWaitQueue
    <3>2. Unlinked' /\ generation' \in {generation, generation + 1}
      BY <1>0, <2>3, PnpChanges
    <3>3. SnapshotOfGeneration'
      BY <1>0, <2>0, <2>3, PnpChanges DEF SnapshotOfGeneration
    <3>4. WaitOfGeneration'
      BY <1>0, <2>0, <2>3, PnpChanges DEF WaitOfGeneration
    <3> QED BY <1>0, <2>0, <3>1, <3>2, <3>3, <3>4
  <2> QED BY <1>2, <2>1, <2>2, <2>3 DEF Filter
<1> QED BY <1>1, <1>2

(* WAIT_DEVICE_CHANGE never sleeps through a change of the device list,    *)
(* whatever PnP does between the scan and the request, unless a driver the *)
(* daemon has seen is unloaded.                                            *)
THEOREM ChangeNeverMissed == Spec => NoMissedChange
<1>1. ChangeInv => SnapshotCurrent
  BY DEF ChangeInv, SnapshotOfGeneration, WaitOfGeneration, SnapshotCurrent,
     Quiet, Pending, Draining
<1>2. TypeOK /\ DriverStays /\ ChangeInv /\ [Next]_vars => ChangeInv'
  BY ChangeStep
<1> QED BY <1>1, <1>2, ChangeInit, Typing, PTL DEF Spec, NoMissedChange

(* virtual_port_is_available ignores the bound flag over USB/IP.  It makes *)
(* no difference: the launch leaves out every port that has a worker, and  *)
(* no port a worker is about to bind is bound by another.  With either     *)
(* transport the same ports are chosen and bound, so what is shown for     *)
(* the driver's ports holds of USB/IP, whose ports are always enabled.     *)
THEOREM TransportsAgree ==
  Spec => [](/\ \A a \in Addresses : Candidates(a) = (cfg[a].ports \cap enabled) \ Reserved
             /\ \A w \in workers : w.phase = "opening" =>
                                     (w.port \in Available <=> w.port \in enabled))
<1> DEFINE Same ==
      /\ \A a \in Addresses : Candidates(a) = (cfg[a].ports \cap enabled) \ Reserved
      /\ \A w \in workers : w.phase = "opening" =>
                              (w.port \in Available <=> w.port \in enabled)
<1>1. WorkersExclusive => Same
  <2> SUFFICES ASSUME WorkersExclusive PROVE Same
    OBVIOUS
  <2>1. bound \subseteq Reserved
    BY DEF WorkersExclusive, Reserved
  <2>2. ASSUME NEW w \in workers, w.phase = "opening" PROVE w.port \notin bound
    BY <2>2 DEF WorkersExclusive
  <2> QED BY <2>1, <2>2 DEF Candidates, Available
<1> HIDE DEF Same
<1>2. Spec => []WorkersExclusive
  BY Exclusive
<1>3. Spec => []Same
  BY <1>1, <1>2, PTL
<1> QED BY <1>3 DEF Same
=============================================================================
