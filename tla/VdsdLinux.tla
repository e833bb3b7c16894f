------------------------------ MODULE VdsdLinux ------------------------------
(***************************************************************************)
(* The supervisor of the Linux daemon (src/platform/linux/vdsd.cc): the    *)
(* loop of main around epoll_wait, the virtual ports it holds open, the    *)
(* registered controllers and the ports they are bound to.  What a bound   *)
(* port does with its traffic is VdsdBridge.                               *)
(*                                                                         *)
(* The daemon is one thread.  Each wake-up hands it a batch of events that *)
(* name ports and controllers by their INDEX at the time epoll was last    *)
(* rebuilt, while devices, links and commands go on changing around it.    *)
(* Every C++ function is an operator on the record Daemon of what it       *)
(* changes; a handler is their composition.                                *)
(***************************************************************************)
EXTENDS Integers, FiniteSetsExt, Lists

CONSTANTS
  Addrs,        \* Bluetooth addresses of paired controllers
  Ports,        \* numbers of the /dev/vds<n> endpoints
  Profiles,     \* controller profiles
  Requests,     \* [profile, ports] an attach command may ask for
  InitialDbs,   \* configuration databases the daemon may find at its start
  MaxEvents,    \* bound on all of: connections made and lost, commands, endpoints added
                \* or removed, ends of the daemon, reloads and set-ups that fail
  MaxTraffic    \* bound on the data events in one batch

NoPort == -1    \* no device, or the path of a port that was moved from

(* An entry of the database, and the databases that parse_config_db takes: *)
(* no address is registered twice.                                         *)
Configs == [addr: Addrs, profile: Profiles, ports: Seq(Ports)]
Distinct(cs) == \A i, j \in DOMAIN cs : cs[i].addr = cs[j].addr => i = j

ASSUME LinuxAssumption ==
  /\ Ports \subseteq Nat /\ Ports # {} /\ IsFiniteSet(Ports)
  /\ Requests \subseteq [profile: Profiles, ports: Seq(Ports)]
  /\ \A q \in InitialDbs : q \in Seq(Configs) /\ Distinct(q)
  /\ {MaxEvents, MaxTraffic} \subseteq Nat

VARIABLES
  present,  \* endpoints that exist
  udev,     \* the monitor has an event the daemon has not drained
  link,     \* per controller: its connection number, whether it is up and has
            \* both channels
  lq,       \* connections the two L2CAP listeners hold, per channel
  cmd,      \* the command a vdsctl client is waiting with, a set of at most one
  db,       \* the configuration database
  ports,    \* std::vector<VirtualPort>: path, and whether its driver still runs
  ctl,      \* std::vector<ControllerRuntime>
  usb,      \* endpoints whose virtual USB device is connected
  reload, dirty,  \* reload_requested, epoll_dirty
  reg,      \* what the epoll set watches, by index
  batch,    \* events of the last wake-up still to be handled
  pc,       \* where the loop is
  ok,       \* the last reload went through
  left      \* what MaxEvents still allows

vars == <<present, udev, link, lq, cmd, db, ports, ctl, usb, reload, dirty, reg, batch, pc,
          ok, left>>
worldVars  == <<present, udev, link, lq, cmd, db>>
daemonVars == <<ports, ctl, usb, reload, dirty>>

Kinds == {"control", "interrupt"}
NoReg == [ports |-> <<>>, ctl |-> <<>>]

(* ControllerRuntime of a config: channels are connection numbers, 0 is    *)
(* none.                                                                   *)
Runtime(config) ==
  [addr |-> config.addr, profile |-> config.profile, ports |-> config.ports,
   device |-> NoPort, backend |-> 0, control |-> 0, interrupt |-> 0, vc |-> FALSE]

Released(c) == [c EXCEPT !.device = NoPort, !.backend = 0, !.control = 0,
                         !.interrupt = 0, !.vc = FALSE]

(* The daemon as main finds it after the listeners and the udev monitor    *)
(* have been opened.                                                       *)
Init ==
  /\ present \in SUBSET Ports \ {{}} /\ udev = FALSE
  /\ link = [a \in Addrs |-> [gen |-> 0, up |-> FALSE, whole |-> FALSE]]
  /\ lq = [k \in Kinds |-> <<>>] /\ cmd = {} /\ db \in InitialDbs
  /\ ports = <<>> /\ ctl = <<>> /\ usb = {}
  /\ reload = TRUE /\ dirty = TRUE /\ reg = NoReg /\ batch = {}
  /\ pc = "top" /\ ok = FALSE
  /\ left = MaxEvents

(***************************************************************************)
(* The functions of the daemon.                                            *)
(***************************************************************************)
Daemon == [ports |-> ports, ctl |-> ctl, usb |-> usb, reload |-> reload, dirty |-> dirty]
Becomes(d) ==
  /\ ports' = d.ports /\ ctl' = d.ctl /\ usb' = d.usb
  /\ reload' = d.reload /\ dirty' = d.dirty

Hung(a, gen) == ~link[a].up \/ link[a].gen # gen

PortPaths(ps) == {ps[i].path : i \in DOMAIN ps} \ {NoPort}
find_port_index(ps, path) == SelectInSeq(ps, LAMBDA p : p.path = path)

controller_uses_port(c) == c.backend # 0 \/ c.control # 0 \/ c.interrupt # 0 \/ c.vc

controller_config_allows_port(config, port) ==
  config.ports = <<>> \/ port \in Range(config.ports)

(* The elements of a set of numbers in increasing order. Device paths are  *)
(* sorted as text, which is the same order: VDS_MAX_PORT_COUNT is 4.       *)
Ascending(q) == \A i, j \in DOMAIN q : i < j => q[i] < q[j]
Sorted(S) == CHOOSE q \in SetToSeqs(S) : Ascending(q)

controller_config_port_targets(config) ==
  IF config.ports # <<>> THEN config.ports ELSE Sorted(Ports)

\* Every candidate counts, whether another controller has it or not.
MutantIgnoreOccupied(config, candidates, occupied) ==
  LET targets == controller_config_port_targets(config)
      i == SelectInSeq(targets, LAMBDA p : p \in candidates)
  IN  IF i = 0 THEN NoPort ELSE targets[i]

select_controller_config_port(config, candidates, occupied) ==
  LET targets == controller_config_port_targets(config)
      i == SelectInSeq(targets, LAMBDA p : p \in candidates \ occupied)
  IN  IF i = 0 THEN NoPort ELSE targets[i]

OtherPorts(cs, self) ==
  {cs[i].device : i \in {j \in DOMAIN cs : j # self /\ controller_uses_port(cs[j])}}

available_port(d, i) ==
  select_controller_config_port(d.ctl[i], PortPaths(d.ports), OtherPorts(d.ctl, i))

controller_for_port(cs, path) ==
  SelectInSeq(cs, LAMBDA c : c.device = path /\ controller_uses_port(c))

controller_for_address(cs, a) == SelectInSeq(cs, LAMBDA c : c.addr = a)

\* The port stays plugged in when its controller is gone.
MutantDropKeepsUsb(d, i) ==
  IF d.ctl[i].backend = 0 /\ ~d.ctl[i].vc THEN d
  ELSE [d EXCEPT !.ctl[i] = Released(@), !.dirty = TRUE]

(* drop_bt_backend with the epoll_dirty = true that follows every call.    *)
drop_bt_backend(d, i) ==
  IF d.ctl[i].backend = 0 /\ ~d.ctl[i].vc THEN [d EXCEPT !.dirty = TRUE]
  ELSE [d EXCEPT !.ctl[i] = Released(@), !.usb = @ \ {d.ctl[i].device}, !.dirty = TRUE]

(* flush_pending_outputs: a controller without its port is released; one   *)
(* whose link is gone is dropped if there was something to send (failing). *)
flush_pending_outputs(d, failing) ==
  LET bound == {i \in DOMAIN d.ctl : d.ctl[i].backend # 0}
      stray == {i \in bound : find_port_index(d.ports, d.ctl[i].device) = 0}
      lost  == (bound \cap failing) \ stray
  IN  [d EXCEPT !.ctl = [i \in DOMAIN @ |-> IF i \in stray \cup lost THEN Released(@[i])
                                           ELSE @[i]],
                !.usb = @ \ {d.ctl[i].device : i \in lost},
                !.dirty = @ \/ stray \cup lost # {}]

HungBackends == {i \in DOMAIN ctl : ctl[i].backend # 0 /\ Hung(ctl[i].addr, ctl[i].backend)}

(***************************************************************************)
(* reconcile_controller_configs, in its three parts.                       *)
(***************************************************************************)
(* Controllers whose endpoint is gone let go of it.                        *)
ReleaseMissing(d) ==
  LET gone == {i \in DOMAIN d.ctl :
                 controller_uses_port(d.ctl[i]) /\ d.ctl[i].device \notin present}
  IN  [d EXCEPT !.ctl = [i \in DOMAIN @ |-> IF i \in gone THEN Released(@[i]) ELSE @[i]],
                !.usb = @ \ {d.ctl[i].device : i \in gone}]

discover_vds_devices == Sorted(present)

(* sync_virtual_ports: a port whose path is still there is moved over,     *)
(* whatever has become of its driver; the others are opened or closed.     *)
sync_virtual_ports(d) ==
  LET Moved(p) == LET i == find_port_index(d.ports, p)
                  IN  IF i # 0 THEN d.ports[i] ELSE [path |-> p, live |-> TRUE]
      devices == discover_vds_devices
  IN  [d EXCEPT !.ports = [i \in DOMAIN devices |-> Moved(devices[i])],
                !.usb = @ \cap present]

(* The same when `bad` cannot be opened: what was moved before it is       *)
(* closed with the local vector, and the old vector keeps the shells.      *)
SyncFailsAt(d, bad) ==
  LET moved == {p \in PortPaths(d.ports) \cap present : p < bad}
  IN  [d EXCEPT !.ports = [i \in DOMAIN @ |->
                             IF @[i].path \in moved
                             THEN [path |-> NoPort, live |-> FALSE] ELSE @[i]],
                !.usb = @ \ moved]

\* Every reload starts from scratch.
MutantRebindAll(d) ==
  [d EXCEPT !.ctl = [i \in DOMAIN db |-> Runtime(db[i])], !.usb = {}]

(* Each config takes over the first runtime with its address and profile   *)
(* (no other config has that address): its session goes on if its port is  *)
(* there, allowed and not taken by an earlier config; what no config       *)
(* carries on is disconnected.                                             *)
AdoptConfigs(d) ==
  LET Olds(k) == {i \in DOMAIN d.ctl : /\ d.ctl[i].addr = db[k].addr
                                       /\ d.ctl[i].profile = db[k].profile}
      Old(k)  == d.ctl[Min(Olds(k))]
      Fits(k) == /\ Olds(k) # {} /\ controller_uses_port(Old(k))
                 /\ Old(k).device \in PortPaths(d.ports)
                 /\ controller_config_allows_port(db[k], Old(k).device)
      keep    == {k \in DOMAIN db :
                    Fits(k) /\ \A j \in 1..k - 1 : Fits(j) => Old(j).device # Old(k).device}
      ends    == {i \in DOMAIN d.ctl : /\ d.ctl[i].vc
                                       /\ d.ctl[i].device \in PortPaths(d.ports)
                                       /\ \A k \in keep : i # Min(Olds(k))}
  IN  [d EXCEPT !.ctl = [k \in DOMAIN db |-> IF k \in keep
                                             THEN [Old(k) EXCEPT !.ports = db[k].ports]
                                             ELSE Runtime(db[k])],
                !.usb = @ \ {d.ctl[i].device : i \in ends}]

(***************************************************************************)
(* The end of the process: every descriptor is closed, so the endpoints    *)
(* are unplugged and the links go down.                                    *)
(***************************************************************************)
Die ==
  /\ pc' = "down" /\ ports' = <<>> /\ ctl' = <<>> /\ usb' = {} /\ reg' = NoReg
  /\ batch' = {} /\ reload' = FALSE /\ dirty' = FALSE /\ ok' = FALSE
  /\ link' = [a \in Addrs |-> [link[a] EXCEPT !.up = FALSE]]
  /\ lq' = [k \in Kinds |-> <<>>] /\ cmd' = {} /\ udev' = FALSE
  /\ UNCHANGED <<present, db>>

(* disconnect_all, and what returning from main closes.                    *)
Stop == pc \in {"top", "wait"} /\ left > 0 /\ Die /\ left' = left - 1

(* Killed between any two steps.                                           *)
Crash == pc # "down" /\ left > 0 /\ Die /\ left' = left - 1

(* systemd starts it again; main refuses to run without an endpoint.       *)
Start ==
  /\ pc = "down" /\ present # {}
  /\ pc' = "top" /\ reload' = TRUE /\ dirty' = TRUE
  /\ UNCHANGED <<worldVars, ports, ctl, usb, reg, batch, ok, left>>

(***************************************************************************)
(* The top of the loop.                                                    *)
(***************************************************************************)
ReloadDone ==
  /\ Becomes([AdoptConfigs(sync_virtual_ports(ReleaseMissing(Daemon)))
                EXCEPT !.dirty = TRUE, !.reload = FALSE])
  /\ ok' = TRUE /\ UNCHANGED left

(* A reload that throws is logged and given up: before anything changed    *)
(* (the enumeration), at an endpoint that cannot be opened, or at the      *)
(* database.                                                               *)
ReloadFails ==
  /\ left > 0
  /\ \/ Becomes([Daemon EXCEPT !.reload = FALSE])
     \/ \E bad \in present \ PortPaths(ports) :
          Becomes([SyncFailsAt(ReleaseMissing(Daemon), bad) EXCEPT !.reload = FALSE])
     \/ Becomes([sync_virtual_ports(ReleaseMissing(Daemon)) EXCEPT !.reload = FALSE])
  /\ ok' = FALSE
  /\ left' = left - 1

Reload ==
  /\ pc = "top" /\ reload
  /\ ReloadDone \/ ReloadFails
  /\ UNCHANGED <<worldVars, reg, batch, pc>>

(* rebuild_epoll: the shell of a moved port has no descriptor to add, and  *)
(* the exception ends the daemon.                                          *)
Rebuild ==
  /\ pc = "top" /\ ~reload /\ dirty
  /\ IF \E i \in DOMAIN ports : ports[i].path = NoPort THEN Die /\ UNCHANGED left
     ELSE /\ reg' = [ports |-> [i \in DOMAIN ports |-> ports[i].path],
                     ctl   |-> [i \in DOMAIN ctl |-> <<ctl[i].addr, ctl[i].backend>>]]
          /\ dirty' = FALSE /\ pc' = "wait"
          /\ UNCHANGED <<worldVars, ports, ctl, usb, reload, batch, ok, left>>

Sleep ==
  /\ pc = "top" /\ ~reload /\ ~dirty
  /\ pc' = "wait"
  /\ UNCHANGED <<worldVars, daemonVars, reg, batch, ok, left>>

(***************************************************************************)
(* epoll_wait.  Descriptors that are closed leave the epoll set by         *)
(* themselves.                                                             *)
(***************************************************************************)
PortFds == {i \in DOMAIN reg.ports : reg.ports[i] \in PortPaths(ports)}
BtFds   == {i \in DOMAIN reg.ctl : /\ reg.ctl[i][2] # 0
                                   /\ \E j \in DOMAIN ctl : /\ ctl[j].addr = reg.ctl[i][1]
                                                            /\ ctl[j].backend = reg.ctl[i][2]}
PortEvents(I, hup) == {[type |-> "port", index |-> i, path |-> reg.ports[i], hup |-> hup] : i \in I}
BtEvents(I, hup)   == {[type |-> k, index |-> i, addr |-> reg.ctl[i][1], hup |-> hup] :
                         i \in I, k \in Kinds}

Stopped(i) == \E p \in Range(ports) : p.path = reg.ports[i] /\ ~p.live
Broken(i)  == Hung(reg.ctl[i][1], reg.ctl[i][2])

Ready ==
  (IF cmd # {} THEN {[type |-> "command"]} ELSE {})
  \cup (IF udev THEN {[type |-> "udev"]} ELSE {})
  \cup {[type |-> "accept", kind |-> k] : k \in {l \in Kinds : lq[l] # <<>>}}
  \cup PortEvents({i \in PortFds : Stopped(i)}, TRUE)
  \cup BtEvents({i \in BtFds : Broken(i)}, TRUE)

(* Frames of a connected port, packets of a controller.                    *)
Traffic ==
  PortEvents({i \in PortFds : reg.ports[i] \in usb}, FALSE)
  \cup BtEvents({i \in BtFds : ~Broken(i)}, FALSE)

Wake ==
  /\ pc = "wait"
  /\ \E T \in SUBSET Traffic :
       /\ Cardinality(T) <= MaxTraffic /\ Ready \cup T # {}
       /\ batch' = Ready \cup T
  /\ pc' = "batch"
  /\ UNCHANGED <<worldVars, daemonVars, reg, ok, left>>

(* The end of an iteration; with nothing to do at the top of the loop the  *)
(* daemon is back in epoll_wait.                                           *)
Flush ==
  /\ \E failing \in SUBSET HungBackends : Becomes(flush_pending_outputs(Daemon, failing))
  /\ pc' = IF reload' \/ dirty' THEN "top" ELSE "wait"

Timeout ==
  /\ pc = "wait" /\ Ready = {}
  /\ Flush
  /\ UNCHANGED <<worldVars, reg, batch, ok, left>>

EndBatch ==
  /\ pc = "batch" /\ batch = {}
  /\ Flush
  /\ UNCHANGED <<worldVars, reg, batch, ok, left>>

(***************************************************************************)
(* The handlers.  The events of a batch are taken in any order.            *)
(***************************************************************************)
(* handle_attach_control_request: refused if registered, or if some config *)
(* of the database would have no endpoint.                                 *)
validate_config_assignments(newdb) ==
  /\ PortPaths(ports) # {}
  /\ \A i \in DOMAIN newdb : newdb[i].ports = <<>> \/
                             Range(newdb[i].ports) \cap PortPaths(ports) # {}

Registered(a) == \E i \in DOMAIN db : db[i].addr = a

\* The ports are kept in increasing order; a request naming one twice is refused.
validate_ports(asked) == Sorted(ToSet(asked))

Attach(a, r) ==
  LET newdb == Append(db, [addr |-> a, profile |-> r.profile, ports |-> validate_ports(r.ports)])
      accepted == ~Registered(a) /\ NoDup(r.ports) /\ validate_config_assignments(newdb)
  IN  /\ db' = IF accepted THEN newdb ELSE db
      /\ reload' = (reload \/ accepted)

\* The database is changed and the daemon not told.
MutantQuietDetach(a) ==
  /\ db' = LET i == SelectInSeq(db, LAMBDA c : c.addr = a)
           IN  IF i = 0 THEN db ELSE RemoveAt(db, i)
  /\ reload' = reload

Detach(a) ==
  LET i == SelectInSeq(db, LAMBDA c : c.addr = a)
  IN  IF i = 0 THEN UNCHANGED <<db, reload>>
      ELSE db' = RemoveAt(db, i) /\ reload' = TRUE

ControlEvent(e) ==
  /\ e.type = "command" /\ batch' = batch \ {e} /\ pc' = pc
  /\ \E c \in cmd : IF c.op = "attach" THEN Attach(c.addr, c.req) ELSE Detach(c.addr)
  /\ cmd' = {}
  /\ UNCHANGED <<present, udev, link, lq, ports, ctl, usb, dirty, reg, ok, left>>

UdevEvent(e) ==
  /\ e.type = "udev" /\ batch' = batch \ {e} /\ pc' = pc
  /\ udev' = FALSE /\ reload' = TRUE /\ dirty' = TRUE
  /\ UNCHANGED <<present, link, lq, cmd, db, ports, ctl, usb, reg, ok, left>>

(* A frame of a port whose driver has stopped cannot be read and the       *)
(* daemon ends; a frame for a controller that is gone drops it.            *)
PortEvent(e) ==
  LET i == e.index
      c == controller_for_port(ctl, ports[i].path)
      hup == IF e.hup THEN [Daemon EXCEPT !.reload = TRUE, !.dirty = TRUE] ELSE Daemon
  IN  /\ e.type = "port"
      /\ IF i \notin DOMAIN ports \/ e.hup \/ ports[i].live
         THEN /\ batch' = batch \ {e} /\ pc' = pc
              /\ \/ Becomes(IF i \in DOMAIN ports THEN hup ELSE Daemon)
                 \/ ~e.hup /\ i \in DOMAIN ports /\ c \in HungBackends
                    /\ Becomes(drop_bt_backend(Daemon, c))
              /\ UNCHANGED <<worldVars, reg, ok, left>>
         ELSE Die /\ UNCHANGED left

(* A packet for a port whose driver has stopped cannot be written and the  *)
(* daemon ends; a hang-up, or a read that fails, drops the controller the  *)
(* index names now.                                                        *)
BtEvent(e) ==
  LET i == e.index
      c == ctl[i]
      p == find_port_index(ports, c.device)
      bound == IF i \in DOMAIN ctl THEN c.backend # 0 ELSE FALSE
  IN  /\ e.type \in Kinds
      /\ \/ /\ batch' = batch \ {e} /\ pc' = pc
            /\ \/ ~bound /\ Becomes(Daemon)
               \/ /\ bound /\ p = 0
                  /\ Becomes([Daemon EXCEPT !.ctl[i].backend = 0, !.ctl[i].vc = FALSE,
                                            !.dirty = TRUE])
               \/ /\ bound /\ p # 0
                  /\ IF e.hup \/ Hung(c.addr, c.backend) THEN Becomes(drop_bt_backend(Daemon, i))
                     ELSE Becomes(Daemon)
            /\ UNCHANGED <<worldVars, reg, ok, left>>
         \/ /\ bound /\ ~e.hup
            /\ \E q \in Range(ports) : q.path = ctl[i].device /\ ~q.live
            /\ Die /\ UNCHANGED left

(* handle_bt_accept loops until the listener has no connection left.       *)
AcceptEvent(e) ==
  /\ e.type = "accept" /\ batch' = batch \ {e} /\ pc' = e.kind
  /\ UNCHANGED <<worldVars, daemonVars, reg, ok, left>>

(* complete_pending_controller: both channels answer, or everything is     *)
(* put back.                                                               *)
complete_pending_controller(d, i, succeeds) ==
  LET c == d.ctl[i]
  IN  IF succeeds
      THEN [d EXCEPT !.ctl[i] = [@ EXCEPT !.backend = c.control, !.control = 0,
                                          !.interrupt = 0, !.vc = TRUE],
                     !.usb = @ \cup {c.device}, !.dirty = TRUE]
      ELSE [d EXCEPT !.ctl[i] = Released(@), !.usb = @ \ {c.device}]

(* The port of a new channel: the one already assigned if it is still      *)
(* there and free, else the first the config allows.                       *)
AssignedPort(d, i) ==
  LET device == d.ctl[i].device
  IN  IF find_port_index(d.ports, device) # 0 /\ device # NoPort
         /\ device \notin OtherPorts(d.ctl, i)
      THEN device ELSE available_port(d, i)

\* The second channel of a controller does not rebuild the epoll set.
MutantAcceptNotDirty(k) ==
  LET a == Head(lq[k])[1]
      i == controller_for_address(ctl, a)
      port == AssignedPort(Daemon, i)
      held == [Daemon EXCEPT !.ctl[i].device = port, !.ctl[i][k] = Head(lq[k])[2]]
      c == held.ctl[i]
  IN  /\ lq[k] # <<>> /\ lq' = [lq EXCEPT ![k] = Tail(@)]
      /\ IF i = 0 THEN Becomes(Daemon)
         ELSE IF ctl[i].backend # 0 \/ port = NoPort THEN Becomes(Daemon)
         ELSE IF c.control = 0 \/ c.interrupt = 0 THEN Becomes(held)
         ELSE Becomes([complete_pending_controller(held, i, TRUE) EXCEPT !.dirty = dirty])
      /\ UNCHANGED left

AcceptChannel(k) ==
  LET a == Head(lq[k])[1]
      i == controller_for_address(ctl, a)
      port == AssignedPort(Daemon, i)
      held == [Daemon EXCEPT !.ctl[i].device = port, !.ctl[i][k] = Head(lq[k])[2]]
      c == held.ctl[i]
      both == c.control # 0 /\ c.interrupt # 0
      rejected == IF i = 0 THEN TRUE ELSE ctl[i].backend # 0 \/ port = NoPort
      works == /\ ~Hung(a, c.control) /\ ~Hung(a, c.interrupt)
               /\ \E p \in Range(ports) : p.path = port /\ p.live
  IN  /\ lq[k] # <<>> /\ lq' = [lq EXCEPT ![k] = Tail(@)]
      /\ \/ rejected /\ Becomes(Daemon) /\ UNCHANGED left
         \/ ~rejected /\ ~both /\ Becomes(held) /\ UNCHANGED left
         \/ /\ ~rejected /\ both
            /\ \/ Becomes(complete_pending_controller(held, i, works)) /\ UNCHANGED left
               \/ /\ works /\ left > 0
                  /\ Becomes(complete_pending_controller(held, i, FALSE))
                  /\ left' = left - 1

Accepting(k) ==
  /\ pc = k
  /\ \/ AcceptChannel(k) /\ pc' = pc
     \/ lq[k] = <<>> /\ pc' = "batch" /\ UNCHANGED <<lq, daemonVars, left>>
  /\ UNCHANGED <<present, udev, link, cmd, db, reg, batch, ok>>

Handle == pc = "batch" /\ \E e \in batch :
  ControlEvent(e) \/ UdevEvent(e) \/ PortEvent(e) \/ BtEvent(e) \/ AcceptEvent(e)

(***************************************************************************)
(* The world: vdsctl, the controllers, the driver's endpoints.             *)
(***************************************************************************)
Command ==
  /\ pc # "down" /\ cmd = {} /\ left > 0
  /\ \E a \in Addrs :
       \/ \E r \in Requests : cmd' = {[op |-> "attach", addr |-> a, req |-> r]}
       \/ cmd' = {[op |-> "detach", addr |-> a]}
  /\ left' = left - 1
  /\ UNCHANGED <<present, udev, link, lq, db, daemonVars, reg, batch, pc, ok>>

(* A controller opens its control channel, then its interrupt channel.     *)
Connect(a) ==
  /\ pc # "down" /\ ~link[a].up /\ left > 0 /\ left' = left - 1
  /\ link' = [link EXCEPT ![a] = [gen |-> @.gen + 1, up |-> TRUE, whole |-> FALSE]]
  /\ lq' = [lq EXCEPT !["control"] = Append(@, <<a, link[a].gen + 1>>)]
  /\ UNCHANGED <<present, udev, cmd, db, daemonVars, reg, batch, pc, ok>>

OpenInterrupt(a) ==
  /\ pc # "down" /\ link[a].up /\ ~link[a].whole
  /\ link' = [link EXCEPT ![a].whole = TRUE]
  /\ lq' = [lq EXCEPT !["interrupt"] = Append(@, <<a, link[a].gen>>)]
  /\ UNCHANGED <<present, udev, cmd, db, daemonVars, reg, batch, pc, ok, left>>

LinkLost(a) ==
  /\ link[a].up /\ left > 0 /\ left' = left - 1
  /\ link' = [link EXCEPT ![a].up = FALSE]
  /\ lq' = [k \in Kinds |-> RemoveFirst(lq[k], <<a, link[a].gen>>)]
  /\ UNCHANGED <<present, udev, cmd, db, daemonVars, reg, batch, pc, ok>>

(* vds_hcd_remove and vds_hcd_probe of one endpoint.                       *)
RemoveEndpoint(p) ==
  /\ p \in present /\ left > 0
  /\ present' = present \ {p} /\ udev' = (pc # "down") /\ usb' = usb \ {p}
  /\ ports' = [i \in DOMAIN ports |-> IF ports[i].path = p THEN [ports[i] EXCEPT !.live = FALSE]
                                       ELSE ports[i]]
  /\ left' = left - 1
  /\ UNCHANGED <<link, lq, cmd, db, ctl, reload, dirty, reg, batch, pc, ok>>

AddEndpoint(p) ==
  /\ p \notin present /\ left > 0
  /\ present' = present \cup {p} /\ udev' = (pc # "down")
  /\ left' = left - 1
  /\ UNCHANGED <<link, lq, cmd, db, daemonVars, reg, batch, pc, ok>>

World ==
  \/ Command
  \/ \E a \in Addrs : Connect(a) \/ OpenInterrupt(a) \/ LinkLost(a)
  \/ \E p \in Ports : RemoveEndpoint(p) \/ AddEndpoint(p)

Next ==
  \/ Reload \/ Rebuild \/ Sleep \/ Wake \/ Timeout \/ Handle \/ EndBatch
  \/ \E k \in Kinds : Accepting(k)
  \/ Stop \/ Crash \/ Start
  \/ World

Spec == Init /\ [][Next]_vars

(***************************************************************************)
(* Properties.                                                             *)
(***************************************************************************)
Runtimes == [addr: Addrs, profile: Profiles, ports: Seq(Ports),
             device: Ports \cup {NoPort}, backend: Nat, control: Nat, interrupt: Nat,
             vc: BOOLEAN]
Links == [gen: Nat, up: BOOLEAN, whole: BOOLEAN]
Commands == [op: {"attach"}, addr: Addrs, req: Requests] \cup [op: {"detach"}, addr: Addrs]
Events ==
  [type: {"command", "udev"}] \cup [type: {"accept"}, kind: Kinds]
  \cup [type: {"port"}, index: Nat, path: Ports, hup: BOOLEAN]
  \cup [type: Kinds, index: Nat, addr: Addrs, hup: BOOLEAN]

WorldTypes ==
  /\ present \subseteq Ports /\ udev \in BOOLEAN /\ link \in [Addrs -> Links]
  /\ lq \in [Kinds -> Seq(Addrs \X Nat)] /\ cmd \subseteq Commands
  /\ db \in Seq(Configs)
TableTypes ==
  /\ ports \in Seq([path: Ports \cup {NoPort}, live: BOOLEAN])
  /\ ctl \in Seq(Runtimes) /\ usb \subseteq Ports
LoopTypes ==
  /\ reload \in BOOLEAN /\ dirty \in BOOLEAN /\ ok \in BOOLEAN /\ left \in Nat
  /\ reg \in [ports: Seq(Ports), ctl: Seq(Addrs \X Nat)] /\ batch \subseteq Events
  /\ pc \in {"top", "wait", "batch", "down"} \cup Kinds

(* The types of the world, of the daemon's tables and of its loop.         *)
TypeOK == WorldTypes /\ TableTypes /\ LoopTypes

(* available_port_index, the port a half-open controller keeps and the     *)
(* sessions a reload carries over never give one endpoint to two           *)
(* controllers (vdsd.cc:1587, 1934).                                       *)
PortExclusive ==
  \A i, j \in DOMAIN ctl :
    /\ i # j /\ controller_uses_port(ctl[i]) /\ controller_uses_port(ctl[j])
    => ctl[i].device # ctl[j].device

(* A virtual USB device is plugged in exactly for the controllers the      *)
(* daemon thinks are connected, through reloads, lost links, failed        *)
(* set-ups and the end of the process (every path that lets go of a        *)
(* controller unplugs its port): no host is left with a dead gamepad.      *)
UsbFollowsSession ==
  /\ usb \subseteq {c.device : c \in {d \in Range(ctl) : d.vc}}
  /\ \A c \in Range(ctl) : c.vc /\ [path |-> c.device, live |-> TRUE] \in Range(ports)
                           => c.device \in usb

(* When the daemon sleeps after a reload that went through, its epoll set  *)
(* watches every open port and both channels of every session, each under  *)
(* the index it has in its table now: whatever changes a table sets        *)
(* epoll_dirty.  (A reload that fails at the database has already changed  *)
(* the ports and does not.)                                                *)
SessionWatched ==
  pc = "wait" /\ ok =>
    /\ \A i \in DOMAIN ports : ports[i].path # NoPort =>
         i \in DOMAIN reg.ports /\ reg.ports[i] = ports[i].path
    /\ \A i \in DOMAIN ctl : ctl[i].backend # 0 =>
         i \in DOMAIN reg.ctl /\ reg.ctl[i] = <<ctl[i].addr, ctl[i].backend>>

(* An index in the rest of a batch still names the port or the controller  *)
(* the event was about, whatever the events before it did: the tables are  *)
(* only rearranged at the top of the loop (vdsd.cc:2183, 2290, 2320).  For *)
(* ports this needs the last reload to have gone through: one that fails   *)
(* at the database has moved the ports and left epoll as it was.           *)
EventNamesController ==
  \A e \in batch :
    /\ e.type \in Kinds /\ e.index \in DOMAIN ctl => ctl[e.index].addr = e.addr
    /\ e.type = "port" /\ e.index \in DOMAIN ports /\ ok => ports[e.index].path = e.path

(* The epoll set and the events it has returned go by the tables as they   *)
(* are: no session is unwatched, no event is taken for another's.          *)
EpollFollowsTables == SessionWatched /\ EventNamesController

(* When the daemon sleeps after a reload that went through, the registered *)
(* controllers are those of the database and every bound controller is on  *)
(* an endpoint its config allows, whatever commands came in between.       *)
ConfigInForce ==
  pc = "wait" /\ ok =>
    /\ Len(ctl) = Len(db)
    /\ \A i \in DOMAIN ctl :
         /\ [addr |-> ctl[i].addr, profile |-> ctl[i].profile, ports |-> ctl[i].ports] = db[i]
         /\ controller_uses_port(ctl[i]) => controller_config_allows_port(db[i], ctl[i].device)

(* When the daemon sleeps after a reload that went through and no monitor  *)
(* event is waiting, it holds exactly the endpoints that exist: none that  *)
(* came or went during the enumeration is missed.                          *)
EndpointsTracked ==
  pc = "wait" /\ ok /\ ~udev => PortPaths(ports) = present

(* The tables are in force: the controllers those of the database, the     *)
(* ports those that exist.                                                 *)
TablesInForce == ConfigInForce /\ EndpointsTracked

(* A reload does not interrupt a session whose endpoint is still there and *)
(* whose controller is still configured with the same profile and that     *)
(* endpoint.                                                               *)
ReloadKeepsSessions ==
  [][pc = "top" /\ reload /\ ok' =>
       \A c \in Range(ctl) :
         /\ c.vc /\ c.device \in present /\ c.device \in PortPaths(ports)
         /\ \E i \in DOMAIN db : /\ db[i].addr = c.addr /\ db[i].profile = c.profile
                                 /\ controller_config_allows_port(db[i], c.device)
         => \E n \in Range(ctl') : /\ n.addr = c.addr /\ n.device = c.device
                                   /\ n.backend = c.backend /\ n.vc]_vars
=============================================================================
