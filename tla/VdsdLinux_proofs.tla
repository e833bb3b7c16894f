-------------------------- MODULE VdsdLinux_proofs --------------------------
(* Theorems about the supervisor of the Linux daemon.                      *)
EXTENDS VdsdLinux, Lists_proofs

(* A finite set of numbers has an ascending enumeration, which Sorted is:  *)
(* a smallest set without one would have one, its minimum in front.        *)
LEMMA AscendingExists ==
  ASSUME NEW S \in SUBSET Nat, IsFiniteSet(S)
  PROVE  \E q \in SetToSeqs(S) : Ascending(q)
<1> DEFINE Good(T) == \E q \in SetToSeqs(T) : Ascending(q)
           Bad == {n \in Nat : \E T \in SUBSET S : Cardinality(T) = n /\ ~Good(T)}
           m == Min(Bad)
<1>1. SUFFICES ASSUME ~Good(S) PROVE FALSE
  OBVIOUS
<1>2. Cardinality(S) \in Bad
  <2>1. Cardinality(S) \in Nat /\ S \in SUBSET S
    BY FS_CardinalityType
  <2> QED BY <1>1, <2>1
<1>3. m \in Bad /\ \A n \in Bad : m =< n
  <2>1. Bad \in SUBSET Nat
    OBVIOUS
  <2> HIDE DEF Bad
  <2> QED BY <1>2, <2>1, MinOfNats
<1>4. PICK T \in SUBSET S : Cardinality(T) = m /\ ~Good(T)
  BY <1>3
<1>5. m \in Nat /\ \A n \in Nat : n < m => n \notin Bad
  BY <1>3
<1> HIDE DEF m
<1>6. IsFiniteSet(T)
  BY <1>4, FS_Subset
<1>7. CASE T = {}
  <2> DEFINE none == [i \in 1 .. 0 |-> 0]
  <2>1. Cardinality(T) = 0
    BY <1>7, FS_EmptySet
  <2>2. none \in SetToSeqs(T)
    BY <1>7, <2>1 DEF SetToSeqs
  <2>3. Ascending(none)
    BY DEF Ascending
  <2> QED BY <1>4, <2>2, <2>3
<1>8. CASE T # {}
  <2> DEFINE x == Min(T)
             U == T \ {x}
  <2>1. x \in T /\ \A y \in T : x =< y
    BY <1>8, MinOfNats
  <2> HIDE DEF x
  <2>2. IsFiniteSet(U) /\ Cardinality(U) = m - 1 /\ m # 0
    <3>1. Cardinality(T) # 0
      BY <1>6, <1>8, FS_EmptySet
    <3> QED BY <1>4, <1>6, <2>1, <3>1, FS_RemoveElement
  <2>3. Good(U)
    <3>1. m - 1 \in Nat /\ m - 1 < m
      BY <1>5, <2>2
    <3>2. m - 1 \notin Bad
      BY <1>5, <3>1
    <3> QED BY <2>2, <3>1, <3>2
  <2>4. PICK q \in SetToSeqs(U) : Ascending(q)
    BY <2>3
  <2>5. /\ q \in [1 .. m - 1 -> U]
        /\ \A i, j \in 1 .. m - 1 : i # j => q[i] # q[j]
    BY <2>2, <2>4 DEF SetToSeqs
  <2> DEFINE r == [i \in 1 .. m |-> IF i = 1 THEN x ELSE q[i - 1]]
  <2>6. /\ \A i \in 1 .. m : i # 1 => i - 1 \in 1 .. m - 1 /\ r[i] = q[i - 1]
        /\ r[1] = x /\ DOMAIN r = 1 .. m
    BY <1>5, <2>2
  <2>7. r \in [1 .. m -> T]
    <3>1. \A i \in 1 .. m : (IF i = 1 THEN x ELSE q[i - 1]) \in T
      BY <2>1, <2>5, <2>6
    <3> QED BY <3>1
  <2> HIDE DEF r
  <2>8. \A i \in 1 .. m : i # 1 => r[i] \in U /\ x < r[i]
    <3>1. \A y \in U : y \in Nat /\ x \in Nat /\ x =< y /\ x # y
      BY <2>1
    <3>2. \A y \in U : x < y
      BY <3>1
    <3> HIDE DEF U
    <3> QED BY <2>5, <2>6, <3>2
  <2>9. \A i, j \in 1 .. m : i # j => r[i] # r[j]
    <3> TAKE i, j \in 1 .. m
    <3> HAVE i # j
    <3>1. CASE i = 1 \/ j = 1
      BY <2>6, <2>8, <3>1
    <3>2. CASE i # 1 /\ j # 1
      <4>1. i - 1 # j - 1
        BY <1>5
      <4> QED BY <2>5, <2>6, <3>2, <4>1
    <3> QED BY <3>1, <3>2
  <2>10. Ascending(r)
    <3> SUFFICES ASSUME NEW i \in 1 .. m, NEW j \in 1 .. m, i < j
                 PROVE  r[i] < r[j]
      BY <2>6 DEF Ascending
    <3>1. j # 1
      BY <1>5
    <3>2. CASE i = 1
      BY <2>6, <2>8, <3>1, <3>2
    <3>3. CASE i # 1
      <4>1. i - 1 < j - 1 /\ i - 1 \in DOMAIN q /\ j - 1 \in DOMAIN q
        BY <1>5, <2>5, <2>6, <3>1, <3>3
      <4> QED BY <2>4, <2>6, <3>1, <3>3, <4>1 DEF Ascending
    <3> QED BY <3>2, <3>3
  <2>11. r \in SetToSeqs(T)
    BY <1>4, <2>7, <2>9 DEF SetToSeqs
  <2> QED BY <1>4, <2>10, <2>11
<1> QED BY <1>7, <1>8

(* Sorted lists the elements of a finite set of numbers, each once.        *)
LEMMA SortedElements ==
  ASSUME NEW S \in SUBSET Ports
  PROVE  Sorted(S) \in Seq(S) /\ ToSet(Sorted(S)) = S /\ NoDup(Sorted(S))
<1>1. S \in SUBSET Nat /\ IsFiniteSet(S)
  BY LinuxAssumption, FS_Subset
<1>2. \E q \in SetToSeqs(S) : Ascending(q)
  BY <1>1, AscendingExists
<1>3. Sorted(S) \in SetToSeqs(S)
  BY <1>2 DEF Sorted
<1> QED BY <1>1, <1>3, SetToSeqsElements

(* What the searches of a table return: an index of a matching entry, or 0 *)
(* if there is none.                                                       *)
LEMMA FirstIndex ==
  ASSUME NEW n, NEW I \in SUBSET (1 .. n)
  PROVE  LET m == IF I # {} THEN Min(I) ELSE 0
         IN  (m = 0 <=> I = {}) /\ (m # 0 => m \in I)
<1>1. I \in SUBSET Nat /\ \A i \in I : i # 0
  OBVIOUS
<1>2. I # {} => Min(I) \in I
  BY <1>1, MinOfNats
<1> QED BY <1>1, <1>2

PortRec == [path: Ports \cup {NoPort}, live: BOOLEAN]
DaemonType ==
  [ports: Seq(PortRec), ctl: Seq(Runtimes), usb: SUBSET Ports, reload: BOOLEAN,
   dirty: BOOLEAN]

(* find_port_index finds the path if some port has it.                     *)
LEMMA FindPort ==
  ASSUME NEW ps \in Seq(PortRec), NEW path
  PROVE  LET i == find_port_index(ps, path)
         IN  /\ i = 0 <=> \A n \in DOMAIN ps : ps[n].path # path
             /\ i # 0 => i \in DOMAIN ps /\ ps[i].path = path
<1> DEFINE I == {n \in 1 .. Len(ps) : ps[n].path = path}
<1>1. find_port_index(ps, path) = IF I # {} THEN Min(I) ELSE 0
  BY DEF find_port_index, SelectInSeq
<1>2. I \in SUBSET (1 .. Len(ps)) /\ DOMAIN ps = 1 .. Len(ps)
  OBVIOUS
<1>3. LET m == IF I # {} THEN Min(I) ELSE 0
      IN  (m = 0 <=> I = {}) /\ (m # 0 => m \in I)
  <2> HIDE DEF I
  <2> QED BY <1>2, FirstIndex
<1> QED BY <1>1, <1>2, <1>3

(* An endpoint is found exactly when it is among the open paths.           *)
LEMMA FindPath ==
  ASSUME NEW ps \in Seq(PortRec), NEW p \in Ports
  PROVE  find_port_index(ps, p) # 0 <=> p \in PortPaths(ps)
<1>1. p # NoPort
  BY LinuxAssumption DEF NoPort
<1> QED BY <1>1, FindPort DEF PortPaths

(* controller_for_address finds a controller with the address.             *)
LEMMA FindController ==
  ASSUME NEW cs \in Seq(Runtimes), NEW a
  PROVE  LET i == controller_for_address(cs, a)
         IN  i # 0 => i \in DOMAIN cs /\ cs[i].addr = a
<1> DEFINE I == {n \in 1 .. Len(cs) : cs[n].addr = a}
<1>1. controller_for_address(cs, a) = IF I # {} THEN Min(I) ELSE 0
  BY DEF controller_for_address, SelectInSeq
<1>2. I \in SUBSET (1 .. Len(cs)) /\ DOMAIN cs = 1 .. Len(cs)
  OBVIOUS
<1>3. LET m == IF I # {} THEN Min(I) ELSE 0
      IN  (m = 0 <=> I = {}) /\ (m # 0 => m \in I)
  <2> HIDE DEF I
  <2> QED BY <1>2, FirstIndex
<1> QED BY <1>1, <1>2, <1>3

(* The port selected is allowed, is a candidate and is free.               *)
LEMMA SelectPort ==
  ASSUME NEW config \in Runtimes, NEW candidates, NEW occupied
  PROVE  LET p == select_controller_config_port(config, candidates, occupied)
         IN  p # NoPort => /\ p \in candidates \ occupied
                           /\ controller_config_allows_port(config, p)
<1> DEFINE targets == controller_config_port_targets(config)
           I == {n \in 1 .. Len(targets) : targets[n] \in candidates \ occupied}
           i == IF I # {} THEN Min(I) ELSE 0
           p == IF i = 0 THEN NoPort ELSE targets[i]
<1>1. select_controller_config_port(config, candidates, occupied) = p
  BY DEF select_controller_config_port, SelectInSeq
<1>2. I \in SUBSET (1 .. Len(targets))
  OBVIOUS
<1>3. i # 0 => i \in I
  <2> HIDE DEF I
  <2> QED BY <1>2, FirstIndex
<1>4. ASSUME i # 0
      PROVE  p \in candidates \ occupied /\ controller_config_allows_port(config, p)
  <2>1. i \in 1 .. Len(targets) /\ targets[i] \in candidates \ occupied /\ p = targets[i]
    BY <1>3, <1>4
  <2> HIDE DEF i, p
  <2>2. CASE config.ports # <<>>
    <3>1. targets = config.ports /\ config.ports \in Seq(Ports)
      BY <2>2 DEF controller_config_port_targets, Runtimes
    <3> HIDE DEF targets
    <3>2. i \in DOMAIN config.ports /\ p = config.ports[i]
      BY <2>1, <3>1
    <3> QED BY <2>1, <3>2 DEF controller_config_allows_port, Range
  <2>3. CASE config.ports = <<>>
    BY <2>1, <2>3 DEF controller_config_allows_port
  <2> QED BY <2>2, <2>3
<1> HIDE DEF i
<1> QED BY <1>1, <1>4

-----------------------------------------------------------------------------
(* The tables.                                                             *)

(* A controller that holds a port has one, which its config allows; a      *)
(* session has no half-open channel.                                       *)
Sound(c) ==
  /\ controller_uses_port(c) => c.device # NoPort
  /\ c.device # NoPort => controller_config_allows_port(c, c.device)
  /\ c.backend # 0 => c.control = 0 /\ c.interrupt = 0
  /\ c.vc => c.backend # 0

Exclusive(cs) ==
  \A i, j \in DOMAIN cs :
    i # j /\ controller_uses_port(cs[i]) /\ controller_uses_port(cs[j])
      => cs[i].device # cs[j].device

CtlOk(cs) == (\A i \in DOMAIN cs : Sound(cs[i])) /\ Distinct(cs) /\ Exclusive(cs)

(* A path is open once, and a driver that runs is one that exists.         *)
PortsOk(ps, here) ==
  /\ \A i, j \in DOMAIN ps : ps[i].path = ps[j].path /\ ps[i].path # NoPort => i = j
  /\ \A i \in DOMAIN ps : ps[i].live => ps[i].path \in here

LiveAt(ps, p) == \E i \in DOMAIN ps : ps[i].path = p /\ ps[i].live

(* A virtual USB device is on a running driver and of a session; a session *)
(* on a running driver has one.                                            *)
Plugged(d) ==
  /\ \A p \in d.usb : /\ LiveAt(d.ports, p)
                      /\ \E i \in DOMAIN d.ctl : d.ctl[i].vc /\ d.ctl[i].device = p
  /\ \A i \in DOMAIN d.ctl :
       d.ctl[i].vc /\ LiveAt(d.ports, d.ctl[i].device) => d.ctl[i].device \in d.usb

Consistent(d, here) == CtlOk(d.ctl) /\ PortsOk(d.ports, here) /\ Plugged(d)

(* The runtime of a config holds no port.                                  *)
LEMMA RuntimeOf ==
  ASSUME NEW c \in Configs
  PROVE  /\ Runtime(c) \in Runtimes /\ ~controller_uses_port(Runtime(c))
         /\ Sound(Runtime(c)) /\ ~Runtime(c).vc
         /\ Runtime(c).addr = c.addr /\ Runtime(c).profile = c.profile
         /\ Runtime(c).ports = c.ports
BY DEF Runtime, Runtimes, Configs, controller_uses_port, Sound

(* A released controller holds no port and is still the same controller.   *)
LEMMA ReleasedOf ==
  ASSUME NEW c \in Runtimes
  PROVE  /\ Released(c) \in Runtimes /\ ~controller_uses_port(Released(c))
         /\ Sound(Released(c)) /\ ~Released(c).vc /\ Released(c).backend = 0
         /\ Released(c).addr = c.addr /\ Released(c).profile = c.profile
         /\ Released(c).ports = c.ports
BY DEF Released, Runtimes, controller_uses_port, Sound

(* A table some of whose controllers are released is a table.              *)
LEMMA ReleasedSeq ==
  ASSUME NEW cs \in Seq(Runtimes), NEW R, NEW es,
         es = [i \in DOMAIN cs |-> IF i \in R THEN Released(cs[i]) ELSE cs[i]]
  PROVE  es \in Seq(Runtimes)
<1>1. DOMAIN cs = 1 .. Len(cs) /\ Len(cs) \in Nat
  OBVIOUS
<1>2. \A i \in 1 .. Len(cs) :
        (IF i \in R THEN Released(cs[i]) ELSE cs[i]) \in Runtimes
  BY <1>1, ReleasedOf
<1> QED BY <1>1, <1>2

(* Some controllers let go of their ports, and their USB devices go.       *)
LEMMA LettingGo ==
  ASSUME NEW d \in DaemonType, NEW here, Consistent(d, here),
         NEW R \in SUBSET DOMAIN d.ctl, NEW e,
         e.ports = d.ports, e.usb \subseteq d.usb, DOMAIN e.ctl = DOMAIN d.ctl,
         \A i \in R : e.ctl[i] = Released(d.ctl[i]),
         \A i \in DOMAIN d.ctl : i \notin R => e.ctl[i] = d.ctl[i],
         \A p \in d.usb : p \notin e.usb => \E i \in R : /\ controller_uses_port(d.ctl[i])
                                                         /\ d.ctl[i].device = p,
         \A i \in R : d.ctl[i].device \notin e.usb
  PROVE  Consistent(e, here)
<1> DEFINE cs == d.ctl
           es == e.ctl
<1>1. cs \in Seq(Runtimes) /\ DOMAIN es = DOMAIN cs
  BY DEF DaemonType
<1>2. \A i \in DOMAIN cs : cs[i] \in Runtimes
  BY <1>1
<1>3. \A i \in R : /\ ~controller_uses_port(es[i]) /\ Sound(es[i]) /\ ~es[i].vc
                   /\ es[i].addr = cs[i].addr
  BY <1>2, ReleasedOf
<1>4. \A i \in DOMAIN cs : i \notin R => es[i] = cs[i]
  OBVIOUS
<1>5. CtlOk(cs) /\ PortsOk(d.ports, here) /\ Plugged(d)
  BY DEF Consistent
<1> HIDE DEF es, cs
<1>7. CtlOk(es)
  <2>1. \A i \in DOMAIN es : Sound(es[i]) /\ es[i].addr = cs[i].addr
    BY <1>1, <1>3, <1>4, <1>5 DEF CtlOk
  <2>2. Distinct(es)
    BY <1>1, <1>5, <2>1 DEF CtlOk, Distinct
  <2>3. Exclusive(es)
    BY <1>1, <1>3, <1>4, <1>5 DEF CtlOk, Exclusive
  <2> QED BY <2>1, <2>2, <2>3 DEF CtlOk
<1>8. Plugged(e)
  <2>0. /\ \A p \in d.usb : /\ LiveAt(d.ports, p)
                            /\ \E i \in DOMAIN cs : cs[i].vc /\ cs[i].device = p
        /\ \A i \in DOMAIN cs :
             cs[i].vc /\ LiveAt(d.ports, cs[i].device) => cs[i].device \in d.usb
    BY <1>5 DEF Plugged, cs
  <2>1. ASSUME NEW p \in e.usb
        PROVE  /\ LiveAt(e.ports, p)
               /\ \E i \in DOMAIN es : es[i].vc /\ es[i].device = p
    <3>1. PICK i \in DOMAIN cs : cs[i].vc /\ cs[i].device = p
      BY <2>0
    <3>2. i \notin R
      BY <3>1 DEF cs
    <3> QED BY <1>1, <1>4, <2>0, <3>1, <3>2
  <2>2. ASSUME NEW i \in DOMAIN es, es[i].vc, LiveAt(e.ports, es[i].device)
        PROVE  es[i].device \in e.usb
    <3>1. i \in DOMAIN cs /\ i \notin R /\ es[i] = cs[i]
      BY <1>1, <1>3, <1>4, <2>2
    <3>2. cs[i].device \in d.usb /\ controller_uses_port(cs[i])
      BY <2>0, <2>2, <3>1 DEF controller_uses_port
    <3>3. ASSUME NEW j \in R, controller_uses_port(cs[j]) PROVE cs[j].device # cs[i].device
      BY <1>5, <3>1, <3>2, <3>3 DEF CtlOk, Exclusive, cs
    <3> QED BY <3>1, <3>2, <3>3 DEF cs
  <2> QED BY <2>1, <2>2 DEF Plugged, es
<1> QED BY <1>5, <1>7, <1>8 DEF Consistent, es

-----------------------------------------------------------------------------
(* The three parts of a reload.                                            *)

(* After the first part, whoever holds a port holds one that exists.       *)
LEMMA ReleaseMissingOk ==
  ASSUME present \subseteq Ports, NEW d \in DaemonType, Consistent(d, present)
  PROVE  LET e == ReleaseMissing(d)
         IN  /\ e \in DaemonType /\ Consistent(e, present)
             /\ e.ports = d.ports /\ e.reload = d.reload /\ e.dirty = d.dirty
             /\ DOMAIN e.ctl = DOMAIN d.ctl
             /\ \A i \in DOMAIN d.ctl :
                  /\ e.ctl[i] \in {d.ctl[i], Released(d.ctl[i])}
                  /\ controller_uses_port(e.ctl[i]) => e.ctl[i].device \in present
                  /\ d.ctl[i].device \in present => e.ctl[i] = d.ctl[i]
<1> DEFINE R == {i \in DOMAIN d.ctl :
                   controller_uses_port(d.ctl[i]) /\ d.ctl[i].device \notin present}
           e == ReleaseMissing(d)
<1>1. /\ e.ports = d.ports /\ e.reload = d.reload /\ e.dirty = d.dirty
      /\ e.ctl = [i \in DOMAIN d.ctl |-> IF i \in R THEN Released(d.ctl[i]) ELSE d.ctl[i]]
      /\ e.usb = d.usb \ {d.ctl[i].device : i \in R}
      /\ e.ctl \in Seq(Runtimes) /\ e.usb \in SUBSET Ports => e \in DaemonType
  <2> DEFINE cs == [i \in DOMAIN d.ctl |-> IF i \in R THEN Released(d.ctl[i]) ELSE d.ctl[i]]
             us == d.usb \ {d.ctl[i].device : i \in R}
             f == [d EXCEPT !.ctl = cs, !.usb = us]
  <2>1. e = f
    BY DEF ReleaseMissing
  <2> HIDE DEF cs, us, e
  <2>2. /\ f.ports = d.ports /\ f.reload = d.reload /\ f.dirty = d.dirty
        /\ f.ctl = cs /\ f.usb = us
        /\ f.ctl \in Seq(Runtimes) /\ f.usb \in SUBSET Ports => f \in DaemonType
    BY DEF DaemonType
  <2> HIDE DEF f
  <2> QED BY <2>1, <2>2 DEF cs, us
<1> HIDE DEF e
<1>2. e.ctl \in Seq(Runtimes) /\ e.usb \in SUBSET Ports /\ Consistent(e, present)
  <2>1. /\ \A p \in d.usb : p \notin e.usb => \E i \in R : /\ controller_uses_port(d.ctl[i])
                                                           /\ d.ctl[i].device = p
        /\ \A i \in R : d.ctl[i].device \notin e.usb
        /\ R \in SUBSET DOMAIN d.ctl /\ e.usb \subseteq d.usb
    BY <1>1
  <2> HIDE DEF R
  <2>2. d.ctl \in Seq(Runtimes) /\ d.usb \in SUBSET Ports
    BY DEF DaemonType
  <2>3. e.ctl \in Seq(Runtimes)
    BY <1>1, <2>2, ReleasedSeq
  <2>4. /\ DOMAIN e.ctl = DOMAIN d.ctl
        /\ \A i \in R : e.ctl[i] = Released(d.ctl[i])
        /\ \A i \in DOMAIN d.ctl : i \notin R => e.ctl[i] = d.ctl[i]
    BY <1>1, <2>1
  <2> QED BY <1>1, <2>1, <2>2, <2>3, <2>4, LettingGo
<1>3. e \in DaemonType
  BY <1>1, <1>2
<1>4. ASSUME NEW i \in DOMAIN d.ctl
      PROVE  /\ e.ctl[i] \in {d.ctl[i], Released(d.ctl[i])}
             /\ controller_uses_port(e.ctl[i]) => e.ctl[i].device \in present
             /\ d.ctl[i].device \in present => e.ctl[i] = d.ctl[i]
  <2>1. d.ctl[i] \in Runtimes
    BY DEF DaemonType
  <2>2. ~controller_uses_port(Released(d.ctl[i]))
    BY <2>1, ReleasedOf
  <2> QED BY <1>1, <2>2
<1> QED BY <1>1, <1>2, <1>3, <1>4 DEF e

(* The ports opened or kept are those that exist.                          *)
LEMMA SyncOk ==
  ASSUME present \subseteq Ports, NEW d \in DaemonType, Consistent(d, present),
         \A i \in DOMAIN d.ctl :
           controller_uses_port(d.ctl[i]) => d.ctl[i].device \in present,
         \A i \in DOMAIN d.ctl :
           d.ctl[i].backend # 0 => d.ctl[i].device \in PortPaths(d.ports)
  PROVE  LET e == sync_virtual_ports(d)
         IN  /\ e \in DaemonType /\ Consistent(e, present)
             /\ e.ctl = d.ctl /\ e.reload = d.reload /\ e.dirty = d.dirty
             /\ PortPaths(e.ports) = present
<1> DEFINE Moved(p) == LET i == find_port_index(d.ports, p)
                       IN  IF i # 0 THEN d.ports[i] ELSE [path |-> p, live |-> TRUE]
           devices == discover_vds_devices
           e == sync_virtual_ports(d)
<1>1. /\ e.ports = [i \in DOMAIN devices |-> Moved(devices[i])]
      /\ e.usb = d.usb \cap present
      /\ e.ctl = d.ctl /\ e.reload = d.reload /\ e.dirty = d.dirty
      /\ e.ports \in Seq(PortRec) /\ e.usb \in SUBSET Ports => e \in DaemonType
  <2> DEFINE ps == [i \in DOMAIN devices |-> Moved(devices[i])]
             us == d.usb \cap present
             f == [d EXCEPT !.ports = ps, !.usb = us]
  <2>1. e = f
    BY DEF sync_virtual_ports
  <2> HIDE DEF ps, us, e
  <2>2. /\ f.ports = ps /\ f.reload = d.reload /\ f.dirty = d.dirty
        /\ f.ctl = d.ctl /\ f.usb = us
        /\ f.ports \in Seq(PortRec) /\ f.usb \in SUBSET Ports => f \in DaemonType
    BY DEF DaemonType
  <2> HIDE DEF f
  <2> QED BY <2>1, <2>2 DEF ps, us
<1>2. devices \in Seq(present) /\ ToSet(devices) = present /\ NoDup(devices)
  BY SortedElements DEF discover_vds_devices
<1>3. NoPort \notin Ports
  BY LinuxAssumption DEF NoPort
<1>4. ASSUME NEW p \in present
      PROVE  /\ Moved(p) \in PortRec /\ Moved(p).path = p
             /\ p \in PortPaths(d.ports) =>
                  \E i \in DOMAIN d.ports : d.ports[i].path = p /\ Moved(p) = d.ports[i]
             /\ p \notin PortPaths(d.ports) => Moved(p).live
  <2> DEFINE i == find_port_index(d.ports, p)
  <2>1. d.ports \in Seq(PortRec) /\ p \in Ports
    BY DEF DaemonType
  <2>2. /\ i # 0 => i \in DOMAIN d.ports /\ d.ports[i].path = p
        /\ i # 0 <=> p \in PortPaths(d.ports)
    BY <2>1, FindPort, FindPath
  <2> HIDE DEF i
  <2>3. CASE i # 0
    <3>1. Moved(p) = d.ports[i] /\ d.ports[i] \in PortRec
      BY <2>1, <2>2, <2>3 DEF i
    <3> QED BY <2>2, <2>3, <3>1
  <2>4. CASE i = 0
    <3>1. Moved(p) = [path |-> p, live |-> TRUE]
      BY <2>4 DEF i
    <3>2. [path |-> p, live |-> TRUE] \in PortRec
      BY <2>1 DEF PortRec
    <3> QED BY <2>2, <2>4, <3>1, <3>2
  <2> QED BY <2>3, <2>4
<1> HIDE DEF e, devices, Moved
<1>5. DOMAIN devices = 1 .. Len(devices) /\ Len(devices) \in Nat
      /\ \A i \in DOMAIN devices : devices[i] \in present
  BY <1>2
<1>6. e.ports \in Seq(PortRec) /\ DOMAIN e.ports = DOMAIN devices
      /\ \A i \in DOMAIN devices : e.ports[i] = Moved(devices[i])
                                   /\ e.ports[i].path = devices[i]
  <2>1. \A i \in 1 .. Len(devices) : Moved(devices[i]) \in PortRec
    BY <1>4, <1>5
  <2> QED BY <1>1, <1>4, <1>5, <2>1
<1>7. PortPaths(e.ports) = present
  <2>1. {e.ports[i].path : i \in DOMAIN e.ports} = ToSet(devices)
    BY <1>6 DEF ToSet
  <2> QED BY <1>2, <1>3, <2>1 DEF PortPaths
<1>8. CtlOk(d.ctl) /\ PortsOk(d.ports, present) /\ Plugged(d)
  BY DEF Consistent
<1>9. PortsOk(e.ports, present)
  BY <1>2, <1>5, <1>6 DEF PortsOk, NoDup
<1>10. ASSUME NEW p \in present, p \in PortPaths(d.ports)
       PROVE  LiveAt(e.ports, p) <=> LiveAt(d.ports, p)
  <2>1. PICK i \in DOMAIN d.ports : d.ports[i].path = p /\ Moved(p) = d.ports[i]
    BY <1>4, <1>10
  <2>2. PICK k \in DOMAIN devices : devices[k] = p
    BY <1>2 DEF ToSet
  <2>3. \A n \in DOMAIN d.ports : d.ports[n].path = p => n = i
    BY <1>3, <1>8, <2>1 DEF PortsOk
  <2>4. \A n \in DOMAIN e.ports : e.ports[n].path = p => n = k
    BY <1>2, <1>6, <2>2 DEF NoDup
  <2>5. e.ports[k] = d.ports[i] /\ e.ports[k].path = p
    BY <1>6, <2>1, <2>2
  <2> QED BY <1>6, <2>1, <2>2, <2>3, <2>4, <2>5 DEF LiveAt
<1>11. Plugged(e)
  <2>1. ASSUME NEW p \in e.usb
        PROVE  /\ LiveAt(e.ports, p)
               /\ \E i \in DOMAIN e.ctl : e.ctl[i].vc /\ e.ctl[i].device = p
    <3>1. p \in d.usb /\ p \in present
      BY <1>1
    <3>2. /\ LiveAt(d.ports, p)
          /\ \E i \in DOMAIN d.ctl : d.ctl[i].vc /\ d.ctl[i].device = p
      BY <1>8, <3>1 DEF Plugged
    <3>3. p \in PortPaths(d.ports)
      BY <1>3, <3>1, <3>2 DEF LiveAt, PortPaths
    <3> QED BY <1>1, <1>10, <3>1, <3>2, <3>3
  <2>2. ASSUME NEW i \in DOMAIN e.ctl, e.ctl[i].vc, LiveAt(e.ports, e.ctl[i].device)
        PROVE  e.ctl[i].device \in e.usb
    <3>1. e.ctl[i] = d.ctl[i] /\ i \in DOMAIN d.ctl
      BY <1>1
    <3>2. d.ctl[i].backend # 0
      BY <1>8, <2>2, <3>1 DEF CtlOk, Sound
    <3>3. d.ctl[i].device \in present /\ d.ctl[i].device \in PortPaths(d.ports)
      BY <3>1, <3>2 DEF controller_uses_port
    <3>4. LiveAt(d.ports, d.ctl[i].device)
      BY <1>10, <2>2, <3>1, <3>3
    <3>5. d.ctl[i].device \in d.usb
      BY <1>8, <2>2, <3>1, <3>4 DEF Plugged
    <3> QED BY <1>1, <3>1, <3>3, <3>5
  <2> QED BY <2>1, <2>2 DEF Plugged
<1>12. e \in DaemonType /\ Consistent(e, present)
  <2>1. e.usb \in SUBSET Ports
    BY <1>1
  <2> QED BY <1>1, <1>6, <1>8, <1>9, <1>11, <2>1 DEF Consistent
<1> QED BY <1>1, <1>7, <1>12 DEF e

(* A session carried over to the new entry of its config.                  *)
LEMMA CarriedOf ==
  ASSUME NEW c \in Runtimes, Sound(c), NEW config \in Configs,
         c.addr = config.addr, c.profile = config.profile,
         controller_uses_port(c), controller_config_allows_port(config, c.device)
  PROVE  LET n == [c EXCEPT !.ports = config.ports]
         IN  /\ n \in Runtimes /\ Sound(n) /\ n.vc = c.vc /\ n.device = c.device
             /\ n.backend = c.backend /\ controller_uses_port(n)
             /\ n.addr = config.addr /\ n.profile = config.profile /\ n.ports = config.ports
<1> DEFINE n == [c EXCEPT !.ports = config.ports]
<1>1. /\ n \in Runtimes /\ n.vc = c.vc /\ n.device = c.device /\ n.backend = c.backend
      /\ n.control = c.control /\ n.interrupt = c.interrupt /\ n.ports = config.ports
      /\ n.addr = config.addr /\ n.profile = config.profile
  BY DEF Runtimes, Configs
<1> HIDE DEF n
<1>2. controller_uses_port(n) /\ controller_config_allows_port(n, n.device)
  BY <1>1 DEF controller_uses_port, controller_config_allows_port
<1>3. Sound(n)
  BY <1>1, <1>2 DEF Sound, controller_uses_port
<1> QED BY <1>1, <1>2, <1>3 DEF n

(* The configs of the database are in force, and a session whose config    *)
(* still allows its port goes on.                                          *)
LEMMA AdoptOk ==
  ASSUME db \in Seq(Configs), Distinct(db), NEW here, NEW d \in DaemonType,
         Consistent(d, here)
  PROVE  LET e == AdoptConfigs(d)
         IN  /\ e \in DaemonType /\ Consistent(e, here)
             /\ e.ports = d.ports /\ e.reload = d.reload /\ e.dirty = d.dirty
             /\ DOMAIN e.ctl = DOMAIN db
             /\ \A k \in DOMAIN db : /\ e.ctl[k].addr = db[k].addr
                                     /\ e.ctl[k].profile = db[k].profile
                                     /\ e.ctl[k].ports = db[k].ports
             /\ \A i \in DOMAIN d.ctl, k \in DOMAIN db :
                  /\ controller_uses_port(d.ctl[i])
                  /\ d.ctl[i].device \in PortPaths(d.ports)
                  /\ d.ctl[i].addr = db[k].addr /\ d.ctl[i].profile = db[k].profile
                  /\ controller_config_allows_port(db[k], d.ctl[i].device)
                  => /\ e.ctl[k].device = d.ctl[i].device
                     /\ e.ctl[k].backend = d.ctl[i].backend /\ e.ctl[k].vc = d.ctl[i].vc
<1> DEFINE cs == d.ctl
           Olds(k) == {i \in DOMAIN cs : cs[i].addr = db[k].addr /\ cs[i].profile = db[k].profile}
           m(k) == Min(Olds(k))
           Fits(k) == /\ Olds(k) # {} /\ controller_uses_port(cs[m(k)])
                      /\ cs[m(k)].device \in PortPaths(d.ports)
                      /\ controller_config_allows_port(db[k], cs[m(k)].device)
           keep == {k \in DOMAIN db :
                      Fits(k) /\ \A j \in 1 .. k - 1 : Fits(j) => cs[m(j)].device # cs[m(k)].device}
           ends == {i \in DOMAIN cs : /\ cs[i].vc /\ cs[i].device \in PortPaths(d.ports)
                                      /\ \A k \in keep : i # m(k)}
           New(k) == IF k \in keep THEN [cs[m(k)] EXCEPT !.ports = db[k].ports]
                     ELSE Runtime(db[k])
           e == AdoptConfigs(d)
<1>1. /\ e.ports = d.ports /\ e.reload = d.reload /\ e.dirty = d.dirty
      /\ e.ctl = [k \in DOMAIN db |-> New(k)]
      /\ e.usb = d.usb \ {cs[i].device : i \in ends}
      /\ e.ctl \in Seq(Runtimes) /\ e.usb \in SUBSET Ports => e \in DaemonType
  <2> DEFINE ns == [k \in DOMAIN db |-> New(k)]
             us == d.usb \ {cs[i].device : i \in ends}
             f == [d EXCEPT !.ctl = ns, !.usb = us]
  <2>1. e = f
    BY DEF AdoptConfigs
  <2> HIDE DEF ns, us, e
  <2>2. /\ f.ports = d.ports /\ f.reload = d.reload /\ f.dirty = d.dirty
        /\ f.ctl = ns /\ f.usb = us
        /\ f.ctl \in Seq(Runtimes) /\ f.usb \in SUBSET Ports => f \in DaemonType
    BY DEF DaemonType
  <2> HIDE DEF f
  <2> QED BY <2>1, <2>2 DEF ns, us
<1>2. /\ cs \in Seq(Runtimes) /\ DOMAIN cs = 1 .. Len(cs) /\ d.usb \subseteq Ports
      /\ DOMAIN db = 1 .. Len(db) /\ Len(db) \in Nat /\ Len(cs) \in Nat
      /\ \A k \in DOMAIN db : db[k] \in Configs
      /\ \A i \in DOMAIN cs : cs[i] \in Runtimes
  BY DEF DaemonType
<1>3. CtlOk(cs) /\ PortsOk(d.ports, here) /\ Plugged(d)
  BY DEF Consistent
<1> HIDE DEF e, cs, New
<1>4. ASSUME NEW k \in DOMAIN db, Olds(k) # {}
      PROVE  m(k) \in DOMAIN cs /\ cs[m(k)].addr = db[k].addr /\ cs[m(k)].profile = db[k].profile
  <2>1. Olds(k) \in SUBSET Nat
    BY <1>2
  <2>2. m(k) \in Olds(k)
    <3> HIDE DEF Olds
    <3> QED BY <1>4, <2>1, MinOfNats
  <2> QED BY <2>2
<1>5. ASSUME NEW k \in DOMAIN db, NEW i \in DOMAIN cs, cs[i].addr = db[k].addr,
             cs[i].profile = db[k].profile
      PROVE  Olds(k) # {} /\ m(k) = i
  <2>1. i \in Olds(k)
    BY <1>5
  <2>2. m(k) \in DOMAIN cs /\ cs[m(k)].addr = db[k].addr
    BY <1>4, <2>1
  <2> QED BY <1>3, <1>5, <2>1, <2>2 DEF CtlOk, Distinct
<1> HIDE DEF Olds, m
<1>6. ASSUME NEW k \in keep
      PROVE  /\ k \in DOMAIN db /\ Fits(k) /\ m(k) \in DOMAIN cs
             /\ cs[m(k)].addr = db[k].addr /\ cs[m(k)].profile = db[k].profile
  BY <1>4
<1>7. ASSUME NEW k \in keep, NEW j \in keep, k # j
      PROVE  m(k) # m(j) /\ cs[m(k)].device # cs[m(j)].device
  <2>1. m(k) # m(j)
    BY <1>6, <1>7 DEF Distinct
  <2> QED BY <1>3, <1>6, <2>1 DEF CtlOk, Exclusive
<1>8. ASSUME NEW k \in keep
      PROVE  LET n == New(k)
             IN  /\ n \in Runtimes /\ Sound(n) /\ n.vc = cs[m(k)].vc
                 /\ n.device = cs[m(k)].device /\ n.backend = cs[m(k)].backend
                 /\ n.addr = db[k].addr /\ n.profile = db[k].profile /\ n.ports = db[k].ports
  <2>1. New(k) = [cs[m(k)] EXCEPT !.ports = db[k].ports]
    BY DEF New
  <2>2. /\ cs[m(k)] \in Runtimes /\ Sound(cs[m(k)]) /\ db[k] \in Configs
        /\ cs[m(k)].addr = db[k].addr /\ cs[m(k)].profile = db[k].profile
        /\ controller_uses_port(cs[m(k)])
        /\ controller_config_allows_port(db[k], cs[m(k)].device)
    BY <1>2, <1>3, <1>6 DEF CtlOk
  <2> HIDE DEF keep
  <2> QED BY <2>1, <2>2, CarriedOf
<1>9. ASSUME NEW k \in DOMAIN db, k \notin keep
      PROVE  LET n == New(k)
             IN  /\ n \in Runtimes /\ Sound(n) /\ ~n.vc /\ ~controller_uses_port(n)
                 /\ n.addr = db[k].addr /\ n.profile = db[k].profile /\ n.ports = db[k].ports
  <2>1. New(k) = Runtime(db[k])
    BY <1>9 DEF New
  <2> QED BY <1>2, <2>1, RuntimeOf
<1>10. /\ DOMAIN e.ctl = DOMAIN db /\ e.ctl \in Seq(Runtimes)
       /\ \A k \in DOMAIN db : e.ctl[k] = New(k)
  <2> HIDE DEF keep
  <2>1. \A k \in 1 .. Len(db) : New(k) \in Runtimes
    BY <1>2, <1>8, <1>9
  <2> QED BY <1>1, <1>2, <2>1
<1>11. CtlOk(e.ctl)
  <2>1. \A k \in DOMAIN db : Sound(New(k)) /\ New(k).addr = db[k].addr
    BY <1>8, <1>9
  <2>2. Distinct(e.ctl)
    BY <1>10, <2>1 DEF Distinct
  <2>3. Exclusive(e.ctl)
    <3> SUFFICES ASSUME NEW k \in DOMAIN db, NEW j \in DOMAIN db, k # j,
                        controller_uses_port(New(k)), controller_uses_port(New(j))
                 PROVE  New(k).device # New(j).device
      BY <1>10 DEF Exclusive
    <3>1. k \in keep /\ j \in keep
      BY <1>9
    <3> QED BY <1>7, <1>8, <3>1
  <2> QED BY <1>10, <2>1, <2>2, <2>3 DEF CtlOk
<1>12. Plugged(e)
  <2>0. /\ \A p \in d.usb : /\ LiveAt(d.ports, p)
                            /\ \E i \in DOMAIN cs : cs[i].vc /\ cs[i].device = p
        /\ \A i \in DOMAIN cs :
             cs[i].vc /\ LiveAt(d.ports, cs[i].device) => cs[i].device \in d.usb
    BY <1>3 DEF Plugged, cs
  <2>1. ASSUME NEW p \in e.usb
        PROVE  /\ LiveAt(e.ports, p)
               /\ \E k \in DOMAIN e.ctl : e.ctl[k].vc /\ e.ctl[k].device = p
    <3>1. p \in d.usb /\ p \in Ports /\ \A i \in ends : cs[i].device # p
      BY <1>1, <1>2
    <3>2. PICK i \in DOMAIN cs : cs[i].vc /\ cs[i].device = p
      BY <2>0, <3>1
    <3>3. p \in PortPaths(d.ports)
      <4>1. p # NoPort
        BY <3>1, LinuxAssumption DEF NoPort
      <4> QED BY <2>0, <3>1, <4>1 DEF LiveAt, PortPaths
    <3>4. PICK k \in keep : i = m(k)
      BY <3>1, <3>2, <3>3
    <3>5. k \in DOMAIN e.ctl /\ e.ctl[k].vc /\ e.ctl[k].device = p
      BY <1>6, <1>8, <1>10, <3>2, <3>4
    <3> QED BY <1>1, <2>0, <3>1, <3>5
  <2>2. ASSUME NEW k \in DOMAIN e.ctl, e.ctl[k].vc, LiveAt(e.ports, e.ctl[k].device)
        PROVE  e.ctl[k].device \in e.usb
    <3>1. k \in keep /\ e.ctl[k] = New(k)
      BY <1>9, <1>10, <2>2
    <3>2. /\ m(k) \in DOMAIN cs /\ cs[m(k)].vc /\ e.ctl[k].device = cs[m(k)].device
          /\ controller_uses_port(cs[m(k)])
      BY <1>6, <1>8, <2>2, <3>1
    <3>3. cs[m(k)].device \in d.usb
      BY <1>1, <2>0, <2>2, <3>2
    <3>4. ASSUME NEW i \in ends PROVE cs[i].device # cs[m(k)].device
      <4>1. i \in DOMAIN cs /\ cs[i].vc /\ i # m(k)
        BY <3>1
      <4>2. controller_uses_port(cs[i])
        BY <4>1 DEF controller_uses_port
      <4> QED BY <1>3, <3>2, <4>1, <4>2 DEF CtlOk, Exclusive
    <3> QED BY <1>1, <3>2, <3>3, <3>4
  <2> QED BY <2>1, <2>2 DEF Plugged
<1>13. e \in DaemonType /\ Consistent(e, here)
  <2>1. e.usb \in SUBSET Ports
    BY <1>1, <1>2
  <2> QED BY <1>1, <1>3, <1>10, <1>11, <1>12, <2>1 DEF Consistent
<1>14. ASSUME NEW i \in DOMAIN cs, NEW k \in DOMAIN db,
              controller_uses_port(cs[i]), cs[i].device \in PortPaths(d.ports),
              cs[i].addr = db[k].addr, cs[i].profile = db[k].profile,
              controller_config_allows_port(db[k], cs[i].device)
       PROVE  /\ e.ctl[k].device = cs[i].device
              /\ e.ctl[k].backend = cs[i].backend /\ e.ctl[k].vc = cs[i].vc
  <2>1. Fits(k) /\ m(k) = i
    BY <1>5, <1>14
  <2>2. ASSUME NEW j \in 1 .. k - 1, Fits(j)
        PROVE  cs[m(j)].device # cs[m(k)].device
    <3>1. j \in DOMAIN db /\ j # k
      BY <1>2
    <3>2. m(j) \in DOMAIN cs /\ cs[m(j)].addr = db[j].addr
      BY <1>4, <2>2, <3>1
    <3>3. m(j) # m(k)
      BY <1>14, <2>1, <3>1, <3>2 DEF Distinct
    <3> QED BY <1>3, <2>1, <2>2, <3>2, <3>3 DEF CtlOk, Exclusive
  <2>3. k \in keep
    BY <2>1, <2>2
  <2> QED BY <1>8, <1>10, <2>1, <2>3
<1> HIDE DEF keep
<1>15. \A k \in DOMAIN db : /\ e.ctl[k].addr = db[k].addr /\ e.ctl[k].profile = db[k].profile
                            /\ e.ctl[k].ports = db[k].ports
  BY <1>8, <1>9, <1>10
<1> QED BY <1>1, <1>10, <1>13, <1>14, <1>15 DEF e, cs

(* A reload that gives up at an endpoint it cannot open.                   *)
LEMMA SyncFailsOk ==
  ASSUME present \subseteq Ports, NEW d \in DaemonType, Consistent(d, present), NEW bad
  PROVE  LET e == SyncFailsAt(d, bad)
         IN  /\ e \in DaemonType /\ Consistent(e, present)
             /\ e.ctl = d.ctl /\ e.reload = d.reload /\ e.dirty = d.dirty
<1> DEFINE moved == {p \in PortPaths(d.ports) \cap present : p < bad}
           shell == [path |-> NoPort, live |-> FALSE]
           ps == d.ports
           qs == [i \in DOMAIN ps |-> IF ps[i].path \in moved THEN shell ELSE ps[i]]
           us == d.usb \ moved
           e == [d EXCEPT !.ports = qs, !.usb = us]
<1>1. SyncFailsAt(d, bad) = e
  BY DEF SyncFailsAt
<1>2. ps \in Seq(PortRec) /\ DOMAIN ps = 1 .. Len(ps) /\ shell \in PortRec
      /\ \A i \in DOMAIN ps : ps[i] \in PortRec
  <2>1. ps \in Seq(PortRec)
    BY DEF DaemonType
  <2>2. shell \in PortRec
    BY DEF PortRec
  <2> HIDE DEF ps, shell
  <2> QED BY <2>1, <2>2
<1>3. qs \in Seq(PortRec) /\ DOMAIN qs = DOMAIN ps
  <2> HIDE DEF shell, moved, ps
  <2>1. \A i \in 1 .. Len(ps) : (IF ps[i].path \in moved THEN shell ELSE ps[i]) \in PortRec
    BY <1>2
  <2> QED BY <1>2, <2>1
<1>4. \A i \in DOMAIN ps : qs[i] = IF ps[i].path \in moved THEN shell ELSE ps[i]
  OBVIOUS
<1> HIDE DEF qs, us
<1>5. /\ e.ports = qs /\ e.usb = us /\ e.ctl = d.ctl /\ e.reload = d.reload
      /\ e.dirty = d.dirty /\ (us \in SUBSET Ports => e \in DaemonType)
  BY <1>3 DEF DaemonType
<1> HIDE DEF e, moved, ps
<1>6. us \in SUBSET Ports
  BY DEF us, DaemonType
<1>7. CtlOk(d.ctl) /\ PortsOk(ps, present) /\ Plugged(d)
  BY DEF Consistent, ps
<1>8. \A i \in DOMAIN ps : /\ qs[i].live => qs[i] = ps[i] /\ ps[i].path \notin moved
                           /\ qs[i].path # NoPort => qs[i] = ps[i]
                           /\ ps[i].path \notin moved => qs[i] = ps[i]
  BY <1>4
<1>9. PortsOk(qs, present)
  BY <1>3, <1>7, <1>8 DEF PortsOk
<1>10. Plugged(e)
  <2>1. ASSUME NEW p \in e.usb
        PROVE  /\ LiveAt(e.ports, p)
               /\ \E i \in DOMAIN e.ctl : e.ctl[i].vc /\ e.ctl[i].device = p
    <3>1. p \in d.usb /\ p \notin moved
      BY <1>5 DEF us
    <3>2. /\ LiveAt(ps, p)
          /\ \E i \in DOMAIN d.ctl : d.ctl[i].vc /\ d.ctl[i].device = p
      BY <1>7, <3>1 DEF Plugged, ps
    <3>3. LiveAt(qs, p)
      BY <1>3, <1>8, <3>1, <3>2 DEF LiveAt
    <3> QED BY <1>5, <3>2, <3>3
  <2>2. ASSUME NEW i \in DOMAIN e.ctl, e.ctl[i].vc, LiveAt(e.ports, e.ctl[i].device)
        PROVE  e.ctl[i].device \in e.usb
    <3>1. LiveAt(ps, d.ctl[i].device) /\ d.ctl[i].device \notin moved
      BY <1>3, <1>5, <1>8, <2>2 DEF LiveAt
    <3>2. d.ctl[i].device \in d.usb
      BY <1>5, <1>7, <2>2, <3>1 DEF Plugged, ps
    <3> QED BY <1>5, <3>1, <3>2 DEF us
  <2> QED BY <2>1, <2>2 DEF Plugged
<1>11. Consistent(e, present)
  BY <1>5, <1>7, <1>9, <1>10 DEF Consistent
<1> QED BY <1>1, <1>5, <1>6, <1>11

-----------------------------------------------------------------------------
(* The handlers.                                                           *)

(* What every handler leaves alone: the ports, who the controllers are and *)
(* the requests to reload or to rebuild the epoll set; a session it begins *)
(* makes the set dirty.                                                    *)
Edit(d, e) ==
  /\ e.ports = d.ports /\ DOMAIN e.ctl = DOMAIN d.ctl
  /\ \A i \in DOMAIN d.ctl : /\ e.ctl[i].addr = d.ctl[i].addr
                             /\ e.ctl[i].profile = d.ctl[i].profile
                             /\ e.ctl[i].ports = d.ctl[i].ports
  /\ (d.dirty => e.dirty) /\ (d.reload => e.reload)
  /\ ~e.dirty => \A i \in DOMAIN d.ctl :
                   e.ctl[i].backend # 0 => e.ctl[i].backend = d.ctl[i].backend

(* drop_bt_backend leaves the tables consistent.                           *)
LEMMA DropOk ==
  ASSUME NEW here, NEW d \in DaemonType, Consistent(d, here), NEW i \in DOMAIN d.ctl
  PROVE  LET e == drop_bt_backend(d, i)
         IN  e \in DaemonType /\ Consistent(e, here) /\ Edit(d, e)
<1>0. d.ctl[i] \in Runtimes /\ d.ctl \in Seq(Runtimes)
      /\ \A j \in DOMAIN d.ctl : d.ctl[j] \in Runtimes
  BY DEF DaemonType
<1>1. CASE d.ctl[i].backend = 0 /\ ~d.ctl[i].vc
  <2> DEFINE e == [d EXCEPT !.dirty = TRUE]
  <2>1. drop_bt_backend(d, i) = e
    BY <1>1 DEF drop_bt_backend
  <2>2. e \in DaemonType /\ e.ports = d.ports /\ e.ctl = d.ctl /\ e.usb = d.usb
        /\ e.reload = d.reload /\ e.dirty
    BY DEF DaemonType
  <2> HIDE DEF e
  <2> QED BY <2>1, <2>2 DEF Consistent, Plugged, Edit
<1>2. CASE ~(d.ctl[i].backend = 0 /\ ~d.ctl[i].vc)
  <2> DEFINE cs == [d.ctl EXCEPT ![i] = Released(@)]
             us == d.usb \ {d.ctl[i].device}
             e == [d EXCEPT !.ctl = cs, !.usb = us, !.dirty = TRUE]
  <2>1. drop_bt_backend(d, i) = e
    BY <1>0, <1>2 DEF drop_bt_backend, DaemonType
  <2>2. /\ DOMAIN cs = DOMAIN d.ctl /\ cs[i] = Released(d.ctl[i])
        /\ \A j \in DOMAIN d.ctl : j # i => cs[j] = d.ctl[j]
        /\ cs \in Seq(Runtimes)
    BY <1>0, ReleasedOf
  <2>7. /\ us \in SUBSET Ports /\ us \subseteq d.usb
        /\ \A p \in d.usb : p \notin us => p = d.ctl[i].device
    BY DEF DaemonType
  <2>8. d.ctl[i].device \notin us
    OBVIOUS
  <2> HIDE DEF cs, us
  <2>3. /\ e.ports = d.ports /\ e.ctl = cs /\ e.usb = us /\ e.reload = d.reload /\ e.dirty
        /\ e \in DaemonType
    BY <2>2, <2>7 DEF DaemonType
  <2> HIDE DEF e
  <2>4. controller_uses_port(d.ctl[i])
    BY <1>2 DEF controller_uses_port
  <2>5. Consistent(e, here)
    <3> DEFINE R == {i}
    <3>1. /\ R \in SUBSET DOMAIN d.ctl /\ e.usb \subseteq d.usb
          /\ \A p \in d.usb : p \notin e.usb => \E j \in R : /\ controller_uses_port(d.ctl[j])
                                                             /\ d.ctl[j].device = p
          /\ \A j \in R : d.ctl[j].device \notin e.usb
          /\ \A j \in R : e.ctl[j] = Released(d.ctl[j])
          /\ \A j \in DOMAIN d.ctl : j \notin R => e.ctl[j] = d.ctl[j]
      BY <2>2, <2>3, <2>4, <2>7, <2>8
    <3> HIDE DEF R
    <3> QED BY <2>2, <2>3, <3>1, LettingGo
  <2>6. Edit(d, e)
    BY <1>0, <2>2, <2>3, ReleasedOf DEF Edit
  <2> QED BY <2>1, <2>3, <2>5, <2>6
<1> QED BY <1>1, <1>2

(* After a flush every session has its port open.                          *)
LEMMA FlushOk ==
  ASSUME NEW here, NEW d \in DaemonType, Consistent(d, here), NEW failing
  PROVE  LET e == flush_pending_outputs(d, failing)
         IN  /\ e \in DaemonType /\ Consistent(e, here) /\ Edit(d, e)
             /\ e.reload = d.reload
             /\ \A i \in DOMAIN e.ctl :
                  e.ctl[i].backend # 0 => e.ctl[i].device \in PortPaths(e.ports)
<1> DEFINE bound == {i \in DOMAIN d.ctl : d.ctl[i].backend # 0}
           stray == {i \in bound : find_port_index(d.ports, d.ctl[i].device) = 0}
           lost  == (bound \cap failing) \ stray
           R == stray \cup lost
           cs == [i \in DOMAIN d.ctl |-> IF i \in R THEN Released(d.ctl[i]) ELSE d.ctl[i]]
           us == d.usb \ {d.ctl[i].device : i \in lost}
           w == d.dirty \/ R # {}
           e == [d EXCEPT !.ctl = cs, !.usb = us, !.dirty = w]
<1>0. d.ctl \in Seq(Runtimes) /\ d.ports \in Seq(PortRec)
      /\ \A j \in DOMAIN d.ctl : d.ctl[j] \in Runtimes
  BY DEF DaemonType
<1>1. flush_pending_outputs(d, failing) = e
  BY DEF flush_pending_outputs
<1>2. /\ R \in SUBSET bound /\ bound \subseteq DOMAIN d.ctl
      /\ \A i \in bound : controller_uses_port(d.ctl[i])
  BY DEF controller_uses_port
<1>3. ASSUME NEW i \in bound
      PROVE  d.ctl[i].device \in Ports
  <2>1. Sound(d.ctl[i]) /\ d.ctl[i] \in Runtimes
    BY <1>0, <1>2 DEF Consistent, CtlOk
  <2> QED BY <1>2, <2>1 DEF Sound, Runtimes
<1>4. \A i \in stray : d.ctl[i].device \notin d.usb
  <2> SUFFICES ASSUME NEW i \in stray, d.ctl[i].device \in d.usb PROVE FALSE
    OBVIOUS
  <2>1. LiveAt(d.ports, d.ctl[i].device)
    BY DEF Consistent, Plugged
  <2> QED BY <1>0, <2>1, FindPort DEF LiveAt
<1>5. \A i \in bound \ R : d.ctl[i].device \in PortPaths(d.ports)
  BY <1>0, <1>3, FindPath
<1>6. w \in BOOLEAN
  BY DEF DaemonType
<1>7. cs = [i \in DOMAIN d.ctl |-> IF i \in R THEN Released(d.ctl[i]) ELSE d.ctl[i]]
  OBVIOUS
<1>8. us \subseteq d.usb /\ us \in SUBSET Ports
  BY DEF DaemonType
<1>9. /\ \A p \in d.usb : p \notin us => \E i \in R : /\ controller_uses_port(d.ctl[i])
                                                      /\ d.ctl[i].device = p
      /\ \A i \in R : d.ctl[i].device \notin us
  BY <1>2, <1>4
<1>10. w = (d.dirty \/ R # {})
  OBVIOUS
<1> HIDE DEF cs, us, w, R
<1>11. /\ e.ports = d.ports /\ e.ctl = cs /\ e.usb = us /\ e.reload = d.reload /\ e.dirty = w
       /\ cs \in Seq(Runtimes) => e \in DaemonType
  BY <1>6, <1>8 DEF DaemonType
<1> HIDE DEF e, bound
<1>12. e.ctl \in Seq(Runtimes)
  <2>1. e.ctl = [i \in DOMAIN d.ctl |-> IF i \in R THEN Released(d.ctl[i]) ELSE d.ctl[i]]
    BY <1>7, <1>11
  <2> QED BY ONLY <1>0, <2>1, ReleasedSeq
<1>13. /\ DOMAIN e.ctl = DOMAIN d.ctl /\ R \in SUBSET DOMAIN d.ctl
       /\ \A i \in R : e.ctl[i] = Released(d.ctl[i])
       /\ \A i \in DOMAIN d.ctl : i \notin R => e.ctl[i] = d.ctl[i]
  BY <1>2, <1>7, <1>11
<1>16. Consistent(e, here)
  BY <1>8, <1>9, <1>11, <1>13, LettingGo
<1>14. Edit(d, e)
  BY <1>0, <1>10, <1>11, <1>13, ReleasedOf DEF Edit
<1>15. \A i \in DOMAIN e.ctl :
         e.ctl[i].backend # 0 => e.ctl[i].device \in PortPaths(e.ports)
  BY <1>0, <1>5, <1>11, <1>13, ReleasedOf DEF bound
<1> QED BY <1>1, <1>11, <1>12, <1>14, <1>15, <1>16

(* A session whose port is gone (handle of a Bluetooth event).             *)
LEMMA UnbindOk ==
  ASSUME NEW here, NEW d \in DaemonType, Consistent(d, here), NEW i \in DOMAIN d.ctl,
         d.ctl[i].backend # 0, find_port_index(d.ports, d.ctl[i].device) = 0
  PROVE  LET e == [d EXCEPT !.ctl[i].backend = 0, !.ctl[i].vc = FALSE, !.dirty = TRUE]
         IN  e \in DaemonType /\ Consistent(e, here) /\ Edit(d, e)
<1> DEFINE c == d.ctl[i]
           n == [c EXCEPT !.backend = 0, !.vc = FALSE]
           cs == [d.ctl EXCEPT ![i] = n]
           e == [d EXCEPT !.ctl = cs, !.dirty = TRUE]
<1>0. d.ctl \in Seq(Runtimes) /\ d.ports \in Seq(PortRec) /\ c \in Runtimes
  BY DEF DaemonType
<1>1. [d EXCEPT !.ctl[i].backend = 0, !.ctl[i].vc = FALSE, !.dirty = TRUE] = e
  BY <1>0 DEF DaemonType, Runtimes
<1>2. /\ n \in Runtimes /\ n.addr = c.addr /\ n.profile = c.profile /\ n.ports = c.ports
      /\ n.device = c.device /\ n.backend = 0 /\ ~n.vc /\ n.control = c.control
      /\ n.interrupt = c.interrupt
  BY <1>0 DEF Runtimes
<1> HIDE DEF n
<1>3. cs \in Seq(Runtimes) /\ DOMAIN cs = DOMAIN d.ctl /\ cs[i] = n
      /\ \A j \in DOMAIN d.ctl : j # i => cs[j] = d.ctl[j]
  BY <1>0, <1>2
<1> HIDE DEF cs
<1>4. /\ e.ports = d.ports /\ e.ctl = cs /\ e.usb = d.usb /\ e.reload = d.reload /\ e.dirty
      /\ e \in DaemonType
  BY <1>3 DEF DaemonType
<1> HIDE DEF e
<1>5. CtlOk(d.ctl) /\ PortsOk(d.ports, here) /\ Plugged(d) /\ Sound(c)
  BY DEF Consistent, CtlOk
<1>6. Sound(n) /\ ~controller_uses_port(n)
  <2>1. n.control = 0 /\ n.interrupt = 0
    BY <1>2, <1>5 DEF Sound
  <2>2. n.device # NoPort => controller_config_allows_port(n, n.device)
    BY <1>2, <1>5 DEF Sound, controller_config_allows_port
  <2> QED BY <1>2, <2>1, <2>2 DEF Sound, controller_uses_port
<1>7. CtlOk(cs)
  <2>1. \A j \in DOMAIN cs : Sound(cs[j]) /\ cs[j].addr = d.ctl[j].addr
    BY <1>2, <1>3, <1>5, <1>6 DEF CtlOk
  <2>2. Distinct(cs)
    BY <1>3, <1>5, <2>1 DEF CtlOk, Distinct
  <2>3. Exclusive(cs)
    BY <1>3, <1>5, <1>6 DEF CtlOk, Exclusive
  <2> QED BY <2>1, <2>2, <2>3 DEF CtlOk
<1>8. Plugged(e)
  <2>1. c.device \notin d.usb
    <3>1. \A j \in DOMAIN d.ports : d.ports[j].path # c.device
      BY <1>0, FindPort
    <3> QED BY <1>5, <3>1 DEF Plugged, LiveAt
  <2>2. \A p \in d.usb : \E j \in DOMAIN cs : cs[j].vc /\ cs[j].device = p
    BY <1>3, <1>5, <2>1 DEF Plugged
  <2> QED BY <1>2, <1>3, <1>4, <1>5, <2>2 DEF Plugged
<1>9. Consistent(e, here) /\ Edit(d, e)
  BY <1>2, <1>3, <1>4, <1>5, <1>7, <1>8 DEF Consistent, Edit
<1> QED BY <1>1, <1>4, <1>9

(* The port of a new channel is free, open and allowed.                    *)
LEMMA AssignedOk ==
  ASSUME NEW here, NEW d \in DaemonType, Consistent(d, here), NEW i \in DOMAIN d.ctl,
         AssignedPort(d, i) # NoPort
  PROVE  LET p == AssignedPort(d, i)
         IN  /\ p \in PortPaths(d.ports) /\ p \in Ports
             /\ p \notin OtherPorts(d.ctl, i) /\ controller_config_allows_port(d.ctl[i], p)
<1> DEFINE c == d.ctl[i]
           p == AssignedPort(d, i)
<1>0. d.ctl \in Seq(Runtimes) /\ d.ports \in Seq(PortRec) /\ c \in Runtimes /\ Sound(c)
  BY DEF DaemonType, Consistent, CtlOk
<1>1. PortPaths(d.ports) \subseteq Ports
  <2>1. \A j \in DOMAIN d.ports : d.ports[j] \in PortRec
    BY <1>0
  <2> QED BY <2>1 DEF PortPaths, PortRec
<1>2. CASE /\ find_port_index(d.ports, c.device) # 0 /\ c.device # NoPort
           /\ c.device \notin OtherPorts(d.ctl, i)
  <2>1. p = c.device /\ c.device \in Ports
    BY <1>0, <1>2 DEF AssignedPort, Runtimes
  <2>2. c.device \in PortPaths(d.ports)
    BY <1>0, <1>2, <2>1, FindPath
  <2> HIDE DEF p, c
  <2> QED BY <1>0, <1>2, <2>1, <2>2 DEF Sound, p, c
<1>3. CASE ~(/\ find_port_index(d.ports, c.device) # 0 /\ c.device # NoPort
             /\ c.device \notin OtherPorts(d.ctl, i))
  <2>1. p = select_controller_config_port(c, PortPaths(d.ports), OtherPorts(d.ctl, i))
    BY <1>3 DEF AssignedPort, available_port
  <2>2. p \in PortPaths(d.ports) \ OtherPorts(d.ctl, i) /\ controller_config_allows_port(c, p)
    BY <1>0, <2>1, SelectPort
  <2> QED BY <1>1, <2>2
<1> QED BY <1>2, <1>3

(* The entry of one controller is replaced by one that has no session yet. *)
LEMMA HoldOk ==
  ASSUME NEW here, NEW d \in DaemonType, Consistent(d, here), NEW i \in DOMAIN d.ctl,
         d.ctl[i].backend = 0, NEW n \in Runtimes, Sound(n), n.backend = 0,
         n.addr = d.ctl[i].addr, n.profile = d.ctl[i].profile, n.ports = d.ctl[i].ports,
         n.device \notin OtherPorts(d.ctl, i)
  PROVE  LET e == [d EXCEPT !.ctl = [@ EXCEPT ![i] = n]]
         IN  e \in DaemonType /\ Consistent(e, here) /\ Edit(d, e) /\ e.ctl[i] = n
<1> DEFINE cs == [d.ctl EXCEPT ![i] = n]
           e == [d EXCEPT !.ctl = cs]
<1>0. d.ctl \in Seq(Runtimes) /\ d.ctl[i] \in Runtimes
  BY DEF DaemonType
<1>3. cs \in Seq(Runtimes) /\ DOMAIN cs = DOMAIN d.ctl /\ cs[i] = n
      /\ \A j \in DOMAIN d.ctl : j # i => cs[j] = d.ctl[j]
  BY <1>0
<1>1. [d EXCEPT !.ctl = [@ EXCEPT ![i] = n]] = e
  OBVIOUS
<1> HIDE DEF cs
<1>4. /\ e.ports = d.ports /\ e.ctl = cs /\ e.usb = d.usb /\ e.reload = d.reload
      /\ e.dirty = d.dirty /\ e \in DaemonType
  BY <1>3 DEF DaemonType
<1> HIDE DEF e
<1>5. CtlOk(d.ctl) /\ PortsOk(d.ports, here) /\ Plugged(d) /\ Sound(d.ctl[i])
  BY DEF Consistent, CtlOk
<1>6. ~n.vc /\ ~d.ctl[i].vc
  BY <1>5 DEF Sound
<1>7. CtlOk(cs)
  <2>1. \A j \in DOMAIN cs : Sound(cs[j]) /\ cs[j].addr = d.ctl[j].addr
    BY <1>3, <1>5 DEF CtlOk
  <2>2. Distinct(cs)
    BY <1>3, <1>5, <2>1 DEF CtlOk, Distinct
  <2>3. \A j \in DOMAIN d.ctl : j # i /\ controller_uses_port(d.ctl[j])
                                 => d.ctl[j].device # n.device
    BY DEF OtherPorts
  <2>4. Exclusive(cs)
    BY <1>3, <1>5, <2>3 DEF CtlOk, Exclusive
  <2> QED BY <2>1, <2>2, <2>4 DEF CtlOk
<1>8. Plugged(e)
  BY <1>3, <1>4, <1>5, <1>6 DEF Plugged
<1>9. Consistent(e, here) /\ Edit(d, e)
  BY <1>3, <1>4, <1>5, <1>7, <1>8 DEF Consistent, Edit
<1> QED BY <1>1, <1>3, <1>4, <1>9

(* complete_pending_controller, on a controller with both channels.        *)
LEMMA CompleteOk ==
  ASSUME NEW here, NEW d \in DaemonType, Consistent(d, here), NEW i \in DOMAIN d.ctl,
         d.ctl[i].backend = 0, d.ctl[i].control # 0, d.ctl[i].interrupt # 0,
         NEW succeeds \in BOOLEAN, succeeds => LiveAt(d.ports, d.ctl[i].device)
  PROVE  LET e == complete_pending_controller(d, i, succeeds)
         IN  e \in DaemonType /\ Consistent(e, here) /\ Edit(d, e)
<1> DEFINE c == d.ctl[i]
<1>0. /\ d.ctl \in Seq(Runtimes) /\ c \in Runtimes /\ Sound(c) /\ d.usb \subseteq Ports
      /\ \A j \in DOMAIN d.ctl : d.ctl[j] \in Runtimes
  BY DEF DaemonType, Consistent, CtlOk
<1>1. controller_uses_port(c) /\ c.device \in Ports /\ c.device # NoPort
  BY <1>0 DEF Sound, controller_uses_port, Runtimes
<1>2. CASE succeeds
  <2> DEFINE n == [c EXCEPT !.backend = c.control, !.control = 0, !.interrupt = 0, !.vc = TRUE]
             cs == [d.ctl EXCEPT ![i] = n]
             us == d.usb \cup {c.device}
             e == [d EXCEPT !.ctl = cs, !.usb = us, !.dirty = TRUE]
  <2>1. complete_pending_controller(d, i, succeeds) = e
    BY <1>0, <1>2 DEF complete_pending_controller, DaemonType
  <2>2. /\ n \in Runtimes /\ n.addr = c.addr /\ n.profile = c.profile /\ n.ports = c.ports
        /\ n.device = c.device /\ n.backend = c.control /\ n.vc /\ n.control = 0
        /\ n.interrupt = 0
    BY <1>0 DEF Runtimes
  <2> HIDE DEF n
  <2>3. cs \in Seq(Runtimes) /\ DOMAIN cs = DOMAIN d.ctl /\ cs[i] = n
        /\ \A j \in DOMAIN d.ctl : j # i => cs[j] = d.ctl[j]
    BY <1>0, <2>2
  <2>4. us \in SUBSET Ports
    BY <1>0, <1>1
  <2> HIDE DEF cs, us
  <2>5. /\ e.ports = d.ports /\ e.ctl = cs /\ e.usb = us /\ e.reload = d.reload /\ e.dirty
        /\ e \in DaemonType
    BY <2>3, <2>4 DEF DaemonType
  <2> HIDE DEF e
  <2>6. CtlOk(d.ctl) /\ PortsOk(d.ports, here) /\ Plugged(d)
    BY DEF Consistent
  <2>7. Sound(n) /\ controller_uses_port(n)
    <3>1. controller_config_allows_port(n, n.device)
      BY <1>0, <1>1, <2>2 DEF Sound, controller_config_allows_port
    <3> QED BY <1>1, <2>2, <3>1 DEF Sound, controller_uses_port
  <2>8. CtlOk(cs)
    <3>1. \A j \in DOMAIN cs : Sound(cs[j]) /\ cs[j].addr = d.ctl[j].addr
      BY <2>2, <2>3, <2>6, <2>7 DEF CtlOk
    <3>2. Distinct(cs)
      BY <2>3, <2>6, <3>1 DEF CtlOk, Distinct
    <3>3. Exclusive(cs)
      BY <1>1, <2>2, <2>3, <2>6 DEF CtlOk, Exclusive
    <3> QED BY <3>1, <3>2, <3>3 DEF CtlOk
  <2>9. Plugged(e)
    <3>1. ASSUME NEW p \in us
          PROVE  LiveAt(d.ports, p) /\ \E j \in DOMAIN cs : cs[j].vc /\ cs[j].device = p
      <4>1. CASE p = c.device
        BY <1>2, <2>2, <2>3, <4>1
      <4>2. CASE p # c.device
        <5>1. p \in d.usb
          BY <4>2 DEF us
        <5> QED BY <2>3, <2>6, <4>2, <5>1 DEF Plugged
      <4> QED BY <4>1, <4>2
    <3>2. ASSUME NEW j \in DOMAIN cs, cs[j].vc, LiveAt(d.ports, cs[j].device)
          PROVE  cs[j].device \in us
      BY <2>2, <2>3, <2>6, <3>2 DEF Plugged, us
    <3> QED BY <2>5, <3>1, <3>2 DEF Plugged
  <2>10. Consistent(e, here) /\ Edit(d, e)
    BY <2>2, <2>3, <2>5, <2>6, <2>8, <2>9 DEF Consistent, Edit
  <2> QED BY <2>1, <2>5, <2>10
<1>3. CASE ~succeeds
  <2> DEFINE R == {i}
             cs == [d.ctl EXCEPT ![i] = Released(@)]
             us == d.usb \ {c.device}
             e == [d EXCEPT !.ctl = cs, !.usb = us]
  <2>1. complete_pending_controller(d, i, succeeds) = e
    BY <1>0, <1>3 DEF complete_pending_controller, DaemonType
  <2>2. /\ DOMAIN cs = DOMAIN d.ctl /\ cs \in Seq(Runtimes)
        /\ \A j \in R : cs[j] = Released(d.ctl[j])
        /\ \A j \in DOMAIN d.ctl : j \notin R => cs[j] = d.ctl[j]
    BY <1>0, ReleasedOf
  <2>3. /\ us \subseteq d.usb /\ us \in SUBSET Ports
        /\ R \in SUBSET DOMAIN d.ctl
        /\ \A p \in d.usb : p \notin us => \E j \in R : /\ controller_uses_port(d.ctl[j])
                                                        /\ d.ctl[j].device = p
        /\ \A j \in R : d.ctl[j].device \notin us
    BY <1>0, <1>1
  <2> HIDE DEF cs, us, R
  <2>4. /\ e.ports = d.ports /\ e.ctl = cs /\ e.usb = us /\ e.reload = d.reload
        /\ e.dirty = d.dirty /\ e \in DaemonType
    BY <2>2, <2>3 DEF DaemonType
  <2> HIDE DEF e
  <2>5. Consistent(e, here)
    BY <2>2, <2>3, <2>4, LettingGo
  <2>6. Edit(d, e)
    <3>1. \A j \in DOMAIN d.ctl : e.ctl[j] \in {d.ctl[j], Released(d.ctl[j])}
      BY <2>2, <2>4
    <3> QED BY <1>0, <2>2, <2>4, <3>1, ReleasedOf DEF Edit
  <2> QED BY <2>1, <2>4, <2>5, <2>6
<1> QED BY <1>2, <1>3

-----------------------------------------------------------------------------
(* The inductive invariant.                                                *)

(* A reload finds every session on an open port: the flush before it let   *)
(* go of the others.                                                       *)
Attended ==
  pc = "top" /\ reload => \A i \in DOMAIN ctl : ctl[i].backend # 0 =>
                                                ctl[i].device \in PortPaths(ports)

(* A clean epoll set names the ports and the controllers by the index they *)
(* have; a backend that was dropped may still be named.                    *)
Matches(ps, cs) ==
  /\ ok => DOMAIN reg.ports = DOMAIN ps /\ \A i \in DOMAIN ps : reg.ports[i] = ps[i].path
  /\ DOMAIN reg.ctl = DOMAIN cs
  /\ \A i \in DOMAIN cs : /\ reg.ctl[i][1] = cs[i].addr
                          /\ cs[i].backend # 0 => reg.ctl[i][2] = cs[i].backend
Watches == pc # "down" /\ ~dirty => Matches(ports, ctl)

(* Where the loop is.                                                      *)
InLoop ==
  /\ pc = "wait" => ~dirty /\ ~reload
  /\ pc \in {"top", "wait", "down"} => batch = {}
  /\ pc = "down" => ~ok /\ ctl = <<>> /\ ports = <<>> /\ usb = {}

(* The controllers are those of the database until a reload is asked for.  *)
Configured ==
  /\ Distinct(db)
  /\ ok /\ ~reload => /\ DOMAIN ctl = DOMAIN db
                      /\ \A i \in DOMAIN ctl : /\ ctl[i].addr = db[i].addr
                                               /\ ctl[i].profile = db[i].profile
                                               /\ ctl[i].ports = db[i].ports
Tracked == ok /\ ~udev /\ ~reload => PortPaths(ports) = present

IInv ==
  /\ TypeOK /\ Consistent(Daemon, present)
  /\ Attended /\ Watches /\ InLoop /\ EventNamesController /\ Configured /\ Tracked

(* The empty vector.                                                       *)
LEMMA NoEntries ==
  ASSUME NEW S
  PROVE  <<>> \in Seq(S)
OBVIOUS

(* The record Daemon and the variables it is made of.                      *)
LEMMA DaemonOf ==
  ASSUME TypeOK
  PROVE  /\ Daemon \in DaemonType
         /\ Daemon.ports = ports /\ Daemon.ctl = ctl /\ Daemon.usb = usb
         /\ Daemon.reload = reload /\ Daemon.dirty = dirty
BY DEF TypeOK, TableTypes, LoopTypes, Daemon, DaemonType, PortRec

(* The variables take the values of the record.                            *)
LEMMA BecomesOf ==
  ASSUME NEW d \in DaemonType, Becomes(d)
  PROVE  /\ Daemon' = d /\ TableTypes' /\ reload' \in BOOLEAN /\ dirty' \in BOOLEAN
         /\ d.ports = ports' /\ d.ctl = ctl' /\ d.usb = usb'
         /\ d.reload = reload' /\ d.dirty = dirty'
BY DEF Becomes, DaemonType, Daemon, TableTypes, PortRec

(* The daemon ends.                                                        *)
LEMMA DieOk ==
  ASSUME IInv, Die, left' \in Nat
  PROVE  IInv'
<1>1. TypeOK'
  <2>1. link' \in [Addrs -> Links]
    BY DEF IInv, TypeOK, WorldTypes, Die, Links
  <2>2. lq' \in [Kinds -> Seq(Addrs \X Nat)] /\ cmd' \subseteq Commands /\ udev' \in BOOLEAN
        /\ present' \subseteq Ports /\ db' \in Seq(Configs)
    <3>1. lq' = [k \in Kinds |-> <<>>]
      BY DEF Die
    <3>2. lq' \in [Kinds -> Seq(Addrs \X Nat)]
      BY ONLY <3>1, NoEntries
    <3> QED BY <3>2 DEF IInv, TypeOK, WorldTypes, Die
  <2>3. TableTypes'
    <3>1. ports' = <<>> /\ ctl' = <<>> /\ usb' = {}
      BY DEF Die
    <3> QED BY ONLY <3>1, NoEntries DEF TableTypes
  <2>4. LoopTypes'
    <3>1. reg' \in [ports: Seq(Ports), ctl: Seq(Addrs \X Nat)]
      BY NoEntries DEF Die, NoReg
    <3> QED BY <3>1 DEF Die, LoopTypes
  <2> QED BY <2>1, <2>2, <2>3, <2>4 DEF TypeOK, WorldTypes
<1>2. Daemon'.ports = <<>> /\ Daemon'.ctl = <<>> /\ Daemon'.usb = {}
  BY DEF Daemon, Die
<1>3. Consistent(Daemon, present)'
  <2>1. DOMAIN <<>> = {}
    OBVIOUS
  <2> QED BY <1>2, <2>1 DEF Consistent, CtlOk, Distinct, Exclusive, PortsOk, Plugged
<1>4. Attended' /\ Watches' /\ InLoop' /\ EventNamesController' /\ Tracked'
  BY DEF Die, Attended, Watches, InLoop, EventNamesController, Tracked
<1>5. Configured'
  BY DEF Die, Configured, IInv, Distinct
<1> QED BY <1>1, <1>3, <1>4, <1>5 DEF IInv

(* A step of a handler: the tables are edited.                             *)
LEMMA EditStep ==
  ASSUME IInv, pc \in {"batch"} \cup Kinds, pc' \in {"batch"} \cup Kinds,
         NEW d \in DaemonType, Consistent(d, present), Edit(Daemon, d), Becomes(d),
         batch' \subseteq batch, reg' = reg, ok' = ok, present' = present,
         WorldTypes', left' \in Nat, udev' = udev \/ reload', db' = db \/ reload',
         Distinct(db')
  PROVE  IInv'
<1>1. /\ Daemon' = d /\ TableTypes' /\ reload' \in BOOLEAN /\ dirty' \in BOOLEAN
      /\ d.ports = ports' /\ d.ctl = ctl' /\ d.usb = usb'
      /\ d.reload = reload' /\ d.dirty = dirty'
  BY BecomesOf
<1>2. TypeOK /\ Daemon.ports = ports /\ Daemon.ctl = ctl /\ Daemon.reload = reload
      /\ Daemon.dirty = dirty
  BY DaemonOf DEF IInv
<1>3. /\ ports' = ports /\ DOMAIN ctl' = DOMAIN ctl
      /\ \A i \in DOMAIN ctl : /\ ctl'[i].addr = ctl[i].addr
                               /\ ctl'[i].profile = ctl[i].profile
                               /\ ctl'[i].ports = ctl[i].ports
      /\ (dirty => dirty') /\ (reload => reload')
      /\ ~dirty' => \A i \in DOMAIN ctl :
                      ctl'[i].backend # 0 => ctl'[i].backend = ctl[i].backend
  BY <1>1, <1>2 DEF Edit
<1>4. pc' \notin {"top", "wait", "down"} /\ pc \notin {"top", "wait", "down"}
  BY DEF Kinds
<1>5. TypeOK'
  <2>1. LoopTypes'
    BY <1>1, <1>2 DEF TypeOK, LoopTypes
  <2> QED BY <1>1, <2>1 DEF TypeOK
<1>6. Consistent(Daemon, present)'
  BY <1>1
<1>7. Attended' /\ InLoop'
  BY <1>4 DEF Attended, InLoop
<1>8. Watches'
  BY <1>3, <1>4 DEF IInv, Watches, Matches
<1>9. EventNamesController'
  BY <1>3 DEF IInv, EventNamesController
<1>10. Configured'
  BY <1>3 DEF IInv, Configured
<1>11. Tracked'
  BY <1>3 DEF IInv, Tracked
<1> QED BY <1>5, <1>6, <1>7, <1>8, <1>9, <1>10, <1>11 DEF IInv

(* A step of the world that leaves the daemon and its endpoints alone.     *)
LEMMA WorldStep ==
  ASSUME IInv, UNCHANGED <<daemonVars, db, reg, batch, pc, ok>>, WorldTypes', left' \in Nat,
         present \subseteq present', (present' = present /\ udev' = udev) \/ udev' \/ pc = "down"
  PROVE  IInv'
<1>1. TypeOK'
  BY DEF IInv, TypeOK, TableTypes, LoopTypes, daemonVars
<1>2. Daemon' = Daemon
  BY DEF Daemon, daemonVars
<1>3. Consistent(Daemon, present)'
  BY <1>2 DEF IInv, Consistent, PortsOk
<1>4. Attended' /\ InLoop' /\ Watches' /\ EventNamesController' /\ Configured'
  <2>1. Attended' /\ InLoop'
    BY DEF IInv, daemonVars, Attended, InLoop
  <2>2. Watches'
    BY DEF IInv, daemonVars, Watches, Matches
  <2>3. EventNamesController'
    BY DEF IInv, daemonVars, EventNamesController
  <2>4. Configured'
    BY DEF IInv, daemonVars, Configured, Distinct
  <2> QED BY <2>1, <2>2, <2>3, <2>4
<1>5. Tracked'
  BY DEF IInv, daemonVars, Tracked, InLoop
<1> QED BY <1>1, <1>3, <1>4, <1>5 DEF IInv

-----------------------------------------------------------------------------
(* The actions.                                                            *)

(* The daemon as main starts it.                                           *)
LEMMA InitOk ==
  ASSUME Init
  PROVE  IInv
<1>1. TypeOK
  <2>1. link \in [Addrs -> Links] /\ lq \in [Kinds -> Seq(Addrs \X Nat)]
    BY NoEntries DEF Init, Links
  <2>2. db \in Seq(Configs)
    BY LinuxAssumption DEF Init
  <2>3. TableTypes
    <3>1. ports = <<>> /\ ctl = <<>> /\ usb = {}
      BY DEF Init
    <3> QED BY ONLY <3>1, NoEntries DEF TableTypes
  <2>4. LoopTypes
    <3>1. reg \in [ports: Seq(Ports), ctl: Seq(Addrs \X Nat)]
      BY NoEntries DEF Init, NoReg
    <3> QED BY <3>1, LinuxAssumption DEF Init, LoopTypes
  <2> QED BY <2>1, <2>2, <2>3, <2>4 DEF TypeOK, WorldTypes, Init
<1>2. Daemon.ports = <<>> /\ Daemon.ctl = <<>> /\ Daemon.usb = {}
  BY DEF Daemon, Init
<1>3. Consistent(Daemon, present)
  <2>1. DOMAIN <<>> = {}
    OBVIOUS
  <2> QED BY <1>2, <2>1 DEF Consistent, CtlOk, Distinct, Exclusive, PortsOk, Plugged
<1>4. Attended
  <2>1. ctl = <<>> /\ DOMAIN <<>> = {}
    BY DEF Init
  <2> QED BY <2>1 DEF Attended
<1>5. Watches /\ InLoop /\ EventNamesController /\ Tracked
  BY DEF Init, Watches, InLoop, EventNamesController, Tracked
<1>6. Configured
  BY LinuxAssumption DEF Init, Configured
<1> QED BY <1>1, <1>3, <1>4, <1>5, <1>6 DEF IInv

(* Only the flags change.                                                  *)
LEMMA FlagsOnly ==
  ASSUME NEW x \in DaemonType, NEW here, Consistent(x, here),
         NEW r \in BOOLEAN, NEW w \in BOOLEAN
  PROVE  LET d == [x EXCEPT !.reload = r, !.dirty = w]
         IN  /\ d \in DaemonType /\ Consistent(d, here)
             /\ d.ports = x.ports /\ d.ctl = x.ctl /\ d.usb = x.usb
             /\ d.reload = r /\ d.dirty = w
<1> DEFINE d == [x EXCEPT !.reload = r, !.dirty = w]
<1>1. /\ d \in DaemonType /\ d.ports = x.ports /\ d.ctl = x.ctl /\ d.usb = x.usb
      /\ d.reload = r /\ d.dirty = w
  BY DEF DaemonType
<1> HIDE DEF d
<1>2. Consistent(d, here)
  BY <1>1 DEF Consistent, Plugged
<1> QED BY <1>1, <1>2 DEF d

(* A reload, whatever part of it went through: who the controllers are     *)
(* changes only when all of it did, and then the epoll set is dirty.       *)
LEMMA ReloadStep ==
  ASSUME IInv, pc = "top", UNCHANGED <<worldVars, reg, batch, pc>>, left' \in Nat,
         NEW d \in DaemonType, Consistent(d, present), ~d.reload, ok' \in BOOLEAN,
         Becomes(d),
         ok' => /\ d.dirty /\ PortPaths(d.ports) = present /\ DOMAIN d.ctl = DOMAIN db
                /\ \A k \in DOMAIN db : /\ d.ctl[k].addr = db[k].addr
                                        /\ d.ctl[k].profile = db[k].profile
                                        /\ d.ctl[k].ports = db[k].ports,
         ~ok' => /\ d.dirty = dirty /\ DOMAIN d.ctl = DOMAIN ctl
                 /\ \A i \in DOMAIN ctl :
                      /\ d.ctl[i].addr = ctl[i].addr
                      /\ d.ctl[i].backend # 0 => d.ctl[i].backend = ctl[i].backend
  PROVE  IInv'
<1>1. /\ Daemon' = d /\ TableTypes' /\ reload' \in BOOLEAN /\ dirty' \in BOOLEAN
      /\ d.ports = ports' /\ d.ctl = ctl' /\ d.usb = usb'
      /\ d.reload = reload' /\ d.dirty = dirty'
  BY BecomesOf
<1>2. TypeOK'
  BY <1>1 DEF IInv, TypeOK, WorldTypes, LoopTypes, worldVars
<1>3. Consistent(Daemon, present)'
  BY <1>1 DEF worldVars
<1>4. Attended' /\ InLoop'
  BY <1>1 DEF IInv, Attended, InLoop
<1>5. Watches'
  BY <1>1 DEF IInv, Watches, Matches
<1>6. batch' = {}
  BY DEF IInv, InLoop
<1>7. EventNamesController'
  BY <1>6 DEF EventNamesController
<1>8. Configured'
  BY <1>1 DEF IInv, Configured, worldVars, Distinct
<1>9. Tracked'
  BY <1>1 DEF Tracked, worldVars
<1> QED BY <1>2, <1>3, <1>4, <1>5, <1>7, <1>8, <1>9 DEF IInv

(* What is left of the tables when a reload gets to the database.          *)
LEMMA SyncedOk ==
  ASSUME IInv, pc = "top", reload
  PROVE  LET m == ReleaseMissing(Daemon)
             e == sync_virtual_ports(m)
         IN  /\ m \in DaemonType /\ Consistent(m, present) /\ m.dirty = dirty
             /\ e \in DaemonType /\ Consistent(e, present) /\ e.dirty = dirty
             /\ PortPaths(e.ports) = present /\ e.ctl = m.ctl
             /\ DOMAIN m.ctl = DOMAIN ctl
             /\ \A i \in DOMAIN ctl :
                  /\ m.ctl[i].addr = ctl[i].addr
                  /\ m.ctl[i].backend # 0 => m.ctl[i].backend = ctl[i].backend
                  /\ ctl[i].device \in present => m.ctl[i] = ctl[i]
<1> DEFINE m == ReleaseMissing(Daemon)
           e == sync_virtual_ports(m)
<1>1. /\ Daemon \in DaemonType /\ Consistent(Daemon, present) /\ present \subseteq Ports
      /\ Daemon.ports = ports /\ Daemon.ctl = ctl /\ Daemon.dirty = dirty
      /\ ctl \in Seq(Runtimes)
  BY DaemonOf DEF IInv, TypeOK, WorldTypes, TableTypes
<1>2. \A i \in DOMAIN ctl : ctl[i] \in Runtimes
  BY <1>1
<1>3. /\ m \in DaemonType /\ Consistent(m, present)
      /\ m.ports = ports /\ m.dirty = dirty /\ DOMAIN m.ctl = DOMAIN ctl
      /\ \A i \in DOMAIN ctl :
           /\ m.ctl[i] \in {ctl[i], Released(ctl[i])}
           /\ controller_uses_port(m.ctl[i]) => m.ctl[i].device \in present
           /\ ctl[i].device \in present => m.ctl[i] = ctl[i]
  BY <1>1, ReleaseMissingOk
<1> HIDE DEF m
<1>4. \A i \in DOMAIN ctl :
        /\ m.ctl[i].addr = ctl[i].addr
        /\ m.ctl[i].backend # 0 => m.ctl[i] = ctl[i]
  BY <1>2, <1>3, ReleasedOf
<1>5. \A i \in DOMAIN m.ctl : m.ctl[i].backend # 0 => m.ctl[i].device \in PortPaths(m.ports)
  BY <1>3, <1>4 DEF IInv, Attended
<1>6. /\ e \in DaemonType /\ Consistent(e, present)
      /\ e.ctl = m.ctl /\ e.dirty = m.dirty /\ PortPaths(e.ports) = present
  BY <1>1, <1>3, <1>5, SyncOk
<1> HIDE DEF e
<1>7. \A i \in DOMAIN ctl : m.ctl[i].backend # 0 => m.ctl[i].backend = ctl[i].backend
  BY <1>4
<1> QED BY <1>3, <1>4, <1>6, <1>7 DEF m, e

(* A reload at the top of the loop, done or given up.                      *)
LEMMA ReloadOk ==
  ASSUME IInv, Reload
  PROVE  IInv'
<1> DEFINE m == ReleaseMissing(Daemon)
           e == sync_virtual_ports(m)
<1>1. /\ pc = "top" /\ reload /\ UNCHANGED <<worldVars, reg, batch, pc>>
      /\ ReloadDone \/ ReloadFails
  BY DEF Reload
<1>2. /\ m \in DaemonType /\ Consistent(m, present) /\ m.dirty = dirty
      /\ e \in DaemonType /\ Consistent(e, present) /\ e.dirty = dirty
      /\ PortPaths(e.ports) = present /\ e.ctl = m.ctl
      /\ DOMAIN m.ctl = DOMAIN ctl
      /\ \A i \in DOMAIN ctl :
           /\ m.ctl[i].addr = ctl[i].addr
           /\ m.ctl[i].backend # 0 => m.ctl[i].backend = ctl[i].backend
  BY <1>1, SyncedOk
<1>3. /\ db \in Seq(Configs) /\ Distinct(db) /\ present \subseteq Ports /\ left \in Nat
      /\ dirty \in BOOLEAN
  BY DEF IInv, TypeOK, WorldTypes, LoopTypes, Configured
<1>4. /\ Daemon \in DaemonType /\ Consistent(Daemon, present)
      /\ Daemon.ctl = ctl /\ Daemon.dirty = dirty
  BY DaemonOf DEF IInv
<1>5. CASE ReloadDone
  <2> DEFINE x == AdoptConfigs(e)
             d == [x EXCEPT !.reload = FALSE, !.dirty = TRUE]
  <2>1. /\ Becomes([x EXCEPT !.dirty = TRUE, !.reload = FALSE])
        /\ ok' = TRUE /\ left' = left
    BY <1>5 DEF ReloadDone
  <2>2. /\ x \in DaemonType /\ Consistent(x, present) /\ x.ports = e.ports
        /\ DOMAIN x.ctl = DOMAIN db
        /\ \A k \in DOMAIN db : /\ x.ctl[k].addr = db[k].addr
                                /\ x.ctl[k].profile = db[k].profile
                                /\ x.ctl[k].ports = db[k].ports
    BY <1>2, <1>3, AdoptOk
  <2> HIDE DEF x, e, m
  <2>3. [x EXCEPT !.dirty = TRUE, !.reload = FALSE] = d
    BY <2>2 DEF DaemonType
  <2>4. /\ d \in DaemonType /\ Consistent(d, present)
        /\ d.ports = x.ports /\ d.ctl = x.ctl /\ d.reload = FALSE /\ d.dirty = TRUE
    BY <2>2, FlagsOnly
  <2> HIDE DEF d
  <2> QED BY <1>1, <1>2, <1>3, <2>1, <2>2, <2>3, <2>4, ReloadStep, ZenonT(30)
<1>6. ASSUME ReloadFails, NEW x \in DaemonType, Consistent(x, present), x.dirty = dirty,
             DOMAIN x.ctl = DOMAIN ctl,
             \A i \in DOMAIN ctl :
               /\ x.ctl[i].addr = ctl[i].addr
               /\ x.ctl[i].backend # 0 => x.ctl[i].backend = ctl[i].backend,
             Becomes([x EXCEPT !.reload = FALSE])
      PROVE  IInv'
  <2> DEFINE d == [x EXCEPT !.reload = FALSE, !.dirty = dirty]
  <2>1. ok' = FALSE /\ left' \in Nat
    BY <1>3, <1>6 DEF ReloadFails
  <2>2. [x EXCEPT !.reload = FALSE] = d
    BY <1>6 DEF DaemonType
  <2>3. /\ d \in DaemonType /\ Consistent(d, present)
        /\ d.ctl = x.ctl /\ d.reload = FALSE /\ d.dirty = dirty
    <3> HIDE DEF e, m
    <3>1. Consistent(x, present) /\ FALSE \in BOOLEAN /\ dirty \in BOOLEAN
      BY <1>3, <1>6
    <3> QED BY ONLY <3>1, x \in DaemonType, FlagsOnly
  <2> HIDE DEF d, e, m
  <2> QED BY <1>1, <1>6, <2>1, <2>2, <2>3, ReloadStep
<1>7. CASE ReloadFails
  <2> HIDE DEF e, m
  <2>1. \/ Becomes([Daemon EXCEPT !.reload = FALSE])
        \/ \E bad \in present \ PortPaths(ports) :
             Becomes([SyncFailsAt(m, bad) EXCEPT !.reload = FALSE])
        \/ Becomes([e EXCEPT !.reload = FALSE])
    BY <1>7 DEF ReloadFails, e, m
  <2>2. CASE Becomes([Daemon EXCEPT !.reload = FALSE])
    BY <1>4, <1>6, <1>7, <2>2
  <2>3. ASSUME NEW bad, Becomes([SyncFailsAt(m, bad) EXCEPT !.reload = FALSE])
        PROVE  IInv'
    <3> DEFINE x == SyncFailsAt(m, bad)
    <3>1. /\ x \in DaemonType /\ Consistent(x, present)
          /\ x.ctl = m.ctl /\ x.dirty = m.dirty
      BY <1>2, <1>3, SyncFailsOk
    <3> HIDE DEF x
    <3> QED BY <1>2, <1>6, <1>7, <2>3, <3>1 DEF x
  <2>4. CASE Becomes([e EXCEPT !.reload = FALSE])
    BY <1>2, <1>6, <1>7, <2>4
  <2> QED BY <2>1, <2>2, <2>3, <2>4
<1> QED BY <1>1, <1>5, <1>7

(* rebuild_epoll makes the epoll set name the tables as they are.          *)
LEMMA RebuildOk ==
  ASSUME IInv, Rebuild
  PROVE  IInv'
<1>0. left \in Nat /\ TypeOK /\ ports \in Seq(PortRec) /\ ctl \in Seq(Runtimes)
  BY DEF IInv, TypeOK, LoopTypes, TableTypes, PortRec
<1>1. CASE \E i \in DOMAIN ports : ports[i].path = NoPort
  BY <1>0, <1>1, DieOk DEF Rebuild
<1>2. CASE \A i \in DOMAIN ports : ports[i].path # NoPort
  <2> DEFINE rp == [i \in DOMAIN ports |-> ports[i].path]
             rc == [i \in DOMAIN ctl |-> <<ctl[i].addr, ctl[i].backend>>]
  <2>1. /\ reg' = [ports |-> rp, ctl |-> rc] /\ ~dirty' /\ dirty' \in BOOLEAN
        /\ pc = "top" /\ ~reload /\ pc' = "wait"
        /\ UNCHANGED <<worldVars, ports, ctl, usb, reload, batch, ok, left>>
    BY <1>2 DEF Rebuild
  <2>2. rp \in Seq(Ports)
    <3>1. \A i \in DOMAIN ports : ports[i] \in PortRec
      BY <1>0
    <3>2. \A i \in DOMAIN ports : ports[i].path \in Ports
      BY <1>2, <3>1 DEF PortRec
    <3>3. DOMAIN ports = 1 .. Len(ports) /\ Len(ports) \in Nat
      BY <1>0
    <3> QED BY <3>2, <3>3
  <2>3. rc \in Seq(Addrs \X Nat)
    <3>1. \A i \in DOMAIN ctl : ctl[i] \in Runtimes
      BY <1>0
    <3>2. \A i \in DOMAIN ctl : <<ctl[i].addr, ctl[i].backend>> \in Addrs \X Nat
      BY <3>1 DEF Runtimes
    <3>3. DOMAIN ctl = 1 .. Len(ctl) /\ Len(ctl) \in Nat
      BY <1>0
    <3> QED BY <3>2, <3>3
  <2>4. /\ DOMAIN rp = DOMAIN ports /\ \A i \in DOMAIN ports : rp[i] = ports[i].path
        /\ DOMAIN rc = DOMAIN ctl
        /\ \A i \in DOMAIN ctl : rc[i][1] = ctl[i].addr /\ rc[i][2] = ctl[i].backend
    OBVIOUS
  <2> HIDE DEF rp, rc
  <2>5. reg' \in [ports: Seq(Ports), ctl: Seq(Addrs \X Nat)]
        /\ reg'.ports = rp /\ reg'.ctl = rc
    BY <2>1, <2>2, <2>3
  <2>6. TypeOK'
    BY <1>0, <2>1, <2>5 DEF TypeOK, WorldTypes, TableTypes, LoopTypes, worldVars
  <2>7. Consistent(Daemon, present)'
    <3>1. /\ Daemon'.ports = Daemon.ports /\ Daemon'.ctl = Daemon.ctl
          /\ Daemon'.usb = Daemon.usb /\ present' = present
      BY <2>1 DEF Daemon, worldVars
    <3> QED BY <3>1 DEF IInv, Consistent, Plugged
  <2>8. Attended' /\ InLoop' /\ batch' = {}
    BY <2>1 DEF IInv, Attended, InLoop
  <2>9. Watches'
    BY <2>1, <2>4, <2>5 DEF Watches, Matches
  <2>10. EventNamesController'
    BY <2>8 DEF EventNamesController
  <2>11. Configured' /\ Tracked'
    BY <2>1 DEF IInv, Configured, Tracked, worldVars, Distinct
  <2> QED BY <2>6, <2>7, <2>8, <2>9, <2>10, <2>11 DEF IInv
<1> QED BY <1>1, <1>2

(* The loop moves on and nothing else changes.                             *)
LEMMA MoveOn ==
  ASSUME IInv, UNCHANGED <<worldVars, daemonVars, reg, ok, left>>, pc # "down",
         pc' \in {"wait", "batch"} \cup Kinds, pc' = "wait" => ~reload /\ ~dirty,
         batch' \subseteq Events, pc' = "wait" => batch' = {}, EventNamesController'
  PROVE  IInv'
<1>1. TypeOK'
  BY DEF IInv, TypeOK, WorldTypes, TableTypes, LoopTypes, worldVars, daemonVars
<1>2. Consistent(Daemon, present)'
  <2>1. Daemon' = Daemon /\ present' = present
    BY DEF Daemon, worldVars, daemonVars
  <2> QED BY <2>1 DEF IInv
<1>3. pc' # "top" /\ pc' # "down"
  BY DEF Kinds
<1>4. Attended' /\ InLoop'
  BY <1>3 DEF Attended, InLoop, daemonVars
<1>5. Watches'
  BY DEF IInv, Watches, Matches, daemonVars
<1>6. Configured' /\ Tracked'
  BY DEF IInv, Configured, Tracked, worldVars, daemonVars, Distinct
<1> QED BY <1>1, <1>2, <1>4, <1>5, <1>6 DEF IInv

(* With a clean epoll set the loop goes to epoll_wait.                     *)
LEMMA SleepOk ==
  ASSUME IInv, Sleep
  PROVE  IInv'
<1>1. batch' = {}
  BY DEF IInv, InLoop, Sleep
<1>2. EventNamesController'
  BY <1>1 DEF EventNamesController
<1> QED BY <1>1, <1>2, MoveOn DEF Sleep

(* The events of a wake-up name the entries the epoll set was built from.  *)
LEMMA WakeOk ==
  ASSUME IInv, Wake
  PROVE  IInv'
<1>0. /\ TypeOK /\ reg.ports \in Seq(Ports) /\ reg.ctl \in Seq(Addrs \X Nat)
      /\ pc = "wait" /\ Matches(ports, ctl)
  <2>1. pc = "wait" /\ ~dirty
    BY DEF Wake, IInv, InLoop
  <2> QED BY <2>1 DEF IInv, TypeOK, LoopTypes, Watches
<1> DEFINE Named(e) ==
             /\ e \in Events
             /\ e.type \in Kinds /\ e.index \in DOMAIN ctl => ctl[e.index].addr = e.addr
             /\ e.type = "port" /\ e.index \in DOMAIN ports /\ ok =>
                  ports[e.index].path = e.path
<1>1. ASSUME NEW I \in SUBSET PortFds, NEW hup \in BOOLEAN, NEW e \in PortEvents(I, hup)
      PROVE  Named(e)
  <2>1. PICK i \in I : e = [type |-> "port", index |-> i, path |-> reg.ports[i], hup |-> hup]
    BY DEF PortEvents
  <2>2. i \in DOMAIN reg.ports /\ i \in Nat /\ reg.ports[i] \in Ports
    BY <1>0 DEF PortFds
  <2>3. e \in Events /\ e.type = "port" /\ e.index = i /\ e.path = reg.ports[i]
    BY <2>1, <2>2 DEF Events
  <2> QED BY <1>0, <2>3 DEF Matches, Kinds
<1>2. ASSUME NEW I \in SUBSET BtFds, NEW hup \in BOOLEAN, NEW e \in BtEvents(I, hup)
      PROVE  Named(e)
  <2>1. PICK i \in I, k \in Kinds :
          e = [type |-> k, index |-> i, addr |-> reg.ctl[i][1], hup |-> hup]
    BY DEF BtEvents
  <2>2. i \in DOMAIN reg.ctl /\ i \in Nat /\ reg.ctl[i] \in Addrs \X Nat
    BY <1>0 DEF BtFds
  <2>3. e \in Events /\ e.type = k /\ e.index = i /\ e.addr = reg.ctl[i][1]
    BY <2>1, <2>2 DEF Events
  <2> QED BY <1>0, <2>3 DEF Matches, Kinds
<1>3. ASSUME NEW e \in {[type |-> "command"], [type |-> "udev"]}
                   \cup {[type |-> "accept", kind |-> k] : k \in Kinds}
      PROVE  Named(e)
  BY DEF Events, Kinds
<1>4. PICK T \in SUBSET Traffic : batch' = Ready \cup T
  BY DEF Wake
<1>5. ASSUME NEW e \in Ready PROVE Named(e)
  <2> DEFINE P == {i \in PortFds : Stopped(i)}
             B == {i \in BtFds : Broken(i)}
  <2>1. P \in SUBSET PortFds /\ B \in SUBSET BtFds
    OBVIOUS
  <2>2. \/ e \in {[type |-> "command"], [type |-> "udev"]}
                   \cup {[type |-> "accept", kind |-> k] : k \in Kinds}
        \/ e \in PortEvents(P, TRUE) \/ e \in BtEvents(B, TRUE)
    BY DEF Ready
  <2> HIDE DEF P, B, Named
  <2> QED BY <1>1, <1>2, <1>3, <2>1, <2>2
<1>6. ASSUME NEW e \in Traffic PROVE Named(e)
  <2> DEFINE P == {i \in PortFds : reg.ports[i] \in usb}
             B == {i \in BtFds : ~Broken(i)}
  <2>1. P \in SUBSET PortFds /\ B \in SUBSET BtFds
    OBVIOUS
  <2>2. e \in PortEvents(P, FALSE) \/ e \in BtEvents(B, FALSE)
    BY DEF Traffic
  <2> HIDE DEF P, B, Named
  <2> QED BY <1>1, <1>2, <2>1, <2>2
<1>7. \A e \in batch' : Named(e)
  <2> HIDE DEF Named
  <2> QED BY <1>4, <1>5, <1>6
<1>8. EventNamesController' /\ batch' \subseteq Events
  BY <1>7 DEF EventNamesController, Wake, daemonVars
<1> QED BY <1>0, <1>8, MoveOn DEF Wake

(* The end of an iteration: flush_pending_outputs and back to the top.     *)
LEMMA FlushStep ==
  ASSUME IInv, pc \in {"wait", "batch"}, batch = {}, Flush,
         UNCHANGED <<worldVars, reg, batch, ok, left>>
  PROVE  IInv'
<1>1. PICK failing : Becomes(flush_pending_outputs(Daemon, failing))
  BY DEF Flush
<1> DEFINE d == flush_pending_outputs(Daemon, failing)
<1>2. /\ Daemon \in DaemonType /\ Consistent(Daemon, present) /\ TypeOK
      /\ Daemon.ports = ports /\ Daemon.ctl = ctl /\ Daemon.reload = reload
      /\ Daemon.dirty = dirty
  BY DaemonOf DEF IInv
<1>3. /\ d \in DaemonType /\ Consistent(d, present) /\ Edit(Daemon, d)
      /\ d.reload = reload
      /\ \A i \in DOMAIN d.ctl :
           d.ctl[i].backend # 0 => d.ctl[i].device \in PortPaths(d.ports)
  BY <1>2, FlushOk
<1>4. Becomes(d)
  BY <1>1
<1> HIDE DEF d
<1>5. /\ Daemon' = d /\ TableTypes' /\ reload' \in BOOLEAN /\ dirty' \in BOOLEAN
      /\ d.ports = ports' /\ d.ctl = ctl' /\ d.reload = reload' /\ d.dirty = dirty'
  BY <1>3, <1>4, BecomesOf
<1>6. /\ ports' = ports /\ DOMAIN ctl' = DOMAIN ctl
      /\ \A i \in DOMAIN ctl : /\ ctl'[i].addr = ctl[i].addr
                               /\ ctl'[i].profile = ctl[i].profile
                               /\ ctl'[i].ports = ctl[i].ports
      /\ (dirty => dirty') /\ reload' = reload
      /\ ~dirty' => \A i \in DOMAIN ctl :
                      ctl'[i].backend # 0 => ctl'[i].backend = ctl[i].backend
  BY <1>2, <1>3, <1>5 DEF Edit
<1>7. /\ pc' \in {"top", "wait"} /\ (pc' = "wait" => ~dirty' /\ ~reload')
  BY DEF Flush
<1>8. TypeOK'
  BY <1>2, <1>5, <1>7 DEF TypeOK, WorldTypes, LoopTypes, worldVars
<1>9. Consistent(Daemon, present)'
  BY <1>3, <1>5 DEF worldVars
<1>10. Attended' /\ InLoop'
  BY <1>3, <1>5, <1>7 DEF Attended, InLoop
<1>11. Watches'
  BY <1>6 DEF IInv, Watches, Matches
<1>12. EventNamesController'
  BY DEF EventNamesController
<1>13. Configured' /\ Tracked'
  BY <1>6 DEF IInv, Configured, Tracked, worldVars, Distinct
<1> QED BY <1>8, <1>9, <1>10, <1>11, <1>12, <1>13 DEF IInv

(* A new process.                                                          *)
LEMMA StartOk ==
  ASSUME IInv, Start
  PROVE  IInv'
<1>1. /\ pc = "down" /\ pc' = "top" /\ reload' = TRUE /\ dirty' = TRUE /\ ~ok
      /\ ctl = <<>> /\ batch = {}
      /\ UNCHANGED <<worldVars, ports, ctl, usb, reg, batch, ok, left>>
  BY DEF Start, IInv, InLoop
<1>2. TypeOK'
  BY <1>1 DEF IInv, TypeOK, WorldTypes, TableTypes, LoopTypes, worldVars
<1>3. Consistent(Daemon, present)'
  <2>1. /\ Daemon'.ports = Daemon.ports /\ Daemon'.ctl = Daemon.ctl
        /\ Daemon'.usb = Daemon.usb /\ present' = present
    BY <1>1 DEF Daemon, worldVars
  <2> QED BY <2>1 DEF IInv, Consistent, Plugged
<1>4. Attended'
  <2>1. ctl' = <<>> /\ DOMAIN <<>> = {}
    BY <1>1
  <2> QED BY <2>1 DEF Attended
<1>5. InLoop' /\ Watches' /\ EventNamesController' /\ Tracked'
  BY <1>1 DEF InLoop, Watches, EventNamesController, Tracked
<1>6. Configured'
  BY <1>1 DEF IInv, Configured, worldVars, Distinct
<1> QED BY <1>2, <1>3, <1>4, <1>5, <1>6 DEF IInv

(* A command changes the database and asks for a reload; no address is     *)
(* ever registered twice.                                                  *)
LEMMA ControlEventOk ==
  ASSUME IInv, pc = "batch", NEW e \in batch, ControlEvent(e)
  PROVE  IInv'
<1>1. /\ batch' \subseteq batch /\ pc' = pc /\ cmd' = {} /\ left' = left
      /\ UNCHANGED <<present, udev, link, lq, ports, ctl, usb, dirty, reg, ok, left>>
  BY DEF ControlEvent
<1>2. PICK c \in cmd : IF c.op = "attach" THEN Attach(c.addr, c.req) ELSE Detach(c.addr)
  BY DEF ControlEvent
<1>3. TypeOK /\ c \in Commands /\ db \in Seq(Configs) /\ Distinct(db) /\ left \in Nat
      /\ reload \in BOOLEAN /\ WorldTypes
  BY DEF IInv, TypeOK, WorldTypes, Configured, LoopTypes
<1>4. /\ db' \in Seq(Configs) /\ Distinct(db') /\ (db' = db \/ reload')
      /\ reload' \in BOOLEAN /\ (reload => reload')
  <2>1. CASE c.op = "attach"
    <3>1. /\ c.addr \in Addrs /\ c.req \in Requests /\ Attach(c.addr, c.req)
      BY <1>2, <1>3, <2>1 DEF Commands
    <3> DEFINE n == [addr |-> c.addr, profile |-> c.req.profile, ports |-> validate_ports(c.req.ports)]
               q == Append(db, n)
               accepted == /\ ~Registered(c.addr) /\ NoDup(c.req.ports)
                           /\ validate_config_assignments(q)
    <3>2. /\ db' = IF accepted THEN q ELSE db
          /\ reload' = (reload \/ accepted)
      BY <3>1 DEF Attach
    <3>3. n \in Configs /\ n.addr = c.addr
      <4>1. c.req.profile \in Profiles /\ c.req.ports \in Seq(Ports)
        BY <3>1, LinuxAssumption
      <4>2. ToSet(c.req.ports) \in SUBSET Ports
        BY <4>1 DEF ToSet
      <4>3. Sorted(ToSet(c.req.ports)) \in Seq(Ports)
        BY <4>2, SortedElements
      <4> QED BY <3>1, <4>1, <4>3 DEF Configs, validate_ports
    <3> HIDE DEF n
    <3>4. /\ q \in Seq(Configs) /\ DOMAIN q = 1 .. Len(db) + 1
          /\ q[Len(db) + 1] = n /\ \A j \in 1 .. Len(db) : q[j] = db[j]
          /\ DOMAIN db = 1 .. Len(db) /\ Len(db) \in Nat
      BY <1>3, <3>3
    <3> HIDE DEF q
    <3>5. accepted => Distinct(q)
      <4> SUFFICES ASSUME ~Registered(c.addr), NEW j \in DOMAIN q, NEW k \in DOMAIN q,
                          q[j].addr = q[k].addr
                   PROVE  j = k
        BY DEF Distinct
      <4>1. \A m \in 1 .. Len(db) : db[m].addr # c.addr
        BY <3>4 DEF Registered
      <4>2. CASE j = Len(db) + 1
        BY <3>3, <3>4, <4>1, <4>2
      <4>3. CASE k = Len(db) + 1
        BY <3>3, <3>4, <4>1, <4>3
      <4>4. CASE j # Len(db) + 1 /\ k # Len(db) + 1
        <5>1. j \in 1 .. Len(db) /\ k \in 1 .. Len(db)
          BY <3>4, <4>4
        <5> QED BY <1>3, <3>4, <5>1 DEF Distinct
      <4> QED BY <4>2, <4>3, <4>4
    <3> HIDE DEF accepted
    <3>6. CASE accepted
      BY <1>3, <3>2, <3>4, <3>5, <3>6
    <3>7. CASE ~accepted
      BY <1>3, <3>2, <3>7
    <3> QED BY <3>6, <3>7
  <2>2. CASE c.op # "attach"
    <3> DEFINE I == {n \in 1 .. Len(db) : db[n].addr = c.addr}
               i == IF I # {} THEN Min(I) ELSE 0
    <3>1. IF i = 0 THEN UNCHANGED <<db, reload>>
          ELSE db' = RemoveAt(db, i) /\ reload' = TRUE
      BY <1>2, <2>2 DEF Detach, SelectInSeq
    <3>2. i # 0 => i \in I
      <4>1. I \in SUBSET (1 .. Len(db))
        OBVIOUS
      <4> HIDE DEF I
      <4> QED BY <4>1, FirstIndex
    <3>3. i # 0 => i \in DOMAIN db
      BY <1>3, <3>2
    <3> HIDE DEF i
    <3>4. CASE i = 0
      BY <1>3, <3>1, <3>4
    <3>5. CASE i # 0
      <4> DEFINE r == RemoveAt(db, i)
      <4>1. /\ r \in Seq(Configs) /\ Len(r) = Len(db) - 1
            /\ \A n \in 1 .. Len(db) - 1 : r[n] = IF n < i THEN db[n] ELSE db[n + 1]
        BY <1>3, <3>3, <3>5, RemoveAtEntries
      <4>2. db' = r /\ reload' = TRUE
        BY <3>1, <3>5
      <4> HIDE DEF r
      <4>3. DOMAIN r = 1 .. Len(db) - 1 /\ DOMAIN db = 1 .. Len(db) /\ Len(db) \in Nat
            /\ i \in 1 .. Len(db)
        BY <1>3, <3>3, <3>5, <4>1
      <4>4. ASSUME NEW j \in DOMAIN r, NEW k \in DOMAIN r, r[j].addr = r[k].addr
            PROVE  j = k
        <5> DEFINE At(n) == IF n < i THEN n ELSE n + 1
        <5>1. \A n \in DOMAIN r : At(n) \in DOMAIN db /\ r[n] = db[At(n)]
          BY <4>1, <4>3
        <5>2. At(j) = At(k)
          BY <1>3, <4>4, <5>1 DEF Distinct
        <5> QED BY <4>3, <5>2
      <4> QED BY <4>1, <4>2, <4>4 DEF Distinct
    <3> QED BY <3>4, <3>5
  <2> QED BY <2>1, <2>2
<1> DEFINE d == [Daemon EXCEPT !.reload = reload', !.dirty = dirty]
<1>5. /\ Daemon \in DaemonType /\ Consistent(Daemon, present)
      /\ Daemon.ports = ports /\ Daemon.ctl = ctl /\ Daemon.usb = usb
      /\ Daemon.reload = reload /\ Daemon.dirty = dirty /\ dirty \in BOOLEAN
  BY DaemonOf DEF IInv, TypeOK, LoopTypes
<1>6. /\ d \in DaemonType /\ Consistent(d, present)
      /\ d.ports = Daemon.ports /\ d.ctl = Daemon.ctl /\ d.usb = Daemon.usb
      /\ d.reload = reload' /\ d.dirty = dirty
  <2> DEFINE r == reload'
  <2>1. r \in BOOLEAN
    BY <1>4
  <2> HIDE DEF r
  <2> DEFINE f == [Daemon EXCEPT !.reload = r, !.dirty = dirty]
  <2>2. /\ f \in DaemonType /\ Consistent(f, present)
        /\ f.ports = Daemon.ports /\ f.ctl = Daemon.ctl /\ f.usb = Daemon.usb
        /\ f.reload = r /\ f.dirty = dirty
    <3>1. Daemon \in DaemonType /\ Consistent(Daemon, present) /\ dirty \in BOOLEAN
      BY <1>5
    <3> HIDE DEF f
    <3>2. /\ f \in DaemonType
          /\ f.ports = Daemon.ports /\ f.ctl = Daemon.ctl /\ f.usb = Daemon.usb
          /\ f.reload = r /\ f.dirty = dirty
      BY <2>1, <3>1 DEF DaemonType, f
    <3>3. Consistent(f, present)
      BY <3>1, <3>2 DEF Consistent, Plugged
    <3> QED BY <3>2, <3>3
  <2> QED BY <2>2 DEF r
<1> HIDE DEF d
<1>7. Becomes(d)
  BY <1>1, <1>5, <1>6 DEF Becomes
<1>8. Edit(Daemon, d)
  BY <1>4, <1>5, <1>6 DEF Edit
<1>9. WorldTypes'
  BY <1>1, <1>3, <1>4 DEF WorldTypes
<1> QED BY <1>1, <1>3, <1>4, <1>6, <1>7, <1>8, <1>9, EditStep

(* The requests to reload and to rebuild the epoll set.                    *)
LEMMA AskReload ==
  ASSUME IInv
  PROVE  LET d == [Daemon EXCEPT !.reload = TRUE, !.dirty = TRUE]
         IN  d \in DaemonType /\ Consistent(d, present) /\ Edit(Daemon, d) /\ d.reload
             /\ d.ports = ports /\ d.ctl = ctl /\ d.usb = usb /\ d.dirty
<1> DEFINE d == [Daemon EXCEPT !.reload = TRUE, !.dirty = TRUE]
<1>1. /\ Daemon \in DaemonType /\ Consistent(Daemon, present)
      /\ Daemon.ports = ports /\ Daemon.ctl = ctl /\ Daemon.usb = usb
  BY DaemonOf DEF IInv
<1>2. /\ d \in DaemonType /\ Consistent(d, present)
      /\ d.ports = Daemon.ports /\ d.ctl = Daemon.ctl /\ d.usb = Daemon.usb
      /\ d.reload = TRUE /\ d.dirty = TRUE
  BY <1>1, FlagsOnly
<1> HIDE DEF d
<1>3. Edit(Daemon, d)
  BY <1>2 DEF Edit
<1> QED BY <1>1, <1>2, <1>3 DEF d

(* A handler that does nothing.                                            *)
LEMMA Unedited ==
  ASSUME IInv
  PROVE  Daemon \in DaemonType /\ Consistent(Daemon, present) /\ Edit(Daemon, Daemon)
BY DaemonOf DEF IInv, Edit

(* The monitor is drained and a reload asked for.                          *)
LEMMA UdevEventOk ==
  ASSUME IInv, pc = "batch", NEW e \in batch, UdevEvent(e)
  PROVE  IInv'
<1> DEFINE d == [Daemon EXCEPT !.reload = TRUE, !.dirty = TRUE]
<1>1. /\ d \in DaemonType /\ Consistent(d, present) /\ Edit(Daemon, d) /\ d.reload
      /\ d.ports = ports /\ d.ctl = ctl /\ d.usb = usb /\ d.dirty
  BY AskReload
<1> HIDE DEF d
<1>2. d.reload = TRUE /\ d.dirty = TRUE
  BY <1>1 DEF DaemonType
<1>3. Becomes(d)
  BY <1>1, <1>2 DEF UdevEvent, Becomes
<1>4. WorldTypes' /\ left' \in Nat /\ Distinct(db')
  BY DEF IInv, TypeOK, WorldTypes, LoopTypes, UdevEvent, Configured, Distinct
<1> QED BY <1>1, <1>3, <1>4, EditStep DEF UdevEvent

(* A handler that only edits the tables.                                   *)
LEMMA TableEvent ==
  ASSUME IInv, pc = "batch", batch' \subseteq batch, pc' = pc,
         UNCHANGED <<worldVars, reg, ok, left>>,
         NEW d \in DaemonType, Consistent(d, present), Edit(Daemon, d), Becomes(d)
  PROVE  IInv'
<1>1. WorldTypes' /\ left' \in Nat /\ Distinct(db')
  BY DEF IInv, TypeOK, WorldTypes, LoopTypes, worldVars, Configured, Distinct
<1> QED BY <1>1, EditStep DEF worldVars

(* An event of a virtual port.                                             *)
LEMMA PortEventOk ==
  ASSUME IInv, pc = "batch", NEW e \in batch, PortEvent(e)
  PROVE  IInv'
<1> DEFINE i == e.index
           c == controller_for_port(ctl, ports[i].path)
<1>0. left \in Nat /\ TypeOK
  BY DEF IInv, TypeOK, LoopTypes
<1>1. CASE i \notin DOMAIN ports \/ e.hup \/ ports[i].live
  <2>1. /\ batch' \subseteq batch /\ pc' = pc /\ UNCHANGED <<worldVars, reg, ok, left>>
        /\ \/ Becomes([Daemon EXCEPT !.reload = TRUE, !.dirty = TRUE])
           \/ Becomes(Daemon)
           \/ c \in HungBackends /\ Becomes(drop_bt_backend(Daemon, c))
    BY <1>1 DEF PortEvent
  <2> HIDE DEF c, i
  <2>2. CASE Becomes([Daemon EXCEPT !.reload = TRUE, !.dirty = TRUE])
    BY <2>1, <2>2, AskReload, TableEvent
  <2>3. CASE Becomes(Daemon)
    BY <2>1, <2>3, Unedited, TableEvent
  <2>4. CASE c \in HungBackends /\ Becomes(drop_bt_backend(Daemon, c))
    <3>1. c \in DOMAIN Daemon.ctl
      BY <1>0, <2>4, DaemonOf DEF HungBackends
    <3> QED BY <2>1, <2>4, <3>1, Unedited, DropOk, TableEvent
  <2> QED BY <2>1, <2>2, <2>3, <2>4
<1>2. CASE ~(i \notin DOMAIN ports \/ e.hup \/ ports[i].live)
  BY <1>0, <1>2, DieOk DEF PortEvent
<1> QED BY <1>1, <1>2

(* An event of a Bluetooth channel.                                        *)
LEMMA BtEventOk ==
  ASSUME IInv, pc = "batch", NEW e \in batch, BtEvent(e)
  PROVE  IInv'
<1> DEFINE i == e.index
           n == [Daemon EXCEPT !.ctl[i].backend = 0, !.ctl[i].vc = FALSE, !.dirty = TRUE]
<1>0. left \in Nat /\ TypeOK
  BY DEF IInv, TypeOK, LoopTypes
<1>1. \/ /\ batch' \subseteq batch /\ pc' = pc /\ UNCHANGED <<worldVars, reg, ok, left>>
         /\ \/ Becomes(Daemon)
            \/ /\ i \in DOMAIN ctl /\ ctl[i].backend # 0
               /\ find_port_index(ports, ctl[i].device) = 0 /\ Becomes(n)
            \/ i \in DOMAIN ctl /\ Becomes(drop_bt_backend(Daemon, i))
      \/ Die /\ left' = left
  BY DEF BtEvent
<1> HIDE DEF i
<1>2. Daemon.ctl = ctl /\ Daemon.ports = ports
  BY <1>0, DaemonOf
<1>3. CASE Die /\ left' = left
  BY <1>0, <1>3, DieOk
<1>4. CASE /\ batch' \subseteq batch /\ pc' = pc /\ UNCHANGED <<worldVars, reg, ok, left>>
           /\ Becomes(Daemon)
  BY <1>4, Unedited, TableEvent
<1>5. CASE /\ batch' \subseteq batch /\ pc' = pc /\ UNCHANGED <<worldVars, reg, ok, left>>
           /\ i \in DOMAIN ctl /\ ctl[i].backend # 0
           /\ find_port_index(ports, ctl[i].device) = 0 /\ Becomes(n)
  <2>1. n \in DaemonType /\ Consistent(n, present) /\ Edit(Daemon, n)
    BY <1>2, <1>5, Unedited, UnbindOk
  <2> HIDE DEF n
  <2> QED BY <1>5, <2>1, TableEvent
<1>6. CASE /\ batch' \subseteq batch /\ pc' = pc /\ UNCHANGED <<worldVars, reg, ok, left>>
           /\ i \in DOMAIN ctl /\ Becomes(drop_bt_backend(Daemon, i))
  BY <1>2, <1>6, Unedited, DropOk, TableEvent
<1> QED BY <1>1, <1>3, <1>4, <1>5, <1>6

(* An event of a listener.                                                 *)
LEMMA AcceptEventOk ==
  ASSUME IInv, pc = "batch", NEW e \in batch, AcceptEvent(e)
  PROVE  IInv'
<1>1. e.kind \in Kinds
  BY DEF IInv, TypeOK, LoopTypes, Events, AcceptEvent, Kinds
<1>2. batch' \subseteq batch /\ batch \subseteq Events
  BY DEF IInv, TypeOK, LoopTypes, AcceptEvent
<1>3. EventNamesController'
  BY <1>2 DEF IInv, EventNamesController, AcceptEvent, daemonVars
<1> QED BY <1>1, <1>2, <1>3, MoveOn DEF AcceptEvent, Kinds

(* One edit after the other is an edit.                                    *)
LEMMA EditTransitive ==
  ASSUME NEW d, NEW e, NEW f, Edit(d, e), Edit(e, f)
  PROVE  Edit(d, f)
BY DEF Edit

(* A channel is kept under the port assigned to its controller.            *)
LEMMA HeldOk ==
  ASSUME IInv, NEW i \in DOMAIN ctl, ctl[i].backend = 0, NEW k \in Kinds, NEW gen \in Nat,
         AssignedPort(Daemon, i) # NoPort
  PROVE  LET held == [Daemon EXCEPT !.ctl[i].device = AssignedPort(Daemon, i),
                                    !.ctl[i][k] = gen]
         IN  /\ held \in DaemonType /\ Consistent(held, present) /\ Edit(Daemon, held)
             /\ held.ctl[i].backend = 0 /\ held.ctl[i].device = AssignedPort(Daemon, i)
<1> DEFINE p == AssignedPort(Daemon, i)
           c == ctl[i]
           n == [c EXCEPT !.device = p, ![k] = gen]
           held == [Daemon EXCEPT !.ctl[i].device = p, !.ctl[i][k] = gen]
           h == [Daemon EXCEPT !.ctl = [@ EXCEPT ![i] = n]]
<1>1. /\ Daemon \in DaemonType /\ Consistent(Daemon, present) /\ Daemon.ctl = ctl
      /\ ctl \in Seq(Runtimes) /\ c \in Runtimes /\ Sound(c)
  <2>1. Daemon \in DaemonType /\ Consistent(Daemon, present) /\ Daemon.ctl = ctl
    BY DaemonOf DEF IInv
  <2> QED BY <2>1 DEF DaemonType, Consistent, CtlOk
<1>2. /\ p \in Ports /\ p \notin OtherPorts(ctl, i) /\ controller_config_allows_port(c, p)
  BY <1>1, AssignedOk
<1> HIDE DEF p
<1>3. held = h
  BY <1>1 DEF DaemonType, Runtimes
<1>4. /\ n \in Runtimes /\ n.addr = c.addr /\ n.profile = c.profile /\ n.ports = c.ports
      /\ n.device = p /\ n.backend = 0 /\ n.vc = c.vc
  <2>1. CASE k = "control"
    BY <1>1, <1>2, <2>1 DEF Runtimes
  <2>2. CASE k = "interrupt"
    BY <1>1, <1>2, <2>2 DEF Runtimes
  <2> QED BY <2>1, <2>2 DEF Kinds
<1> HIDE DEF n
<1>5. Sound(n)
  <2>1. ~n.vc
    BY <1>1, <1>4 DEF Sound
  <2>2. controller_config_allows_port(n, n.device) /\ n.device # NoPort
    BY <1>2, <1>4, LinuxAssumption DEF controller_config_allows_port, NoPort
  <2> QED BY <1>4, <2>1, <2>2 DEF Sound
<1>6. h \in DaemonType /\ Consistent(h, present) /\ Edit(Daemon, h) /\ h.ctl[i] = n
  BY <1>1, <1>2, <1>4, <1>5, HoldOk, ZenonT(30)
<1> HIDE DEF h
<1> QED BY <1>3, <1>4, <1>6 DEF p

(* One round of handle_bt_accept: a channel is refused, kept or completes  *)
(* a pair.                                                                 *)
LEMMA AcceptChannelOk ==
  ASSUME IInv, NEW k \in Kinds, pc = k, AcceptChannel(k), pc' = pc,
         UNCHANGED <<present, udev, link, cmd, db, reg, batch, ok>>
  PROVE  IInv'
<1> DEFINE a == Head(lq[k])[1]
           gen == Head(lq[k])[2]
           i == controller_for_address(ctl, a)
           port == AssignedPort(Daemon, i)
           held == [Daemon EXCEPT !.ctl[i].device = port, !.ctl[i][k] = gen]
           c == held.ctl[i]
           works == /\ ~Hung(a, c.control) /\ ~Hung(a, c.interrupt)
                    /\ \E p \in Range(ports) : p.path = port /\ p.live
<1>0. /\ TypeOK /\ left \in Nat /\ lq \in [Kinds -> Seq(Addrs \X Nat)]
      /\ ctl \in Seq(Runtimes) /\ WorldTypes /\ Distinct(db)
  BY DEF IInv, TypeOK, LoopTypes, WorldTypes, TableTypes, Configured
<1>1. lq[k] # <<>> /\ lq' = [lq EXCEPT ![k] = Tail(@)]
  BY DEF AcceptChannel
<1>2. Head(lq[k]) \in Addrs \X Nat /\ Tail(lq[k]) \in Seq(Addrs \X Nat)
  <2>1. lq[k] \in Seq(Addrs \X Nat)
    BY <1>0
  <2> HIDE DEF a, gen
  <2> QED BY <1>1, <2>1
<1>3. WorldTypes'
  <2>1. lq' \in [Kinds -> Seq(Addrs \X Nat)]
    BY <1>0, <1>1, <1>2
  <2> QED BY <1>0, <2>1 DEF WorldTypes
<1>4. pc \in {"batch"} \cup Kinds /\ pc' \in {"batch"} \cup Kinds
  OBVIOUS
<1>5. ASSUME NEW d \in DaemonType, Consistent(d, present), Edit(Daemon, d), Becomes(d),
             left' \in Nat
      PROVE  IInv'
  <2> HIDE DEF a, gen, i, port, held, c, works
  <2> QED BY <1>0, <1>3, <1>4, <1>5, EditStep
<1>6. \/ Becomes(Daemon) /\ left' = left
      \/ /\ i # 0 /\ ctl[i].backend = 0 /\ port # NoPort
         /\ \/ Becomes(held) /\ left' = left
            \/ /\ c.control # 0 /\ c.interrupt # 0
               /\ \/ Becomes(complete_pending_controller(held, i, works)) /\ left' = left
                  \/ /\ left > 0 /\ left' = left - 1
                     /\ Becomes(complete_pending_controller(held, i, FALSE))
  BY DEF AcceptChannel
<1>7. CASE Becomes(Daemon) /\ left' = left
  <2> HIDE DEF a, gen, i, port, held, c, works
  <2> QED BY <1>0, <1>5, <1>7, Unedited
<1>8. CASE /\ i # 0 /\ ctl[i].backend = 0 /\ port # NoPort
           /\ \/ Becomes(held) /\ left' = left
              \/ /\ c.control # 0 /\ c.interrupt # 0
                 /\ \/ Becomes(complete_pending_controller(held, i, works)) /\ left' = left
                    \/ /\ left > 0 /\ left' = left - 1
                       /\ Becomes(complete_pending_controller(held, i, FALSE))
  <2>1. i \in DOMAIN ctl
    <3> HIDE DEF a
    <3> QED BY <1>0, <1>8, FindController
  <2>2. gen \in Nat
    BY <1>2
  <2> HIDE DEF i, gen, a
  <2>3. /\ held \in DaemonType /\ Consistent(held, present) /\ Edit(Daemon, held)
        /\ held.ctl[i].backend = 0 /\ held.ctl[i].device = port
    BY <1>8, <2>1, <2>2, HeldOk
  <2> HIDE DEF held, port
  <2>4. CASE Becomes(held) /\ left' = left
    BY <1>0, <1>5, <2>3, <2>4
  <2>5. ASSUME c.control # 0, c.interrupt # 0, NEW s \in BOOLEAN, s => works,
               Becomes(complete_pending_controller(held, i, s)), left' \in Nat
        PROVE  IInv'
    <3>1. held.ports = ports /\ i \in DOMAIN held.ctl
      BY <1>0, <2>1, <2>3, DaemonOf DEF Edit
    <3>2. s => LiveAt(held.ports, held.ctl[i].device)
      BY <2>3, <2>5, <3>1 DEF LiveAt, Range
    <3> DEFINE e == complete_pending_controller(held, i, s)
    <3>3. e \in DaemonType /\ Consistent(e, present) /\ Edit(held, e)
      BY <2>3, <2>5, <3>1, <3>2, CompleteOk
    <3> HIDE DEF e
    <3>4. Edit(Daemon, e)
      BY <2>3, <3>3, EditTransitive
    <3> QED BY <1>5, <2>5, <3>3, <3>4 DEF e
  <2>6. works \in BOOLEAN
    OBVIOUS
  <2>7. CASE /\ c.control # 0 /\ c.interrupt # 0
             /\ Becomes(complete_pending_controller(held, i, works)) /\ left' = left
    <3> HIDE DEF works, c
    <3> QED BY <1>0, <2>5, <2>6, <2>7
  <2>8. CASE /\ c.control # 0 /\ c.interrupt # 0 /\ left > 0 /\ left' = left - 1
             /\ Becomes(complete_pending_controller(held, i, FALSE))
    <3> HIDE DEF works, c
    <3>1. left' \in Nat /\ FALSE \in BOOLEAN
      BY <1>0, <2>8
    <3> QED BY <2>5, <2>8, <3>1
  <2> QED BY <1>8, <2>4, <2>7, <2>8
<1> HIDE DEF a, gen, i, port, held, c, works
<1> QED BY <1>6, <1>7, <1>8

(* The loop of handle_bt_accept.                                           *)
LEMMA AcceptingOk ==
  ASSUME IInv, NEW k \in Kinds, Accepting(k)
  PROVE  IInv'
<1>1. CASE AcceptChannel(k) /\ pc' = pc
  BY <1>1, AcceptChannelOk DEF Accepting
<1>2. CASE lq[k] = <<>> /\ pc' = "batch" /\ UNCHANGED <<lq, daemonVars, left>>
  <2>1. UNCHANGED <<worldVars, daemonVars, reg, ok, left, batch>> /\ pc = k
    BY <1>2 DEF Accepting, worldVars
  <2>2. EventNamesController' /\ batch' \subseteq Events
    BY <2>1 DEF IInv, TypeOK, LoopTypes, EventNamesController, daemonVars
  <2> QED BY <1>2, <2>1, <2>2, MoveOn DEF Kinds
<1> QED BY <1>1, <1>2 DEF Accepting

(* The driver of an endpoint goes away under the daemon.                   *)
LEMMA RemoveEndpointOk ==
  ASSUME IInv, NEW p \in Ports, RemoveEndpoint(p)
  PROVE  IInv'
<1>0. /\ TypeOK /\ ports \in Seq(PortRec) /\ left \in Nat /\ present \subseteq Ports
      /\ usb \subseteq Ports /\ p # NoPort
  BY LinuxAssumption DEF IInv, TypeOK, WorldTypes, TableTypes, LoopTypes, PortRec, NoPort
<1>1. /\ p \in present /\ present' = present \ {p} /\ udev' = (pc # "down")
      /\ usb' = usb \ {p} /\ left' = left - 1 /\ left > 0
      /\ ports' = [i \in DOMAIN ports |-> IF ports[i].path = p
                                          THEN [ports[i] EXCEPT !.live = FALSE]
                                          ELSE ports[i]]
      /\ UNCHANGED <<link, lq, cmd, db, ctl, reload, dirty, reg, batch, pc, ok>>
  BY DEF RemoveEndpoint
<1>2. \A i \in DOMAIN ports : ports[i] \in PortRec
  BY <1>0
<1>3. /\ DOMAIN ports' = DOMAIN ports
      /\ \A i \in DOMAIN ports : /\ ports'[i] \in PortRec
                                 /\ ports'[i].path = ports[i].path
                                 /\ ports'[i].live <=> (ports[i].live /\ ports[i].path # p)
  BY <1>1, <1>2 DEF PortRec
<1>4. ports' \in Seq(PortRec)
  <2>1. DOMAIN ports = 1 .. Len(ports) /\ Len(ports) \in Nat
    BY <1>0
  <2>2. ports' = [i \in 1 .. Len(ports) |-> ports'[i]]
    BY <1>1, <2>1
  <2> QED BY <1>3, <2>1, <2>2
<1>5. TypeOK'
  <2>1. TableTypes'
    BY <1>0, <1>1, <1>4 DEF TypeOK, TableTypes, PortRec
  <2>2. WorldTypes' /\ LoopTypes'
    BY <1>0, <1>1 DEF TypeOK, WorldTypes, LoopTypes
  <2> QED BY <2>1, <2>2 DEF TypeOK
<1>6. PortPaths(ports') = PortPaths(ports)
  BY <1>3 DEF PortPaths
<1>7. \A q : LiveAt(ports', q) <=> LiveAt(ports, q) /\ q # p
  BY <1>3 DEF LiveAt
<1>8. Consistent(Daemon, present)'
  <2>1. /\ CtlOk(ctl) /\ PortsOk(ports, present) /\ Plugged(Daemon)
        /\ Daemon.ports = ports /\ Daemon.ctl = ctl /\ Daemon.usb = usb
    BY <1>0, DaemonOf DEF IInv, Consistent
  <2>2. Daemon'.ports = ports' /\ Daemon'.ctl = ctl /\ Daemon'.usb = usb'
    BY <1>1 DEF Daemon
  <2>3. PortsOk(ports', present')
    BY <1>1, <1>3, <2>1 DEF PortsOk
  <2>4. Plugged(Daemon')
    BY <1>1, <1>7, <2>1, <2>2 DEF Plugged
  <2> QED BY <2>1, <2>2, <2>3, <2>4 DEF Consistent
<1>9. Attended'
  BY <1>1, <1>6 DEF IInv, Attended
<1>10. InLoop'
  <2>1. pc = "down" => ports' = <<>>
    <3> SUFFICES ASSUME pc = "down" PROVE ports' = <<>>
      OBVIOUS
    <3>1. DOMAIN ports' = {}
      <4>1. ports = <<>> /\ DOMAIN <<>> = {}
        BY DEF IInv, InLoop
      <4> QED BY <1>3, <4>1
    <3>2. Len(ports') = 0
      BY <1>4, <3>1
    <3> QED BY <1>4, <3>2, EmptySeq
  <2> QED BY <1>1, <2>1 DEF IInv, InLoop
<1>11. Watches'
  BY <1>1, <1>3 DEF IInv, Watches, Matches
<1>12. EventNamesController'
  BY <1>1, <1>3 DEF IInv, EventNamesController
<1>13. Configured' /\ Tracked'
  BY <1>1 DEF IInv, Configured, Tracked, InLoop, Distinct
<1> QED BY <1>5, <1>8, <1>9, <1>10, <1>11, <1>12, <1>13 DEF IInv

(* Every step of the world.                                                *)
LEMMA WorldOk ==
  ASSUME IInv, World
  PROVE  IInv'
<1>0. /\ TypeOK /\ WorldTypes /\ left \in Nat
  BY DEF IInv, TypeOK, LoopTypes
<1>1. CASE Command
  <2>1. cmd' \subseteq Commands /\ left' \in Nat
    BY <1>0, <1>1 DEF Command, Commands
  <2>2. WorldTypes'
    BY <1>0, <1>1, <2>1 DEF Command, WorldTypes
  <2> QED BY <1>1, <2>1, <2>2, WorldStep DEF Command
<1>2. ASSUME NEW a \in Addrs, Connect(a) PROVE IInv'
  <2>1. link[a] \in Links /\ lq["control"] \in Seq(Addrs \X Nat)
    BY <1>0 DEF WorldTypes, Kinds
  <2>2. link' \in [Addrs -> Links]
    BY <1>0, <1>2, <2>1 DEF WorldTypes, Connect, Links
  <2>3. lq' \in [Kinds -> Seq(Addrs \X Nat)]
    <3>1. <<a, link[a].gen + 1>> \in Addrs \X Nat
      BY <2>1 DEF Links
    <3>2. Append(lq["control"], <<a, link[a].gen + 1>>) \in Seq(Addrs \X Nat)
      BY <2>1, <3>1
    <3> QED BY <1>0, <1>2, <3>2 DEF WorldTypes, Connect
  <2>4. WorldTypes' /\ left' \in Nat
    BY <1>0, <1>2, <2>2, <2>3 DEF Connect, WorldTypes
  <2> QED BY <1>2, <2>4, WorldStep DEF Connect
<1>3. ASSUME NEW a \in Addrs, OpenInterrupt(a) PROVE IInv'
  <2>1. link[a] \in Links /\ lq["interrupt"] \in Seq(Addrs \X Nat)
    BY <1>0 DEF WorldTypes, Kinds
  <2>2. link' \in [Addrs -> Links]
    BY <1>0, <1>3, <2>1 DEF WorldTypes, OpenInterrupt, Links
  <2>3. lq' \in [Kinds -> Seq(Addrs \X Nat)]
    <3>1. <<a, link[a].gen>> \in Addrs \X Nat
      BY <2>1 DEF Links
    <3>2. Append(lq["interrupt"], <<a, link[a].gen>>) \in Seq(Addrs \X Nat)
      BY <2>1, <3>1
    <3> QED BY <1>0, <1>3, <3>2 DEF WorldTypes, OpenInterrupt
  <2>4. WorldTypes' /\ left' \in Nat
    BY <1>0, <1>3, <2>2, <2>3 DEF OpenInterrupt, WorldTypes
  <2> QED BY <1>3, <2>4, WorldStep DEF OpenInterrupt
<1>4. ASSUME NEW a \in Addrs, LinkLost(a) PROVE IInv'
  <2>1. link' \in [Addrs -> Links]
    BY <1>0, <1>4 DEF WorldTypes, LinkLost, Links
  <2>2. lq' \in [Kinds -> Seq(Addrs \X Nat)]
    <3>1. \A k \in Kinds : RemoveFirst(lq[k], <<a, link[a].gen>>) \in Seq(Addrs \X Nat)
      BY <1>0, RemoveFirstElements DEF WorldTypes
    <3> QED BY <1>4, <3>1 DEF LinkLost
  <2>3. WorldTypes' /\ left' \in Nat
    <3>1. UNCHANGED <<present, udev, cmd, db>> /\ left > 0 /\ left' = left - 1
      BY <1>4 DEF LinkLost
    <3> QED BY <1>0, <2>1, <2>2, <3>1 DEF WorldTypes
  <2> QED BY <1>4, <2>3, WorldStep DEF LinkLost
<1>5. ASSUME NEW p \in Ports, AddEndpoint(p) PROVE IInv'
  <2>1. WorldTypes' /\ left' \in Nat
    BY <1>0, <1>5 DEF AddEndpoint, WorldTypes
  <2>2. udev' \/ pc = "down"
    BY <1>5 DEF AddEndpoint
  <2> QED BY <1>5, <2>1, <2>2, WorldStep DEF AddEndpoint
<1> QED BY <1>1, <1>2, <1>3, <1>4, <1>5, RemoveEndpointOk DEF World

-----------------------------------------------------------------------------
(* The theorems.                                                           *)

(* Every step keeps the inductive invariant.                               *)
LEMMA NextOk ==
  ASSUME IInv, [Next]_vars
  PROVE  IInv'
<1>1. CASE Reload
  BY <1>1, ReloadOk
<1>2. CASE Rebuild
  BY <1>2, RebuildOk
<1>3. CASE Sleep
  BY <1>3, SleepOk
<1>4. CASE Wake
  BY <1>4, WakeOk
<1>5. CASE Timeout
  <2>1. batch = {}
    BY <1>5 DEF Timeout, IInv, InLoop
  <2> QED BY <1>5, <2>1, FlushStep DEF Timeout
<1>6. CASE Handle
  BY <1>6, ControlEventOk, UdevEventOk, PortEventOk, BtEventOk, AcceptEventOk DEF Handle
<1>7. CASE EndBatch
  BY <1>7, FlushStep DEF EndBatch
<1>8. ASSUME NEW k \in Kinds, Accepting(k) PROVE IInv'
  BY <1>8, AcceptingOk
<1>9. CASE Stop \/ Crash
  <2>1. Die /\ left > 0 /\ left' = left - 1 /\ left \in Nat
    BY <1>9 DEF Stop, Crash, IInv, TypeOK, LoopTypes
  <2>2. left' \in Nat
    BY <2>1
  <2> QED BY <2>1, <2>2, DieOk
<1>10. CASE Start
  BY <1>10, StartOk
<1>11. CASE World
  BY <1>11, WorldOk
<1>12. CASE UNCHANGED vars
  <2>1. UNCHANGED <<worldVars, daemonVars, reg, batch, pc, ok, left>>
    BY <1>12 DEF vars, worldVars, daemonVars
  <2>2. WorldTypes' /\ left' \in Nat
    BY <2>1 DEF IInv, TypeOK, WorldTypes, LoopTypes, worldVars
  <2> QED BY <2>1, <2>2, WorldStep DEF worldVars
<1> QED BY <1>1, <1>2, <1>3, <1>4, <1>5, <1>6, <1>7, <1>8, <1>9, <1>10, <1>11, <1>12
        DEF Next

(* The inductive invariant holds in every reachable state: the loop of     *)
(* main, with every handler, crash and restart, keeps it.                  *)
THEOREM Invariance == Spec => []IInv
<1>1. Init => IInv
  BY InitOk
<1>2. IInv /\ [Next]_vars => IInv'
  BY NextOk
<1> QED BY <1>1, <1>2, PTL DEF Spec

(* Every variable keeps its type (the tables of main, the epoll            *)
(* registrations and the batch of events).                                 *)
THEOREM Typing == Spec => []TypeOK
<1>1. IInv => TypeOK
  BY DEF IInv
<1> QED BY <1>1, Invariance, PTL

(* No endpoint is ever held by two controllers: available_port_index, the  *)
(* half-open pairs of handle_bt_accept and the sessions                    *)
(* reconcile_controller_configs carries over agree about who has it.       *)
THEOREM PortsExclusive == Spec => []PortExclusive
<1>1. IInv => PortExclusive
  <2> SUFFICES ASSUME IInv PROVE PortExclusive
    OBVIOUS
  <2>1. Exclusive(ctl)
    BY DaemonOf DEF IInv, Consistent, CtlOk
  <2> QED BY <2>1 DEF Exclusive, PortExclusive
<1> QED BY <1>1, Invariance, PTL

(* A virtual USB device is plugged in exactly for the sessions on a        *)
(* running driver, through drop_bt_backend, flush_pending_outputs, reloads *)
(* and the end of the process.                                             *)
THEOREM UsbOfSession == Spec => []UsbFollowsSession
<1>1. IInv => UsbFollowsSession
  <2> SUFFICES ASSUME IInv PROVE UsbFollowsSession
    OBVIOUS
  <2>1. /\ \A p \in usb : \E i \in DOMAIN ctl : ctl[i].vc /\ ctl[i].device = p
        /\ \A i \in DOMAIN ctl :
             ctl[i].vc /\ LiveAt(ports, ctl[i].device) => ctl[i].device \in usb
    BY DaemonOf DEF IInv, Consistent, Plugged
  <2>2. usb \subseteq {c.device : c \in {d \in Range(ctl) : d.vc}}
    BY <2>1 DEF Range
  <2>3. ASSUME NEW c \in Range(ctl), c.vc, [path |-> c.device, live |-> TRUE] \in Range(ports)
        PROVE  c.device \in usb
    <3>1. PICK i \in DOMAIN ctl : c = ctl[i]
      BY DEF Range
    <3>2. PICK j \in DOMAIN ports : ports[j] = [path |-> c.device, live |-> TRUE]
      BY <2>3 DEF Range
    <3>3. LiveAt(ports, c.device)
      BY <3>2 DEF LiveAt
    <3> QED BY <2>1, <2>3, <3>1, <3>3
  <2> QED BY <2>2, <2>3 DEF UsbFollowsSession
<1> QED BY <1>1, Invariance, PTL

(* In epoll_wait after a reload that went through, the epoll set watches   *)
(* every open port and every session under the index it has now.           *)
THEOREM SessionsWatched == Spec => []SessionWatched
<1>1. IInv => SessionWatched
  <2> SUFFICES ASSUME IInv, pc = "wait", ok
               PROVE  /\ \A i \in DOMAIN ports : ports[i].path # NoPort =>
                           i \in DOMAIN reg.ports /\ reg.ports[i] = ports[i].path
                      /\ \A i \in DOMAIN ctl : ctl[i].backend # 0 =>
                           /\ i \in DOMAIN reg.ctl
                           /\ reg.ctl[i] = <<ctl[i].addr, ctl[i].backend>>
    BY DEF SessionWatched
  <2>1. Matches(ports, ctl) /\ reg.ctl \in Seq(Addrs \X Nat)
    BY DEF IInv, InLoop, Watches, TypeOK, LoopTypes
  <2>2. ASSUME NEW i \in DOMAIN ctl, ctl[i].backend # 0
        PROVE  i \in DOMAIN reg.ctl /\ reg.ctl[i] = <<ctl[i].addr, ctl[i].backend>>
    <3>1. i \in DOMAIN reg.ctl /\ reg.ctl[i][1] = ctl[i].addr /\ reg.ctl[i][2] = ctl[i].backend
      BY <2>1, <2>2 DEF Matches
    <3>2. reg.ctl[i] \in Addrs \X Nat
      BY <2>1, <3>1
    <3> QED BY <3>1, <3>2
  <2> QED BY <2>1, <2>2 DEF Matches
<1> QED BY <1>1, Invariance, PTL

(* While a batch is handled, an index in it names the port or the          *)
(* controller it named when epoll_wait returned.                           *)
THEOREM EventsNamed == Spec => []EventNamesController
<1>1. IInv => EventNamesController
  BY DEF IInv
<1> QED BY <1>1, Invariance, PTL

(* In epoll_wait after a reload that went through, the controllers are     *)
(* those of the database and every bound one is on an endpoint its config  *)
(* allows.                                                                 *)
THEOREM ConfigsInForce == Spec => []ConfigInForce
<1>1. IInv => ConfigInForce
  <2> SUFFICES ASSUME IInv, pc = "wait", ok
               PROVE  /\ Len(ctl) = Len(db)
                      /\ \A i \in DOMAIN ctl :
                           /\ [addr |-> ctl[i].addr, profile |-> ctl[i].profile,
                               ports |-> ctl[i].ports] = db[i]
                           /\ controller_uses_port(ctl[i]) =>
                                controller_config_allows_port(db[i], ctl[i].device)
    BY DEF ConfigInForce
  <2>1. /\ DOMAIN ctl = DOMAIN db
        /\ \A i \in DOMAIN ctl : /\ ctl[i].addr = db[i].addr /\ ctl[i].profile = db[i].profile
                                 /\ ctl[i].ports = db[i].ports
    BY DEF IInv, InLoop, Configured
  <2>2. /\ ctl \in Seq(Runtimes) /\ db \in Seq(Configs)
        /\ \A i \in DOMAIN ctl : Sound(ctl[i])
    BY DaemonOf DEF IInv, TypeOK, TableTypes, WorldTypes, Consistent, CtlOk
  <2>3. Len(ctl) = Len(db)
    BY <2>1, <2>2
  <2>4. ASSUME NEW i \in DOMAIN ctl
        PROVE  /\ [addr |-> ctl[i].addr, profile |-> ctl[i].profile,
                   ports |-> ctl[i].ports] = db[i]
               /\ controller_uses_port(ctl[i]) =>
                    controller_config_allows_port(db[i], ctl[i].device)
    <3>1. db[i] \in Configs
      BY <2>1, <2>2
    <3>2. [addr |-> ctl[i].addr, profile |-> ctl[i].profile, ports |-> ctl[i].ports] = db[i]
      BY <2>1, <3>1 DEF Configs
    <3>3. controller_uses_port(ctl[i]) => controller_config_allows_port(ctl[i], ctl[i].device)
      BY <2>2 DEF Sound
    <3> QED BY <2>1, <3>2, <3>3 DEF controller_config_allows_port
  <2> QED BY <2>3, <2>4
<1> QED BY <1>1, Invariance, PTL

(* In epoll_wait after a reload that went through, with no monitor event   *)
(* waiting, the open ports are the endpoints that exist.                   *)
THEOREM AllEndpointsTracked == Spec => []EndpointsTracked
<1>1. IInv => EndpointsTracked
  BY DEF IInv, InLoop, Tracked, EndpointsTracked
<1> QED BY <1>1, Invariance, PTL

(* The epoll set and the events it has returned go by the tables.          *)
THEOREM EpollCurrent == Spec => []EpollFollowsTables
BY SessionsWatched, EventsNamed, PTL DEF EpollFollowsTables

(* The tables are those of the database and of the endpoints that exist.   *)
THEOREM TablesCurrent == Spec => []TablesInForce
BY ConfigsInForce, AllEndpointsTracked, PTL DEF TablesInForce

(* What a step does with a session whose port is there and still allowed.  *)
Continues(c) ==
  /\ c.vc /\ c.device \in present /\ c.device \in PortPaths(ports)
  /\ \E i \in DOMAIN db : /\ db[i].addr = c.addr /\ db[i].profile = c.profile
                          /\ controller_config_allows_port(db[i], c.device)
  => \E n \in Range(ctl') : /\ n.addr = c.addr /\ n.device = c.device
                            /\ n.backend = c.backend /\ n.vc

(* reconcile_controller_configs carries such a session over.               *)
LEMMA ReloadContinues ==
  ASSUME IInv, pc = "top", reload, ReloadDone, NEW c \in Range(ctl)
  PROVE  Continues(c)
<1> SUFFICES ASSUME c.vc, c.device \in present, NEW k \in DOMAIN db, db[k].addr = c.addr,
                    db[k].profile = c.profile, controller_config_allows_port(db[k], c.device)
             PROVE  \E n \in Range(ctl') : /\ n.addr = c.addr /\ n.device = c.device
                                           /\ n.backend = c.backend /\ n.vc
  BY DEF Continues
<1> DEFINE m == ReleaseMissing(Daemon)
           e == sync_virtual_ports(m)
           x == AdoptConfigs(e)
<1>1. PICK i \in DOMAIN ctl : c = ctl[i]
  BY DEF Range
<1>2. /\ e \in DaemonType /\ Consistent(e, present)
      /\ PortPaths(e.ports) = present /\ e.ctl = m.ctl /\ DOMAIN m.ctl = DOMAIN ctl
      /\ m.ctl[i] = ctl[i]
  BY <1>1, SyncedOk
<1>3. db \in Seq(Configs) /\ Distinct(db)
  BY DEF IInv, TypeOK, WorldTypes, Configured
<1>4. controller_uses_port(c)
  BY DEF controller_uses_port
<1> HIDE DEF m, e
<1>5. /\ x \in DaemonType /\ DOMAIN x.ctl = DOMAIN db /\ x.ctl[k].addr = db[k].addr
      /\ x.ctl[k].device = c.device /\ x.ctl[k].backend = c.backend /\ x.ctl[k].vc = c.vc
  <2>1. /\ i \in DOMAIN e.ctl /\ e.ctl[i] = c /\ e.ctl[i].device \in PortPaths(e.ports)
        /\ controller_uses_port(e.ctl[i])
        /\ e.ctl[i].addr = db[k].addr /\ e.ctl[i].profile = db[k].profile
        /\ controller_config_allows_port(db[k], e.ctl[i].device)
    BY <1>1, <1>2, <1>4
  <2> QED BY ONLY <1>2, <1>3, <2>1, k \in DOMAIN db, AdoptOk
<1>6. ctl' = [x EXCEPT !.dirty = TRUE, !.reload = FALSE].ctl
  BY DEF ReloadDone, Becomes, x, e, m
<1> HIDE DEF x
<1>7. ctl' = x.ctl
  BY <1>5, <1>6 DEF DaemonType
<1> QED BY <1>5, <1>7 DEF Range

(* A reload that goes through ends no session whose endpoint exists and    *)
(* whose config still allows it.                                           *)
THEOREM SessionsContinue == Spec => ReloadKeepsSessions
<1>1. ASSUME IInv, [Next]_vars
      PROVE  [pc = "top" /\ reload /\ ok' => \A c \in Range(ctl) : Continues(c)]_vars
  <2> SUFFICES ASSUME Next, pc = "top", reload, ok', NEW c \in Range(ctl)
               PROVE  Continues(c)
    BY <1>1
  <2>1. CASE Reload
    <3>1. ReloadDone
      BY <2>1 DEF Reload, ReloadFails
    <3> QED BY <1>1, <3>1, ReloadContinues
  <2>2. CASE World
    <3>1. ctl' = ctl
      BY <2>2 DEF World, Command, Connect, OpenInterrupt, LinkLost, RemoveEndpoint,
                  AddEndpoint, daemonVars
    <3> QED BY <3>1 DEF Continues
  <2>3. ~Rebuild /\ ~Sleep /\ ~Wake /\ ~Timeout /\ ~Handle /\ ~EndBatch /\ ~Start
    BY DEF Rebuild, Sleep, Wake, Timeout, Handle, EndBatch, Start
  <2>4. \A k \in Kinds : ~Accepting(k)
    BY DEF Accepting, Kinds
  <2>5. ~Stop /\ ~Crash
    BY DEF Stop, Crash, Die
  <2> QED BY <2>1, <2>2, <2>3, <2>4, <2>5 DEF Next
<1> QED BY <1>1, Invariance, PTL DEF Spec, ReloadKeepsSessions, Continues
=============================================================================
