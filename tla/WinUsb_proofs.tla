---------------------------- MODULE WinUsb_proofs ----------------------------
(***************************************************************************)
(* Theorems about one port of the Windows virtual USB driver, for every    *)
(* set of handles, profiles and URBs and every size of its two rings.      *)
(***************************************************************************)
EXTENDS WinUsb, SequenceTheorems, TLAPS

-----------------------------------------------------------------------------
(* The rings.                                                              *)

(* The unit at distance i behind the oldest one.                           *)
At(r, size, i) == r.cells[(r.head + i) % size]

(* Positions wrap at most once, in either direction.                       *)
LEMMA ModWrap ==
  ASSUME NEW n \in Nat \ {0}, NEW x \in -n .. 2 * n - 1
  PROVE  /\ 0 <= x /\ x < n => x % n = x
         /\ x >= n => x % n = x - n
         /\ x < 0 => x % n = x + n
         /\ x % n \in 0 .. n - 1
  OBVIOUS

(* An index that runs past the end of the ring, at most once around.       *)
LEMMA ModUp ==
  ASSUME NEW n \in Nat \ {0}, NEW h \in 0 .. n - 1, NEW i \in 0 .. n
  PROVE  /\ h + i < n => (h + i) % n = h + i
         /\ h + i >= n => (h + i) % n = h + i - n
         /\ (h + i) % n \in 0 .. n - 1
<1> DEFINE x == h + i
<1>1. x \in -n .. 2 * n - 1 /\ 0 <= x
  OBVIOUS
<1> HIDE DEF x
<1>2. /\ x < n => x % n = x
      /\ x >= n => x % n = x - n
      /\ x % n \in 0 .. n - 1
  BY <1>1, ModWrap
<1> QED BY <1>2 DEF x

(* The same for one that runs below its start.                             *)
LEMMA ModDown ==
  ASSUME NEW n \in Nat \ {0}, NEW a \in 0 .. n - 1, NEW b \in 0 .. n - 1
  PROVE  /\ a >= b => (a - b) % n = a - b
         /\ a < b => (a - b) % n = a - b + n
         /\ (a - b) % n \in 0 .. n - 1
<1> DEFINE x == a - b
<1>1. x \in -n .. 2 * n - 1 /\ (x >= 0 <=> a >= b) /\ x < n
  OBVIOUS
<1> HIDE DEF x
<1>2. /\ x >= 0 => x % n = x
      /\ x < 0 => x % n = x + n
      /\ x % n \in 0 .. n - 1
  BY <1>1, ModWrap
<1>3. /\ a >= b => x % n = x
      /\ a < b => x % n = x + n
  BY <1>1, <1>2
<1> QED BY <1>2, <1>3 DEF x

(* Where the copy of a write finds position h + i, when the copy begins at *)
(* position h + s: behind the filled part for i < s, at i - s for the rest.*)
LEMMA CopyPlace ==
  ASSUME NEW n \in Nat \ {0}, NEW h \in 0 .. n - 1, NEW s \in 0 .. n,
         NEW i \in 0 .. n - 1
  PROVE  /\ i < s => (((h + i) % n) - ((h + s) % n)) % n = n - s + i
         /\ i >= s => (((h + i) % n) - ((h + s) % n)) % n = i - s
<1> DEFINE a == (h + i) % n
           b == (h + s) % n
           m == (a - b) % n
<1>0. i \in 0 .. n
  OBVIOUS
<1>1. /\ h + i < n => a = h + i
      /\ h + i >= n => a = h + i - n
      /\ a \in 0 .. n - 1
  BY <1>0, ModUp
<1>2. /\ h + s < n => b = h + s
      /\ h + s >= n => b = h + s - n
      /\ b \in 0 .. n - 1
  BY ModUp
<1> HIDE DEF a, b
<1>3. /\ a >= b => m = a - b
      /\ a < b => m = a - b + n
  BY <1>1, <1>2, ModDown
<1> HIDE DEF m
<1>4. /\ i < s => m = n - s + i
      /\ i >= s => m = i - s
  BY <1>1, <1>2, <1>3
<1> QED BY <1>4 DEF m, a, b

(* A write keeps the units the ring holds and appends the new ones.        *)
LEMMA RingWrite ==
  ASSUME NEW N \in Nat \ {0}, NEW U, NEW r \in RingType(N, U),
         NEW units \in Seq(U), r.size + Len(units) <= N
  PROVE  LET w == VdsControlRingWriteLocked(r, N, units)
         IN  /\ w \in RingType(N, U) /\ w.size = r.size + Len(units)
             /\ \A i \in 0 .. r.size - 1 : At(w, N, i) = At(r, N, i)
             /\ \A i \in 0 .. Len(units) - 1 :
                   At(w, N, r.size + i) = units[i + 1]
<1> DEFINE w == VdsControlRingWriteLocked(r, N, units)
           n == Len(units)
           tail == (r.head + r.size) % N
           at(j) == ((j - tail) % N) + 1
           cells == [j \in 0 .. N - 1 |-> IF at(j) <= n THEN units[at(j)]
                                          ELSE r.cells[j]]
<1>1. /\ r.cells \in [0 .. N - 1 -> U \union {Empty}]
      /\ r.head \in 0 .. N - 1 /\ r.size \in 0 .. N
      /\ r = [cells |-> r.cells, head |-> r.head, size |-> r.size]
  BY DEF RingType
<1>2. n \in Nat /\ \A k \in 1 .. n : units[k] \in U
  OBVIOUS
<1>3. w = [r EXCEPT !.cells = cells, !.size = r.size + n]
  BY <1>1 DEF VdsControlRingWriteLocked
<1>4. w.cells = cells /\ w.head = r.head /\ w.size = r.size + n
  BY <1>1, <1>3
<1>5. \A j \in 0 .. N - 1 : at(j) \in 1 .. N
  <2> SUFFICES ASSUME NEW j \in 0 .. N - 1 PROVE at(j) \in 1 .. N
    OBVIOUS
  <2>1. tail \in 0 .. N - 1
    BY <1>1, ModUp
  <2> HIDE DEF tail
  <2>2. (j - tail) % N \in 0 .. N - 1
    BY <2>1, ModDown
  <2> QED BY <2>2
<1>6. cells \in [0 .. N - 1 -> U \union {Empty}]
  <2> SUFFICES ASSUME NEW j \in 0 .. N - 1
               PROVE  (IF at(j) <= n THEN units[at(j)] ELSE r.cells[j])
                        \in U \union {Empty}
    OBVIOUS
  <2>1. at(j) \in 1 .. N
    BY <1>5
  <2> HIDE DEF at
  <2> QED BY <1>1, <1>2, <2>1
<1>7. w \in RingType(N, U)
  <2> HIDE DEF cells, n
  <2>1. r.size + n \in 0 .. N
    BY <1>1, <1>2 DEF n
  <2> QED BY <1>1, <1>3, <1>6, <2>1 DEF RingType
<1> DEFINE pos(i) == (r.head + i) % N
<1>8. ASSUME NEW i \in 0 .. N - 1
      PROVE  /\ pos(i) \in 0 .. N - 1
             /\ i < r.size => at(pos(i)) = N - r.size + i + 1
             /\ i >= r.size => at(pos(i)) = i - r.size + 1
  <2>0. i \in 0 .. N
    OBVIOUS
  <2>1. (r.head + i) % N \in 0 .. N - 1
    BY <1>1, <2>0, ModUp
  <2> QED BY <1>1, <2>1, CopyPlace
<1>9. ASSUME NEW i \in 0 .. r.size - 1
      PROVE  At(w, N, i) = At(r, N, i)
  <2> HIDE DEF at, pos
  <2>1. i \in 0 .. N - 1 /\ i < r.size
    BY <1>1
  <2>2. pos(i) \in 0 .. N - 1 /\ ~(at(pos(i)) <= n)
    BY <1>1, <1>2, <1>8, <2>1
  <2>3. cells[pos(i)] = r.cells[pos(i)]
    BY <2>2
  <2> QED BY <1>4, <2>3 DEF At, pos
<1>10. ASSUME NEW i \in 0 .. n - 1
       PROVE  At(w, N, r.size + i) = units[i + 1]
  <2> DEFINE x == r.size + i
  <2>1. x \in 0 .. N - 1 /\ x >= r.size /\ x - r.size + 1 = i + 1
    BY <1>1, <1>2
  <2> HIDE DEF at, pos, x
  <2>2. pos(x) \in 0 .. N - 1 /\ at(pos(x)) = i + 1
    BY <1>8, <2>1
  <2>3. cells[pos(x)] = units[i + 1]
    BY <1>2, <2>2
  <2> QED BY <1>4, <2>3 DEF At, pos, x
<1> QED BY <1>4, <1>7, <1>9, <1>10

(* A read takes the oldest units, as many as asked for and there are, and  *)
(* leaves the others in order.                                             *)
LEMMA RingRead ==
  ASSUME NEW N \in Nat \ {0}, NEW U, NEW r \in RingType(N, U), NEW n \in Nat
  PROVE  LET w == VdsControlRingReadLocked(r, N, n)
             count == Least(n, r.size)
         IN  /\ w \in RingType(N, U) /\ w.size = r.size - count
             /\ count \in 0 .. r.size
             /\ \A i \in 0 .. r.size - count - 1 :
                   At(w, N, i) = At(r, N, count + i)
<1> DEFINE w == VdsControlRingReadLocked(r, N, n)
           count == Least(n, r.size)
           cells == [j \in 0 .. N - 1 |-> IF (j - r.head) % N < count THEN Empty
                                          ELSE r.cells[j]]
           head == (r.head + count) % N
<1>1. /\ r.cells \in [0 .. N - 1 -> U \union {Empty}]
      /\ r.head \in 0 .. N - 1 /\ r.size \in 0 .. N
  BY DEF RingType
<1>2. count \in 0 .. r.size /\ count \in 0 .. N
  BY <1>1 DEF Least
<1>3. w = [cells |-> cells, head |-> head, size |-> r.size - count]
  BY <1>1 DEF VdsControlRingReadLocked
<1>4. cells \in [0 .. N - 1 -> U \union {Empty}]
  BY <1>1
<1>5. head \in 0 .. N - 1
  <2> HIDE DEF count
  <2> QED BY <1>1, <1>2, ModUp
<1>6. w \in RingType(N, U) /\ w.size = r.size - count
  <2> HIDE DEF cells, head, count, w
  <2>1. r.size - count \in 0 .. N
    BY <1>1, <1>2
  <2> QED BY <1>3, <1>4, <1>5, <2>1 DEF RingType
<1>7. ASSUME NEW i \in 0 .. r.size - count - 1
      PROVE  At(w, N, i) = At(r, N, count + i)
  <2> DEFINE j == (head + i) % N
             k == (r.head + (count + i)) % N
  <2> DEFINE d == count + i
             h == r.head
             m == (k - h) % N
  <2>1. /\ count \in 0 .. N /\ i \in 0 .. N /\ d \in 0 .. N - 1 /\ d \in 0 .. N
        /\ h \in 0 .. N - 1 /\ d = count + i
    BY <1>1, <1>2, SMTT(30)
  <2> HIDE DEF count, d, h
  <2>2. /\ head \in 0 .. N - 1
        /\ h + count < N => head = h + count
        /\ h + count >= N => head = h + count - N
    BY <2>1, ModUp DEF h
  <2>3. /\ (h + d) % N \in 0 .. N - 1
        /\ h + d < N => (h + d) % N = h + d
        /\ h + d >= N => (h + d) % N = h + d - N
    BY <2>1, ModUp
  <2>4. k = (h + d) % N
    BY DEF h, d
  <2> HIDE DEF head, k
  <2>5. /\ head + i < N => j = head + i
        /\ head + i >= N => j = head + i - N
    BY <2>1, <2>2, ModUp
  <2>6. /\ k >= h => m = k - h
        /\ k < h => m = k - h + N
    BY <2>1, <2>3, <2>4, ModDown
  <2> HIDE DEF j, m
  <2>7. j = k /\ k \in 0 .. N - 1
    BY <2>1, <2>2, <2>3, <2>4, <2>5
  <2>8. ~(m < count)
    BY <2>1, <2>3, <2>4, <2>6
  <2>9. cells[k] = r.cells[k]
    BY <2>7, <2>8 DEF m, h
  <2>10. At(w, N, i) = cells[j] /\ At(r, N, count + i) = r.cells[k]
    <3> HIDE DEF cells
    <3> QED BY <1>3 DEF At, head, j, k
  <2> QED BY <2>7, <2>9, <2>10
<1> QED BY <1>2, <1>6, <1>7

(* A reset ring is empty.                                                  *)
LEMMA RingReset ==
  ASSUME NEW N \in Nat \ {0}, NEW U, NEW r \in RingType(N, U)
  PROVE  /\ VdsResetAudioInPcm(r) \in RingType(N, U)
         /\ VdsResetAudioInPcm(r).size = 0
<1>1. DOMAIN r.cells = 0 .. N - 1
  BY DEF RingType
<1>2. 0 \in 0 .. N - 1 /\ 0 \in 0 .. N
  OBVIOUS
<1> QED BY <1>1, <1>2 DEF VdsResetAudioInPcm, RingType

(* What w, written from r, holds: some of the newest units of r, then all  *)
(* the new ones, or the last of the new ones alone.                        *)
NewestKept(w, r, N, units) ==
  LET n   == Len(units)
      new == Least(n, N)
  IN  \E old \in 0 .. r.size :
        /\ w.size = old + new /\ (old > 0 => new = n)
        /\ \A i \in 0 .. old - 1 : At(w, N, i) = At(r, N, r.size - old + i)
        /\ \A i \in 0 .. new - 1 : At(w, N, old + i) = units[n - new + i + 1]

(* A write to the microphone ring keeps the newest units.                  *)
LEMMA MicWrite ==
  ASSUME NEW N \in Nat \ {0}, NEW U, NEW r \in RingType(N, U),
         NEW units \in Seq(U)
  PROVE  LET w == VdsAudioInRingWriteLocked(r, N, units)
         IN  w \in RingType(N, U) /\ NewestKept(w, r, N, units)
<1> DEFINE n == Len(units)
           new == Least(n, N)
           kept == SubSeq(units, n - new + 1, n)
           start == IF n >= N THEN VdsResetAudioInPcm(r) ELSE r
           room == N - start.size
           drop == IF Len(kept) > room THEN Len(kept) - room ELSE 0
           v == VdsControlRingReadLocked(start, N, drop)
           w == VdsControlRingWriteLocked(v, N, kept)
<1>1. /\ n \in Nat /\ new \in 0 .. n /\ new <= N
      /\ (n >= N => new = N) /\ (n < N => new = n)
  BY DEF Least
<1>2. /\ kept \in Seq(U) /\ Len(kept) = new
      /\ \A i \in 1 .. new : kept[i] = units[n - new + i]
  <2> HIDE DEF new
  <2>1. n - new + 1 \in 1 .. n + 1
    BY <1>1
  <2> QED BY <1>1, <2>1
<1>3. /\ start \in RingType(N, U) /\ start.size \in 0 .. r.size
      /\ (n >= N => start.size = 0) /\ (n < N => start = r)
  <2>1. r.size \in 0 .. N
    BY DEF RingType
  <2>2. CASE n >= N
    BY <2>1, <2>2, RingReset
  <2>3. CASE ~(n >= N)
    BY <2>1, <2>3
  <2> QED BY <1>1, <2>2, <2>3
<1>4. start.size \in 0 .. N
  BY <1>3 DEF RingType
<1> HIDE DEF start, kept, new, n
<1>5. /\ drop \in Nat /\ drop \in 0 .. start.size
      /\ start.size - drop + new <= N
  <2> DEFINE s == start.size
  <2>1. s \in 0 .. N /\ new \in 0 .. N
    BY <1>1, <1>4
  <2>2. drop = IF new > N - s THEN new - (N - s) ELSE 0
    BY <1>2
  <2> HIDE DEF s, drop
  <2>3. drop \in Nat /\ drop \in 0 .. s /\ s - drop + new <= N
    BY <2>1, <2>2
  <2> QED BY <2>3 DEF s
<1> HIDE DEF drop
<1> DEFINE old == start.size - drop
<1>6. Least(drop, start.size) = drop
  BY <1>4, <1>5 DEF Least
<1>7. /\ v \in RingType(N, U) /\ v.size = old
      /\ \A i \in 0 .. old - 1 : At(v, N, i) = At(start, N, drop + i)
  <2>1. start \in RingType(N, U) /\ drop \in Nat
    BY <1>3, <1>5
  <2>2. LET count == Least(drop, start.size)
        IN  /\ v \in RingType(N, U) /\ v.size = start.size - count
            /\ \A i \in 0 .. start.size - count - 1 :
                  At(v, N, i) = At(start, N, count + i)
    BY <2>1, RingRead, ZenonT(30)
  <2> HIDE DEF v
  <2> QED BY <1>6, <2>2
<1> HIDE DEF v
<1>8. v.size + Len(kept) <= N
  BY <1>2, <1>5, <1>7
<1>9. /\ w \in RingType(N, U) /\ w.size = old + new
      /\ \A i \in 0 .. old - 1 : At(w, N, i) = At(v, N, i)
      /\ \A i \in 0 .. new - 1 : At(w, N, old + i) = kept[i + 1]
  BY <1>2, <1>7, <1>8, RingWrite
<1> HIDE DEF w
<1>10. old \in 0 .. r.size /\ (old > 0 => new = n /\ start = r)
  BY <1>1, <1>3, <1>4, <1>5
<1>11. ASSUME NEW i \in 0 .. old - 1
       PROVE  At(w, N, i) = At(r, N, r.size - old + i)
  <2>1. old > 0
    BY <1>5, <1>4
  <2>2. start = r
    BY <1>10, <2>1
  <2>3. r.size - old = drop
    BY <1>4, <1>5, <2>2
  <2>4. At(w, N, i) = At(start, N, drop + i)
    BY <1>7, <1>9
  <2> QED BY <2>2, <2>3, <2>4
<1>12. ASSUME NEW i \in 0 .. new - 1
       PROVE  At(w, N, old + i) = units[n - new + i + 1]
  <2>1. At(w, N, old + i) = kept[i + 1]
    BY <1>9
  <2>2. i + 1 \in 1 .. new /\ n - new + (i + 1) = n - new + i + 1
    BY <1>1
  <2> QED BY <1>2, <2>1, <2>2
<1>13. w = VdsAudioInRingWriteLocked(r, N, units)
  BY DEF VdsAudioInRingWriteLocked, w, v, drop, kept, start, new, n
<1> QED BY <1>9, <1>10, <1>11, <1>12, <1>13 DEF NewestKept, n, new

-----------------------------------------------------------------------------
(* Type correctness.                                                       *)

(* Only the control queue and the cleanup of a handle touch the port.      *)
LEMMA PortKept ==
  ASSUME [Next]_vars, ~Control
  PROVE  UNCHANGED <<portVars, ctl>>
<1> USE DEF OthersOfUrb, OthersOfCfg
<1>1. CASE QueueFrameSteps
  BY <1>1 DEF QueueFrameSteps, VdsQueueFrame, CheckRing, TakeRead
<1>2. ASSUME NEW u \in Urbs, UrbStep(u)
      PROVE  UNCHANGED <<portVars, ctl>>
  BY <1>2 DEF UrbStep, VdsEvtControlUrb, VdsEvtHidOutUrb, VdsEvtIsoInUrb,
     VdsEvtIsoOutUrb, VdsEvtHidInUrb, PublishTimer, StartTimer, TimerExpires,
     VdsEvtDelayedUrbCompletionTimer, VdsCompleteUrbAsync, Cancel
<1>3. ASSUME NEW u \in Urbs, NEW ep \in Endpoints, NEW req \in Requests(ep),
             Submit(u, ep, req)
      PROVE  UNCHANGED <<portVars, ctl>>
  BY <1>3 DEF Submit
<1>4. ASSUME NEW r \in ConfigureRequests, Configure(r)
      PROVE  UNCHANGED <<portVars, ctl>>
  BY <1>4 DEF Configure
<1>5. CASE ConfigureStep
  BY <1>5 DEF ConfigureStep, ReleaseEndpoint, VdsAssignFreshEndpointQueue,
     EventStep, CompleteConfigure
<1>6. CASE UNCHANGED vars
  BY <1>6 DEF vars, portVars
<1> QED BY <1>1, <1>2, <1>3, <1>4, <1>5, <1>6 DEF Next

(* What VdsPlugUsbChildDevice can leave: on success a plugged child with   *)
(* the profile of the port.                                                *)
LEMMA PlugResult ==
  ASSUME PortTypes, NEW r \in VdsPlugUsbChildDevice
  PROVE  /\ r.child \in [dev : BOOLEAN, valid : BOOLEAN,
                         profile : Profiles \union {None}, plugged : BOOLEAN]
         /\ r.ok => /\ r.child.dev /\ r.child.plugged /\ r.child.valid
                    /\ r.child.profile = port.profile
<1> DEFINE Child == [dev : BOOLEAN, valid : BOOLEAN,
                     profile : Profiles \union {None}, plugged : BOOLEAN]
<1>0. child \in Child /\ port.profile \in Profiles \union {None} /\ NoChild \in Child
  BY DEF PortTypes, NoChild
<1>1. \A c \in VdsCreateUsbChildDevice :
        /\ c \in [ok : BOOLEAN, child : Child]
        /\ c.ok => /\ c.child.dev /\ c.child.valid
                   /\ c.child.profile = port.profile
  <2> DEFINE fresh == [dev |-> TRUE, valid |-> TRUE, profile |-> port.profile,
                       plugged |-> FALSE]
             half == [fresh EXCEPT !.valid = FALSE, !.profile = None]
  <2>1. /\ fresh \in Child /\ half \in Child
        /\ fresh.dev /\ fresh.valid /\ fresh.profile = port.profile
    BY <1>0
  <2>2. ASSUME NEW c \in VdsCreateUsbChildDevice
        PROVE  \/ c = [ok |-> TRUE, child |-> child] /\ child.dev
                  /\ child.valid /\ child.profile = port.profile
               \/ c = [ok |-> FALSE, child |-> child]
               \/ c = [ok |-> TRUE, child |-> fresh]
               \/ c = [ok |-> FALSE, child |-> NoChild]
               \/ c = [ok |-> FALSE, child |-> half]
    BY DEF VdsCreateUsbChildDevice
  <2> HIDE DEF Child, fresh, half
  <2>3. \A ok \in BOOLEAN, ch \in Child :
          LET c == [ok |-> ok, child |-> ch]
          IN  c \in [ok : BOOLEAN, child : Child] /\ c.ok = ok /\ c.child = ch
    OBVIOUS
  <2> SUFFICES ASSUME NEW c \in VdsCreateUsbChildDevice
               PROVE  /\ c \in [ok : BOOLEAN, child : Child]
                      /\ c.ok => /\ c.child.dev /\ c.child.valid
                                 /\ c.child.profile = port.profile
    OBVIOUS
  <2>4. CASE c = [ok |-> TRUE, child |-> child] /\ child.dev
             /\ child.valid /\ child.profile = port.profile
    BY <1>0, <2>3, <2>4
  <2>5. CASE c = [ok |-> TRUE, child |-> fresh]
    BY <2>1, <2>3, <2>5
  <2>6. ASSUME NEW ch \in Child, c = [ok |-> FALSE, child |-> ch]
        PROVE  c \in [ok : BOOLEAN, child : Child] /\ ~c.ok
    BY <2>3, <2>6
  <2> QED BY <1>0, <2>1, <2>2, <2>4, <2>5, <2>6
<1>2. PICK c \in VdsCreateUsbChildDevice :
        r \in IF ~c.ok \/ c.child.plugged THEN {c}
              ELSE {[c EXCEPT !.child.plugged = TRUE], [c EXCEPT !.ok = FALSE]}
  BY DEF VdsPlugUsbChildDevice
<1>3. /\ c \in [ok : BOOLEAN, child : Child]
      /\ c.ok => /\ c.child.dev /\ c.child.valid
                 /\ c.child.profile = port.profile
  BY <1>1
<1>4. CASE ~c.ok \/ c.child.plugged
  BY <1>2, <1>3, <1>4
<1>5. CASE r = [c EXCEPT !.child.plugged = TRUE]
  BY <1>3, <1>5
<1>6. CASE r = [c EXCEPT !.ok = FALSE]
  BY <1>3, <1>6
<1> QED BY <1>2, <1>4, <1>5, <1>6

(* The control queue keeps the types of the port.                          *)
LEMMA PortTypeStep ==
  ASSUME PortTypes, [Next]_vars
  PROVE  PortTypes'
<1>1. CASE ~Control
  BY <1>1, PortKept DEF PortTypes, portVars
<1> USE DEF PortTypes, CtlType, Idle, portVars
<1>2. ASSUME NEW f \in Files, NEW p \in Profiles, BindLock(f, p)
      PROVE  PortTypes'
  <2>1. [at |-> "plug", file |-> f] \in CtlType
    OBVIOUS
  <2>2. port' \in {port, [bound |-> TRUE, file |-> f, profile |-> p]}
        /\ ctl' \in {ctl, [at |-> "plug", file |-> f]}
        /\ session' \in {session, session + 1} /\ UNCHANGED <<child, handles>>
    BY <1>2 DEF BindLock
  <2>3. [bound |-> TRUE, file |-> f, profile |-> p]
          \in [bound : BOOLEAN, file : Files \union {None},
               profile : Profiles \union {None}]
    OBVIOUS
  <2> HIDE DEF CtlType
  <2>4. port' \in [bound : BOOLEAN, file : Files \union {None},
                   profile : Profiles \union {None}]
    BY <2>2, <2>3
  <2>5. ctl' \in CtlType /\ session' \in Nat
    BY <2>1, <2>2
  <2> QED BY <2>2, <2>4, <2>5
<1>3. ASSUME NEW f \in Files, UnbindLock(f) PROVE PortTypes'
  <2>1. [at |-> "unplug", file |-> f] \in CtlType
    OBVIOUS
  <2>2. port' \in {port, [port EXCEPT !.bound = FALSE, !.file = None]}
        /\ ctl' \in {ctl, [at |-> "unplug", file |-> f]}
        /\ UNCHANGED <<child, handles, session>>
    BY <1>3 DEF UnbindLock
  <2> HIDE DEF CtlType
  <2> QED BY <2>1, <2>2
<1>4. ASSUME NEW f \in Files, Cleanup(f) PROVE PortTypes'
  BY <1>4 DEF Cleanup
<1>5. ASSUME NEW f \in Files, CleanupReset(f) PROVE PortTypes'
  BY <1>5 DEF CleanupReset
<1>6. CASE BindPlug
  <2>1. PICK r \in VdsPlugUsbChildDevice :
           child' = r.child
           /\ ctl' = IF r.ok THEN Idle ELSE [ctl EXCEPT !.at = "undo"]
    BY <1>6 DEF BindPlug
  <2>2. child' \in [dev : BOOLEAN, valid : BOOLEAN,
                    profile : Profiles \union {None}, plugged : BOOLEAN]
    BY <2>1, PlugResult
  <2>3. ctl \in [at : {"plug", "undo", "unplug"}, file : Files]
    BY <1>6 DEF BindPlug
  <2>4. ctl' \in CtlType
    BY <2>1, <2>3
  <2> QED BY <1>6, <2>2, <2>4 DEF BindPlug
<1>7. CASE BindUndo
  BY <1>7 DEF BindUndo
<1>8. CASE UnbindUnplug
  BY <1>8 DEF UnbindUnplug, DeleteChild, NoChild
<1>9. CASE VdsEvtControlRead
  BY <1>9 DEF VdsEvtControlRead
<1>10. CASE CancelRead
  BY <1>10 DEF CancelRead
<1>11. ASSUME NEW type \in {"feature_reply", "audio_in"}, WriteCheck(type)
       PROVE  PortTypes'
  BY <1>11 DEF WriteCheck
<1>12. CASE WriteStore
  BY <1>12 DEF WriteStore
<1> QED BY <1>1, <1>2, <1>3, <1>4, <1>5, <1>6, <1>7, <1>8, <1>9, <1>10, <1>11,
        <1>12 DEF Control

(* The requests of the host carry settings of the audio interfaces.        *)
LEMMA RequestType ==
  ASSUME NEW r \in ConfigureRequests
  PROVE  /\ r.alt \in {0, 1} /\ r.rel \subseteq Iso /\ r.conf \subseteq Iso
<1> DEFINE On(i) ==
             {[iface |-> i, alt |-> 1, conf |-> {i}, rel |-> {}],
              [iface |-> i, alt |-> 1, conf |-> {i}, rel |-> {i}],
              [iface |-> i, alt |-> 0, conf |-> {}, rel |-> {i}],
              [iface |-> "none", alt |-> 0, conf |-> {i}, rel |-> {}],
              [iface |-> "none", alt |-> 0, conf |-> {}, rel |-> {i}]}
<1>1. ASSUME NEW i, NEW a, NEW c, NEW d,
             r = [iface |-> i, alt |-> a, conf |-> c, rel |-> d]
      PROVE  r.alt = a /\ r.conf = c /\ r.rel = d
  BY <1>1
<1>2. ASSUME NEW i \in Iso
      PROVE  {} \subseteq Iso /\ {i} \subseteq Iso
  OBVIOUS
<1>3. CASE r = [iface |-> "hid", alt |-> 0, conf |-> {}, rel |-> {}]
  BY <1>3
<1>4. ASSUME NEW i \in Iso,
             r \in On(i)
      PROVE  r.alt \in {0, 1} /\ r.rel \subseteq Iso /\ r.conf \subseteq Iso
  BY <1>1, <1>2, <1>4
<1> DEFINE h == [iface |-> "hid", alt |-> 0, conf |-> {}, rel |-> {}]
<1>5. r \in (UNION {On(i) : i \in Iso}) \union {h}
  BY Zenon DEF ConfigureRequests
<1> HIDE DEF On, h
<1>6. r = h \/ \E i \in Iso : r \in On(i)
  BY <1>5
<1> QED BY <1>3, <1>4, <1>6 DEF h

(* A thread that queues a frame, as a record.                              *)
LEMMA FramePlace ==
  ASSUME NEW n \in Nat, NEW i \in {<<>>} \union (Iso \X {0, 1})
  PROVE  /\ Frame(n, i) \in Places /\ Frame(n, i).at = "frame"
         /\ Frame(n, i).payload = n /\ Frame(n, i).iface = i
<1> DEFINE S == {<<>>} \union (Iso \X {0, 1})
<1>1. i \in S
  OBVIOUS
<1> HIDE DEF S
<1>2. /\ Frame(n, i) \in [at : {"frame"}, payload : Nat, iface : S]
      /\ Frame(n, i).at = "frame" /\ Frame(n, i).payload = n
      /\ Frame(n, i).iface = i
  BY <1>1 DEF Frame
<1> QED BY <1>2 DEF Places, S

(* The places a thread can be at.                                          *)
LEMMA PlaceKinds ==
  /\ Idle \in Places /\ [at |-> "check"] \in Places /\ [at |-> "take"] \in Places
  /\ Idle.at = "none" /\ [at |-> "check"].at = "check" /\ [at |-> "take"].at = "take"
  /\ \A p \in Places :
       p.at = "frame" => p.payload \in Nat /\ p.iface \in {<<>>} \union (Iso \X {0, 1})
  BY DEF Places, Idle

(* A step of the control queue or of a cleanup leaves the URBs where they  *)
(* are, but for the child they belong to.                                  *)
LEMMA ControlLeaves ==
  ASSUME Control
  PROVE  /\ UNCHANGED <<alt, handed, ring, sent>>
         /\ told' \in {told, ToldNothing}
         /\ \/ pc' = pc
            \/ pc["ctl"] = Idle /\ pc' = [pc EXCEPT !["ctl"] = [at |-> "check"]]
         /\ UNCHANGED <<urb, released, cfg>> \/ ChildReplaced
         /\ configured' \in {configured, {}, Endpoints \ Iso}
<1> USE DEF OthersOfCtl, epVars, ringVars
<1>1. ASSUME NEW f \in Files, NEW p \in Profiles, BindLock(f, p)
      PROVE  /\ UNCHANGED <<epVars, urb, cfg, pc, ringVars>>
             /\ told' \in {told, ToldNothing}
  BY <1>1 DEF BindLock
<1>2. ASSUME NEW f \in Files, UnbindLock(f) \/ Cleanup(f) \/ CleanupReset(f)
      PROVE  UNCHANGED OthersOfCtl
  BY <1>2 DEF UnbindLock, Cleanup, CleanupReset
<1>3. CASE BindPlug
  BY <1>3 DEF BindPlug
<1>4. CASE UnbindUnplug
  BY <1>4 DEF UnbindUnplug
<1>5. CASE BindUndo \/ CancelRead \/ WriteStore
  BY <1>5 DEF BindUndo, CancelRead, WriteStore
<1>6. ASSUME NEW type \in {"feature_reply", "audio_in"}, WriteCheck(type)
      PROVE  UNCHANGED OthersOfCtl
  BY <1>6 DEF WriteCheck
<1>7. CASE VdsEvtControlRead
  BY <1>7 DEF VdsEvtControlRead, CtlFree
<1> QED BY <1>1, <1>2, <1>3, <1>4, <1>5, <1>6, <1>7 DEF Control

(* What a step does to a URB it moves on: it goes to a later place of the  *)
(* driver, and its thread may have a frame to queue once it has only the   *)
(* completion left.                                                        *)
InHand == {"queued", "delay", "unstarted", "armed", "expired"}

Advance(u) ==
  \E x \in UrbType :
    /\ urb' = [urb EXCEPT ![u] = x]
    /\ x.ep = urb[u].ep /\ x.req = urb[u].req /\ x.old = urb[u].old
    /\ x.done = urb[u].done
    /\ \/ x.st = urb[u].st /\ pc' = pc
       \/ /\ urb[u].st \in InHand
          /\ x.st \in {"delay", "unstarted", "armed", "expired", "finish"}
          /\ \/ pc' = pc
             \/ x.st = "finish" /\ \E n \in {1, 2} : Queues(u, Frame(n, <<>>))

(* A URB is given back: completed by the driver or cancelled by UdeCx.     *)
GiveBack(u) ==
  /\ pc' = pc
  /\ \/ /\ urb[u].st = "finish" /\ pc[u] = Idle
        /\ urb' = [urb EXCEPT ![u] = Gone("done", urb[u].done + 1)]
     \/ /\ urb[u].st = "queued"
        /\ urb' = [urb EXCEPT ![u] = Gone("cancelled", 0)]

(* A SET_INTERFACE request sets an interface behind the callback's back.   *)
Resets(u) ==
  /\ urb[u].st = "queued" /\ urb[u].req = "set_interface"
  /\ \E i \in Iso, a \in 0..1 : /\ alt' = [alt EXCEPT ![i] = a]
                                /\ told' = [told EXCEPT ![i] = Lost]

(* A step of one URB advances it or gives it back, and nothing else moves. *)
LEMMA UrbMove ==
  ASSUME urb \in [Urbs -> UrbType], NEW u \in Urbs, UrbStep(u)
  PROVE  /\ Advance(u) \/ GiveBack(u)
         /\ UNCHANGED <<alt, told>> \/ Resets(u)
         /\ UNCHANGED <<released, configured, cfg, handed, ring, sent, rd>>
<1> USE DEF OthersOfUrb, epVars, ringVars, InHand
<1>1. urb[u] \in UrbType
  OBVIOUS
<1>2. ASSUME NEW st \in UrbStates, NEW pub \in BOOLEAN
      PROVE  LET x == [urb[u] EXCEPT !.st = st, !.pub = pub]
             IN  /\ x \in UrbType /\ x.st = st
                 /\ x.ep = urb[u].ep /\ x.req = urb[u].req
                 /\ x.old = urb[u].old /\ x.done = urb[u].done
  BY <1>1 DEF UrbType
<1>3. ASSUME NEW st \in UrbStates, Becomes(u, st)
      PROVE  urb' = [urb EXCEPT ![u] = [urb[u] EXCEPT !.st = st, !.pub = urb[u].pub]]
  BY <1>1, <1>3 DEF Becomes, UrbType
<1>4. urb[u].pub \in BOOLEAN
  BY <1>1 DEF UrbType
<1>5. ASSUME Delivered(u), NEW st \in {"delay", "finish"}, Becomes(u, st),
             \/ pc' = pc
             \/ st = "finish" /\ \E n \in {1, 2} : Queues(u, Frame(n, <<>>))
      PROVE  Advance(u)
  <2>1. st \in UrbStates /\ urb[u].st = "queued"
    BY <1>5 DEF UrbStates, Delivered
  <2> DEFINE x == [urb[u] EXCEPT !.st = st, !.pub = urb[u].pub]
  <2>2. /\ x \in UrbType /\ x.st = st
        /\ x.ep = urb[u].ep /\ x.req = urb[u].req
        /\ x.old = urb[u].old /\ x.done = urb[u].done
    BY <1>2, <1>4, <2>1
  <2>3. urb' = [urb EXCEPT ![u] = x]
    BY <1>3, <1>5, <2>1
  <2> HIDE DEF x
  <2> QED BY <1>5, <2>1, <2>2, <2>3 DEF Advance
<1>6. CASE VdsEvtControlUrb(u)
  <2>1. Advance(u)
    <3>1. \/ pc' = pc
          \/ \E n \in {1, 2} : Queues(u, Frame(n, <<>>))
      BY <1>6 DEF VdsEvtControlUrb
    <3>2. Delivered(u) /\ Becomes(u, "finish")
      BY <1>6 DEF VdsEvtControlUrb
    <3> QED BY <1>5, <3>1, <3>2
  <2>2. UNCHANGED <<alt, told>> \/ Resets(u)
    BY <1>6 DEF VdsEvtControlUrb, Resets, Delivered
  <2> QED BY <1>6, <2>1, <2>2 DEF VdsEvtControlUrb
<1>7. CASE VdsEvtHidOutUrb(u)
  BY <1>5, <1>7 DEF VdsEvtHidOutUrb
<1>8. CASE VdsEvtIsoInUrb(u)
  BY <1>5, <1>8 DEF VdsEvtIsoInUrb
<1>9. CASE VdsEvtIsoOutUrb(u)
  BY <1>5, <1>9 DEF VdsEvtIsoOutUrb
<1>10. CASE VdsEvtHidInUrb(u)
  BY <1>5, <1>10 DEF VdsEvtHidInUrb
<1>11. CASE Cancel(u)
  BY <1>11 DEF Cancel, GiveBack
<1>12. CASE VdsCompleteUrbAsync(u)
  BY <1>12 DEF VdsCompleteUrbAsync, GiveBack
<1>13. ASSUME urb[u].st \in InHand, NEW pub \in BOOLEAN,
              NEW st \in {"unstarted", "armed", "expired", "finish"},
              urb' = [urb EXCEPT ![u] = [urb[u] EXCEPT !.st = st, !.pub = pub]],
              \/ pc' = pc
              \/ st = "finish" /\ CompletionFrame(u)
       PROVE  Advance(u)
  <2> DEFINE x == [urb[u] EXCEPT !.st = st, !.pub = pub]
  <2>0. st \in UrbStates
    BY DEF UrbStates
  <2>1. /\ x \in UrbType /\ x.st = st
        /\ x.ep = urb[u].ep /\ x.req = urb[u].req
        /\ x.old = urb[u].old /\ x.done = urb[u].done
    BY <1>2, <2>0
  <2>2. urb' = [urb EXCEPT ![u] = x]
    BY <1>13
  <2> HIDE DEF x
  <2> QED BY <1>13, <2>1, <2>2 DEF Advance, CompletionFrame
<1>14. CASE PublishTimer(u)
  <2>1. UNCHANGED <<epVars, told, dataVars, OthersOfUrb>>
    BY <1>14 DEF PublishTimer
  <2>2. CASE urb' = [urb EXCEPT ![u].st = "unstarted", ![u].pub = TRUE] /\ pc' = pc
    <3>1. urb' = [urb EXCEPT ![u] = [urb[u] EXCEPT !.st = "unstarted", !.pub = TRUE]]
      BY <2>2
    <3> QED BY <1>13, <1>14, <2>1, <2>2, <3>1 DEF PublishTimer
  <2>3. CASE Becomes(u, "finish") /\ CompletionFrame(u)
    <3>1. urb' = [urb EXCEPT ![u] = [urb[u] EXCEPT !.st = "finish", !.pub = urb[u].pub]]
      BY <1>3, <2>3 DEF UrbStates
    <3> QED BY <1>4, <1>13, <1>14, <2>1, <2>3, <3>1 DEF PublishTimer
  <2> QED BY <1>14, <2>2, <2>3 DEF PublishTimer
<1>15. CASE StartTimer(u)
  <2>1. urb' = [urb EXCEPT ![u] = [urb[u] EXCEPT !.st = "armed", !.pub = urb[u].pub]]
    BY <1>3, <1>15 DEF UrbStates, StartTimer
  <2> QED BY <1>4, <1>13, <1>15, <2>1 DEF StartTimer
<1>16. CASE TimerExpires(u)
  <2>1. urb' = [urb EXCEPT ![u] = [urb[u] EXCEPT !.st = "expired", !.pub = urb[u].pub]]
    BY <1>3, <1>16 DEF UrbStates, TimerExpires
  <2> QED BY <1>4, <1>13, <1>16, <2>1 DEF TimerExpires
<1>17. CASE VdsEvtDelayedUrbCompletionTimer(u)
  <2>1. urb' = [urb EXCEPT ![u] = [urb[u] EXCEPT !.st = "finish", !.pub = FALSE]]
    BY <1>17 DEF VdsEvtDelayedUrbCompletionTimer
  <2> QED BY <1>13, <1>17, <2>1 DEF VdsEvtDelayedUrbCompletionTimer
<1> QED BY <1>6, <1>7, <1>8, <1>9, <1>10, <1>11, <1>12, <1>14, <1>15, <1>16,
        <1>17 DEF UrbStep

(* A callback in progress, and one of its fields changed.                  *)
CfgRunning ==
  [at : {"release", "audio_out", "audio_in", "hid", "complete"},
   req : ConfigureRequests, todo : SUBSET Iso, wait : Urbs \union {None},
   gone : BOOLEAN]

(* A configure request is idle or at one of its stages.                    *)
LEMMA CfgKinds ==
  /\ CfgType = {Idle} \union CfgRunning /\ Idle \notin CfgRunning
  /\ \A c \in CfgRunning :
       /\ c.at \in {"release", "audio_out", "audio_in", "hid", "complete"}
       /\ c.req \in ConfigureRequests /\ c # Idle
<1>1. Idle.at = "none"
  BY DEF Idle
<1>2. CfgType = {Idle} \union CfgRunning
  BY DEF CfgType, CfgRunning
<1>3. \A c \in CfgRunning :
        /\ c.at \in {"release", "audio_out", "audio_in", "hid", "complete"}
        /\ c.req \in ConfigureRequests
  BY DEF CfgRunning
<1>4. \A c \in CfgRunning : c.at # "none"
  BY <1>3
<1> QED BY <1>1, <1>2, <1>3, <1>4

(* What the callback changes in its own request.                           *)
LEMMA CfgChanged ==
  ASSUME NEW c \in CfgRunning
  PROVE  /\ [c EXCEPT !.gone = TRUE] \in CfgRunning
         /\ [c EXCEPT !.gone = TRUE].at = c.at
         /\ [c EXCEPT !.gone = TRUE].req = c.req
         /\ \A e \in Iso :
              LET d == [c EXCEPT !.todo = @ \ {e}]
              IN  d \in CfgRunning /\ d.at = c.at /\ d.req = c.req
         /\ \A a \in {"release", "audio_out", "audio_in", "hid", "complete"} :
              LET d == [c EXCEPT !.at = a]
              IN  d \in CfgRunning /\ d.at = a /\ d.req = c.req
  BY DEF CfgRunning

(* The flush of a released endpoint moves at most one URB on.              *)
LEMMA FlushMove ==
  ASSUME UrbTypes, NEW e \in Iso, ReleaseEndpoint(e)
  PROVE  /\ UNCHANGED <<urb, pc>> \/ \E u \in Urbs : Advance(u)
         /\ cfg \in CfgRunning /\ cfg.at = "release"
         /\ cfg' \in CfgRunning /\ cfg'.at = "release" /\ cfg'.req = cfg.req
         /\ released' \in {released, released \union {e}}
         /\ UNCHANGED <<alt, told, configured, handed, ring, sent, rd>>
<1>1. cfg \in CfgRunning /\ cfg.at = "release"
  <2>1. cfg \in CfgType /\ cfg.at = "release" /\ Idle.at # "release"
    BY DEF ReleaseEndpoint, UrbTypes, Idle
  <2> QED BY <2>1, CfgKinds
<1>2. UNCHANGED <<alt, told, configured, handed, ring, sent, rd>>
  BY DEF ReleaseEndpoint, OthersOfCfg, ringVars
<1>3. released' \in {released, released \union {e}}
  BY DEF ReleaseEndpoint
<1>4. VdsFlushDelayedEndpointUrb(e)
  BY DEF ReleaseEndpoint
<1>5. CASE Published(e) = {}
  <2>1. UNCHANGED <<urb, pc>> /\ cfg' = [cfg EXCEPT !.todo = @ \ {e}]
    BY <1>4, <1>5 DEF VdsFlushDelayedEndpointUrb
  <2> QED BY <1>1, <1>2, <1>3, <2>1, CfgChanged, ZenonT(30)
<1>6. CASE Published(e) # {}
  <2> DEFINE u == CHOOSE x \in Published(e) : TRUE
             stopped == urb[u].st = "armed"
             w == IF urb[u].st = "unstarted" THEN None ELSE u
  <2>1. u \in Urbs
    BY <1>6 DEF Published
  <2>2. /\ urb' = [urb EXCEPT ![u].pub = FALSE,
                              ![u].st = IF stopped THEN "finish" ELSE @]
        /\ IF stopped THEN CompletionFrame(u) ELSE UNCHANGED pc
        /\ cfg' = [cfg EXCEPT !.todo = @ \ {e}, !.wait = w]
    BY <1>4, <1>6 DEF VdsFlushDelayedEndpointUrb
  <2> HIDE DEF u
  <2>3. w \in Urbs \union {None}
    BY <2>1
  <2> HIDE DEF w
  <2>4. cfg' \in CfgRunning /\ cfg'.at = "release" /\ cfg'.req = cfg.req
    <3> DEFINE d == [cfg EXCEPT !.todo = @ \ {e}, !.wait = w]
    <3>1. d \in CfgRunning /\ d.at = cfg.at /\ d.req = cfg.req
      BY <1>1, <2>3 DEF CfgRunning
    <3>2. cfg' = d
      BY <2>2
    <3> QED BY <1>1, <3>1, <3>2
  <2> DEFINE st == IF stopped THEN "finish" ELSE urb[u].st
             x == [urb[u] EXCEPT !.pub = FALSE, !.st = st]
  <2>5. urb[u] \in UrbType /\ urb \in [Urbs -> UrbType]
    BY <2>1 DEF UrbTypes
  <2>6. st \in UrbStates
    BY <2>5 DEF UrbType, UrbStates
  <2>7. urb' = [urb EXCEPT ![u] = x]
    BY <2>1, <2>2, <2>5
  <2>8. /\ x \in UrbType /\ x.st = st /\ x.ep = urb[u].ep
        /\ x.req = urb[u].req /\ x.old = urb[u].old /\ x.done = urb[u].done
    <3> HIDE DEF st
    <3> QED BY <2>5, <2>6 DEF UrbType
  <2>9. \/ st = urb[u].st /\ pc' = pc
        \/ /\ urb[u].st \in InHand /\ st = "finish"
           /\ pc' = pc \/ \E n \in {1, 2} : Queues(u, Frame(n, <<>>))
    BY <2>2 DEF CompletionFrame, InHand
  <2> HIDE DEF x, st
  <2>10. Advance(u)
    BY <2>7, <2>8, <2>9 DEF Advance
  <2> QED BY <1>1, <1>2, <1>3, <2>1, <2>4, <2>10
<1> QED BY <1>5, <1>6

(* Both ways a URB moves keep the types.                                   *)
LEMMA MoveTypes ==
  ASSUME UrbTypes, NEW u \in Urbs, Advance(u) \/ GiveBack(u)
  PROVE  urb' \in [Urbs -> UrbType] /\ pc' \in [Threads -> Places]
<1>1. urb[u] \in UrbType /\ urb \in [Urbs -> UrbType] /\ pc \in [Threads -> Places]
  BY DEF UrbTypes
<1>2. CASE Advance(u)
  <2>1. urb' \in [Urbs -> UrbType]
    BY <1>1, <1>2 DEF Advance
  <2>2. \A n \in {1, 2} : Frame(n, <<>>) \in Places
    BY FramePlace
  <2> QED BY <1>1, <1>2, <2>1, <2>2 DEF Advance, Queues
<1>3. CASE GiveBack(u)
  <2>1. \A st \in UrbStates, n \in Nat : Gone(st, n) \in UrbType
    BY DEF Gone, UrbType, Endpoints, Requests
  <2>2. urb[u].done + 1 \in Nat /\ 0 \in Nat
    BY <1>1 DEF UrbType
  <2>3. "done" \in UrbStates /\ "cancelled" \in UrbStates
    BY DEF UrbStates
  <2> QED BY <1>1, <1>3, <2>1, <2>2, <2>3 DEF GiveBack
<1> QED BY <1>2, <1>3

(* Another child leaves every URB where it is, with the callback in        *)
(* progress, if any, one of the old child.                                 *)
LEMMA ReplacedKeeps ==
  ASSUME UrbTypes, ChildReplaced
  PROVE  /\ urb' \in [Urbs -> UrbType]
         /\ \A u \in Urbs : /\ urb'[u].st = urb[u].st /\ urb'[u].done = urb[u].done
                            /\ urb'[u].req = urb[u].req
         /\ released' = {}
         /\ \/ cfg = Idle /\ cfg' = Idle
            \/ /\ cfg \in CfgRunning /\ cfg' \in CfgRunning
               /\ cfg'.at = cfg.at /\ cfg'.req = cfg.req
<1>1. urb \in [Urbs -> UrbType] /\ cfg \in CfgType
  BY DEF UrbTypes
<1>2. ASSUME NEW u \in Urbs, NEW b \in BOOLEAN
      PROVE  LET x == [urb[u] EXCEPT !.old = b]
             IN  /\ x \in UrbType /\ x.st = urb[u].st /\ x.done = urb[u].done
                 /\ x.req = urb[u].req
  BY <1>1 DEF UrbType
<1>3. ASSUME NEW u \in Urbs
      PROVE  /\ urb'[u] \in UrbType /\ urb'[u].st = urb[u].st
             /\ urb'[u].done = urb[u].done /\ urb'[u].req = urb[u].req
  <2> DEFINE b == urb[u].st \notin {"free", "done", "cancelled"}
  <2>1. urb'[u] = [urb[u] EXCEPT !.old = b]
    BY DEF ChildReplaced
  <2>2. b \in BOOLEAN
    OBVIOUS
  <2> HIDE DEF b
  <2> QED BY <1>2, <2>1, <2>2
<1>4. urb' \in [Urbs -> UrbType]
  <2>1. urb' = [u \in Urbs |-> urb'[u]]
    BY DEF ChildReplaced
  <2> QED BY <1>3, <2>1
<1>5. CASE cfg = Idle
  BY <1>3, <1>4, <1>5 DEF ChildReplaced
<1>6. CASE cfg # Idle
  <2>1. cfg \in CfgRunning
    BY <1>1, <1>6, CfgKinds
  <2>2. cfg' = [cfg EXCEPT !.gone = TRUE]
    BY <1>6 DEF ChildReplaced
  <2>3. released' = {}
    BY DEF ChildReplaced
  <2> QED BY <1>3, <1>4, <2>1, <2>2, <2>3, CfgChanged
<1> QED BY <1>5, <1>6

(* A callback at one of its places is running.                             *)
LEMMA CfgAt ==
  ASSUME UrbTypes, cfg # Idle \/ cfg.at # "none"
  PROVE  cfg \in CfgRunning
<1>1. cfg \in CfgType /\ Idle.at = "none"
  BY DEF UrbTypes, Idle
<1> QED BY <1>1, CfgKinds

(* Fresh queues make the URBs of the old ones stale, no more.              *)
LEMMA AssignMove ==
  ASSUME UrbTypes, VdsAssignFreshEndpointQueue
  PROVE  /\ urb' \in [Urbs -> UrbType]
         /\ \A u \in Urbs : /\ urb'[u].st = urb[u].st /\ urb'[u].done = urb[u].done
                            /\ urb'[u].req = urb[u].req
         /\ cfg \in CfgRunning /\ cfg.at = "release"
         /\ released' \subseteq released
         /\ UNCHANGED <<alt, configured, pc, handed, ring, sent, rd>>
         /\ \/ /\ cfg' \in CfgRunning /\ cfg'.at = "audio_out" /\ cfg'.req = cfg.req
               /\ told' = told
            \/ /\ cfg' = Idle
               /\ told' = [i \in Iso |-> IF i = cfg.req.iface THEN Lost ELSE told[i]]
<1>1. cfg \in CfgRunning /\ cfg.at = "release"
  BY CfgAt DEF VdsAssignFreshEndpointQueue
<1>2. UNCHANGED <<alt, configured, pc, handed, ring, sent, rd>>
  BY DEF VdsAssignFreshEndpointQueue, OthersOfCfg, ringVars
<1>3. urb \in [Urbs -> UrbType]
  BY DEF UrbTypes
<1> DEFINE stale == IF cfg.gone THEN {} ELSE cfg.req.conf \intersect released
           old(u) == urb[u].old \/ (urb[u].ep \in stale /\ urb[u].st # "free")
<1>4. CASE /\ released' = released \ stale
           /\ urb' = [u \in Urbs |-> [urb[u] EXCEPT !.old = old(u)]]
           /\ cfg' = [cfg EXCEPT !.at = "audio_out"]
           /\ UNCHANGED told
  <2>1. ASSUME NEW u \in Urbs
        PROVE  /\ urb'[u] \in UrbType /\ urb'[u].st = urb[u].st
               /\ urb'[u].done = urb[u].done /\ urb'[u].req = urb[u].req
    <3>1. urb'[u] = [urb[u] EXCEPT !.old = old(u)]
      BY <1>4
    <3>2. old(u) \in BOOLEAN /\ urb[u] \in UrbType
      BY <1>3 DEF UrbType
    <3> HIDE DEF old
    <3> QED BY <3>1, <3>2 DEF UrbType
  <2>2. urb' = [u \in Urbs |-> urb'[u]]
    BY <1>4
  <2>3. urb' \in [Urbs -> UrbType]
    BY <2>1, <2>2
  <2>4. cfg' \in CfgRunning /\ cfg'.at = "audio_out" /\ cfg'.req = cfg.req
    <3>1. cfg' = [cfg EXCEPT !.at = "audio_out"]
      BY <1>4
    <3> QED BY <1>1, <3>1, CfgChanged
  <2> QED BY <1>1, <1>2, <1>4, <2>1, <2>3, <2>4
<1>5. CASE /\ cfg' = Idle
           /\ told' = [i \in Iso |-> IF i = cfg.req.iface THEN Lost ELSE told[i]]
           /\ UNCHANGED <<released, urb>>
  BY <1>1, <1>2, <1>3, <1>5
<1> QED BY <1>4, <1>5 DEF VdsAssignFreshEndpointQueue

(* The interface events: one interface is set and reported, or neither.    *)
Reports(i, a) ==
  alt' = [alt EXCEPT ![i] = a] /\ pc' = [pc EXCEPT !["cfg"] = Frame(1, <<i, a>>)]

(* A configure event reports the setting or concerns another interface.    *)
LEMMA EventMove ==
  ASSUME UrbTypes, NEW i \in Iso, EventOf(i), cfg \in CfgRunning
  PROVE  \/ \E a \in {0, 1} : Reports(i, a)
         \/ UNCHANGED <<alt, pc>> /\ cfg.req.iface # i
<1>1. cfg.req.alt \in {0, 1}
  BY CfgKinds, RequestType
<1> QED BY <1>1 DEF EventOf, Event, Reports

(* The steps keep the types of the endpoints, the URBs and the threads.    *)
LEMMA UrbTypeStep ==
  ASSUME UrbTypes, [Next]_vars
  PROVE  UrbTypes'
<1> DEFINE Kept == UNCHANGED <<alt, told, released, configured, urb, handed, cfg>>
<1>0. /\ alt \in [Iso -> {0, 1}] /\ told \in [Iso -> {0, 1, Lost}]
      /\ released \subseteq Iso /\ configured \subseteq Endpoints
      /\ urb \in [Urbs -> UrbType] /\ handed \in [Urbs -> Nat]
      /\ cfg \in CfgType /\ pc \in [Threads -> Places]
  BY DEF UrbTypes
<1>1. CASE Control
  <2>1. pc' \in [Threads -> Places]
    BY <1>0, <1>1, ControlLeaves, PlaceKinds
  <2>2. configured' \subseteq Endpoints
    BY <1>0, <1>1, ControlLeaves
  <2>5. told' \in [Iso -> {0, 1, Lost}]
    BY <1>0, <1>1, ControlLeaves DEF ToldNothing
  <2>3. CASE UNCHANGED <<urb, released, cfg>>
    BY <1>0, <1>1, <2>1, <2>2, <2>3, <2>5, ControlLeaves DEF UrbTypes
  <2>4. CASE ChildReplaced
    <3>1. urb' \in [Urbs -> UrbType] /\ released' \subseteq Iso /\ cfg' \in CfgType
      BY <2>4, ReplacedKeeps, CfgKinds
    <3> QED BY <1>0, <1>1, <2>1, <2>2, <2>5, <3>1, ControlLeaves DEF UrbTypes
  <2> QED BY <1>1, <2>3, <2>4, ControlLeaves
<1>2. ASSUME NEW t \in Threads, VdsQueueFrame(t) PROVE UrbTypes'
  <2>1. pc[t].payload \in Nat /\ pc[t].iface \in {<<>>} \union (Iso \X {0, 1})
    BY <1>0, <1>2, PlaceKinds DEF VdsQueueFrame
  <2>2. pc' \in [Threads -> Places]
    BY <1>0, <1>2, PlaceKinds DEF VdsQueueFrame
  <2>3. told' \in [Iso -> {0, 1, Lost}]
    <3>1. CASE pc[t].iface = <<>>
      BY <1>0, <1>2, <3>1 DEF VdsQueueFrame
    <3>2. CASE pc[t].iface \in Iso \X {0, 1}
      <4>1. PICK x \in {0, 1, Lost} : told' = told \/ told' = [told EXCEPT ![pc[t].iface[1]] = x]
        BY <1>2, <3>2 DEF VdsQueueFrame
      <4> QED BY <1>0, <3>2, <4>1
    <3> QED BY <2>1, <3>1, <3>2
  <2>4. handed' \in [Urbs -> Nat]
    BY <1>0, <1>2 DEF VdsQueueFrame, ringVars
  <2>5. UNCHANGED <<alt, released, configured, urb, cfg>>
    BY <1>2 DEF VdsQueueFrame, epVars
  <2> QED BY <1>0, <2>2, <2>3, <2>4, <2>5 DEF UrbTypes
<1>3. ASSUME NEW t \in Threads, CheckRing(t) \/ TakeRead(t) PROVE UrbTypes'
  <2>1. pc' \in [Threads -> Places]
    BY <1>0, <1>3, PlaceKinds DEF CheckRing, TakeRead
  <2>2. Kept
    BY <1>3 DEF CheckRing, TakeRead, epVars, ringVars
  <2> QED BY <1>0, <2>1, <2>2 DEF UrbTypes
<1>4. ASSUME NEW u \in Urbs, UrbStep(u) PROVE UrbTypes'
  <2>1. urb' \in [Urbs -> UrbType] /\ pc' \in [Threads -> Places]
    BY <1>0, <1>4, UrbMove, MoveTypes
  <2>2. alt' \in [Iso -> {0, 1}] /\ told' \in [Iso -> {0, 1, Lost}]
    BY <1>0, <1>4, UrbMove DEF Resets
  <2> QED BY <1>0, <1>4, <2>1, <2>2, UrbMove DEF UrbTypes
<1>5. ASSUME NEW u \in Urbs, NEW ep \in Endpoints, NEW req \in Requests(ep),
             Submit(u, ep, req)
      PROVE  UrbTypes'
  <2> DEFINE x == [st |-> "queued", ep |-> ep, req |-> req,
                   pub |-> FALSE, old |-> FALSE, done |-> 0]
  <2>1. req \in UNION {Requests(e) : e \in Endpoints}
    OBVIOUS
  <2>2. x \in UrbType
    BY <2>1 DEF UrbType, UrbStates
  <2>3. urb' = [urb EXCEPT ![u] = x] /\ UNCHANGED <<alt, told, released, configured, handed, cfg, pc>>
    BY <1>5 DEF Submit, epVars, ringVars
  <2> HIDE DEF x
  <2>4. urb' \in [Urbs -> UrbType]
    BY <1>0, <2>2, <2>3
  <2> QED BY <1>0, <2>3, <2>4 DEF UrbTypes
<1>6. ASSUME NEW r \in ConfigureRequests, Configure(r) PROVE UrbTypes'
  <2>1. r.rel \in SUBSET Iso /\ r.alt \in {0, 1}
    BY RequestType
  <2>2. cfg' \in CfgType
    BY <1>6, <2>1 DEF Configure, CfgType
  <2>3. alt' \in [Iso -> {0, 1}] /\ configured' \subseteq Endpoints
    BY <1>0, <1>6, <2>1 DEF Configure
  <2>4. UNCHANGED <<released, urb, pc, told, handed>>
    BY <1>6 DEF Configure, OthersOfCfg, ringVars
  <2> QED BY <1>0, <2>2, <2>3, <2>4 DEF UrbTypes
<1>7. ASSUME NEW e \in Iso, ReleaseEndpoint(e) PROVE UrbTypes'
  <2>1. cfg' \in CfgType /\ released' \subseteq Iso
        /\ UNCHANGED <<alt, told, configured, handed>>
    BY <1>0, <1>7, FlushMove, CfgKinds
  <2>2. urb' \in [Urbs -> UrbType] /\ pc' \in [Threads -> Places]
    BY <1>0, <1>7, FlushMove, MoveTypes
  <2> QED BY <1>0, <2>1, <2>2 DEF UrbTypes
<1>8. CASE VdsAssignFreshEndpointQueue
  <2>1. /\ cfg' \in CfgType /\ released' \subseteq Iso /\ urb' \in [Urbs -> UrbType]
        /\ told' \in [Iso -> {0, 1, Lost}]
    <3> DEFINE y == cfg.req.iface
    <3>1. told' = told \/ told' = [i \in Iso |-> IF i = y THEN Lost ELSE told[i]]
      BY <1>8, AssignMove
    <3> HIDE DEF y
    <3>2. told' \in [Iso -> {0, 1, Lost}]
      BY <1>0, <3>1
    <3> QED BY <1>0, <1>8, <3>2, AssignMove, CfgKinds
  <2> QED BY <1>0, <1>8, <2>1, AssignMove DEF UrbTypes
<1>9. CASE EventStep
  <2>1. UNCHANGED <<released, configured, urb, told, handed>>
    BY <1>9 DEF EventStep, OthersOfCfg, ringVars
  <2>2. cfg \in CfgRunning
    BY <1>9, CfgAt DEF EventStep
  <2>3. PICK next \in {"audio_in", "hid", "complete"} : cfg' = [cfg EXCEPT !.at = next]
    BY <1>9 DEF EventStep
  <2>4. cfg' \in CfgType
    BY <2>2, <2>3, CfgChanged, CfgKinds
  <2>5. alt' \in [Iso -> {0, 1}] /\ pc' \in [Threads -> Places]
    <3>1. ASSUME NEW i \in Iso, EventOf(i)
          PROVE  alt' \in [Iso -> {0, 1}] /\ pc' \in [Threads -> Places]
      <4>1. CASE UNCHANGED <<alt, pc>>
        BY <1>0, <4>1
      <4>2. ASSUME NEW a \in {0, 1}, Reports(i, a)
            PROVE  alt' \in [Iso -> {0, 1}] /\ pc' \in [Threads -> Places]
        <5>1. <<i, a>> \in Iso \X {0, 1}
          OBVIOUS
        <5>2. Frame(1, <<i, a>>) \in Places
          BY <5>1, FramePlace
        <5> QED BY <1>0, <4>2, <5>2 DEF Reports
      <4> QED BY <2>2, <3>1, <4>1, <4>2, EventMove
    <3>2. CASE /\ UNCHANGED alt
               /\ pc' = pc \/ pc' = [pc EXCEPT !["cfg"] = Frame(1, <<>>)]
      BY <1>0, <3>2, FramePlace
    <3>3. "audio_out" \in Iso /\ "audio_in" \in Iso
      BY DEF Iso
    <3> QED BY <1>9, <3>1, <3>2, <3>3 DEF EventStep
  <2> QED BY <1>0, <2>1, <2>4, <2>5 DEF UrbTypes
<1>10. CASE CompleteConfigure
  <2>1. cfg \in CfgRunning
    BY <1>10, CfgAt DEF CompleteConfigure
  <2>2. cfg.req.conf \subseteq Iso
    BY <2>1, CfgKinds, RequestType
  <2>3. configured' \subseteq Endpoints
    BY <1>0, <1>10, <2>2 DEF CompleteConfigure, Endpoints
  <2>4. cfg' \in CfgType
    BY <1>10, CfgKinds DEF CompleteConfigure
  <2>5. UNCHANGED <<alt, told, released, urb, pc, handed>>
    BY <1>10 DEF CompleteConfigure, OthersOfCfg, ringVars
  <2> QED BY <1>0, <2>3, <2>4, <2>5 DEF UrbTypes
<1>11. CASE UNCHANGED vars
  BY <1>0, <1>11 DEF vars, UrbTypes
<1> QED BY <1>1, <1>2, <1>3, <1>4, <1>5, <1>6, <1>7, <1>8, <1>9, <1>10, <1>11
        DEF Next, QueueFrameSteps, ConfigureStep

-----------------------------------------------------------------------------
(* The control ring.                                                       *)

(* What it holds are units of frames, numbered without a gap up to the     *)
(* last one accepted.                                                      *)
RingInv ==
  \A i \in 0 .. ring.size - 1 :
    /\ At(ring, RingSize, i) \in FrameUnit
    /\ At(ring, RingSize, i).no = sent - ring.size + 1 + i

ReaderType == [st : {"off", "ask", "parked"}, want : Nat, part : {"header", "payload"}]

(* The units of a frame are numbered from the last one sent.               *)
LEMMA FrameUnitsType ==
  ASSUME NEW n \in Nat, sent \in Nat
  PROVE  /\ FrameUnits(n) \in Seq(FrameUnit) /\ Len(FrameUnits(n)) = n + 1
         /\ \A k \in 1 .. n + 1 : FrameUnits(n)[k].no = sent + k
<1> DEFINE unit(k) == [no |-> sent + k, part |-> IF k = 1 THEN "header" ELSE "payload",
                       rest |-> n]
<1>1. \A k \in 1 .. n + 1 : unit(k) \in FrameUnit /\ unit(k).no = sent + k
  <2> SUFFICES ASSUME NEW k \in 1 .. n + 1
               PROVE  unit(k) \in FrameUnit /\ unit(k).no = sent + k
    OBVIOUS
  <2>1. sent + k \in Nat
    OBVIOUS
  <2> QED BY <2>1 DEF FrameUnit
<1>2. FrameUnits(n) = [k \in 1 .. n + 1 |-> unit(k)]
  BY DEF FrameUnits
<1> HIDE DEF unit
<1> QED BY <1>1, <1>2

(* A frame that fits is written behind the others.                         *)
LEMMA FrameAccepted ==
  ASSUME DataTypes, RingInv, NEW n \in Nat, n + 1 <= RingSize - ring.size,
         ring' = VdsControlRingWriteLocked(ring, RingSize, FrameUnits(n)),
         sent' = sent + (n + 1)
  PROVE  /\ ring' \in RingType(RingSize, FrameUnit) /\ sent' \in Nat /\ RingInv'
         /\ ring'.size = ring.size + n + 1
<1> DEFINE units == FrameUnits(n)
<1>1. /\ units \in Seq(FrameUnit) /\ Len(units) = n + 1
      /\ \A k \in 1 .. n + 1 : units[k].no = sent + k
      /\ \A k \in 1 .. n + 1 : units[k] \in FrameUnit
  <2>1. /\ units \in Seq(FrameUnit) /\ Len(units) = n + 1
        /\ \A k \in 1 .. n + 1 : units[k].no = sent + k
    BY FrameUnitsType DEF DataTypes
  <2> HIDE DEF units
  <2> QED BY <2>1
<1>2. /\ ring \in RingType(RingSize, FrameUnit) /\ RingSize \in Nat \ {0}
      /\ sent \in Nat
  BY UsbAssumption DEF DataTypes
<1>3. ring.size \in 0 .. RingSize
  BY <1>2 DEF RingType
<1> HIDE DEF units
<1>4. ring.size + Len(units) <= RingSize
  BY <1>1, <1>2, <1>3
<1>5. /\ ring' \in RingType(RingSize, FrameUnit) /\ ring'.size = ring.size + (n + 1)
      /\ \A i \in 0 .. ring.size - 1 : At(ring', RingSize, i) = At(ring, RingSize, i)
      /\ \A i \in 0 .. n : At(ring', RingSize, ring.size + i) = units[i + 1]
  <2>1. LET w == VdsControlRingWriteLocked(ring, RingSize, units)
        IN  /\ w \in RingType(RingSize, FrameUnit) /\ w.size = ring.size + Len(units)
            /\ \A i \in 0 .. ring.size - 1 : At(w, RingSize, i) = At(ring, RingSize, i)
            /\ \A i \in 0 .. Len(units) - 1 :
                   At(w, RingSize, ring.size + i) = units[i + 1]
    <3> DEFINE N == RingSize
               U == FrameUnit
    <3>1. /\ units \in Seq(U) /\ ring \in RingType(N, U) /\ N \in Nat \ {0}
          /\ ring.size + Len(units) <= N
      BY <1>1, <1>2, <1>4
    <3> HIDE DEF N, U
    <3>2. LET w == VdsControlRingWriteLocked(ring, N, units)
          IN  /\ w \in RingType(N, U) /\ w.size = ring.size + Len(units)
              /\ \A i \in 0 .. ring.size - 1 : At(w, N, i) = At(ring, N, i)
              /\ \A i \in 0 .. Len(units) - 1 : At(w, N, ring.size + i) = units[i + 1]
      BY <3>1, RingWrite
    <3> QED BY <3>2 DEF N, U
  <2>2. ring' = VdsControlRingWriteLocked(ring, RingSize, units)
    BY DEF units
  <2>3. Len(units) - 1 = n
    BY <1>1
  <2> QED BY <1>1, <2>1, <2>2, <2>3
<1>6. ASSUME NEW i \in 0 .. ring'.size - 1
      PROVE  /\ At(ring', RingSize, i) \in FrameUnit
             /\ At(ring', RingSize, i).no = sent' - ring'.size + 1 + i
  <2>1. sent' - ring'.size + 1 + i = sent - ring.size + 1 + i
    BY <1>2, <1>3, <1>5
  <2>2. CASE i < ring.size
    <3>1. i \in 0 .. ring.size - 1
      BY <1>3, <1>5, <2>2
    <3> QED BY <1>5, <2>1, <3>1 DEF RingInv
  <2>3. CASE i >= ring.size
    <3> DEFINE j == i - ring.size
    <3>1. j \in 0 .. n /\ j + 1 \in 1 .. n + 1 /\ ring.size + j = i
      BY <1>3, <1>5, <2>3
    <3>2. At(ring', RingSize, ring.size + j) = units[j + 1]
      BY <1>5, <3>1
    <3>3. sent + (j + 1) = sent - ring.size + 1 + i
      BY <1>2, <1>3, <3>1
    <3> HIDE DEF j
    <3> QED BY <1>1, <2>1, <3>1, <3>2, <3>3
  <2> QED BY <1>3, <1>5, <2>2, <2>3
<1>7. sent' \in Nat /\ ring'.size = ring.size + n + 1
  BY <1>2, <1>3, <1>5
<1> QED BY <1>5, <1>6, <1>7 DEF RingInv

(* A read takes units of frames off the ring, and the reader goes on with  *)
(* what the last one says.                                                 *)
LEMMA ReadServed ==
  ASSUME DataTypes, RingInv,
         rd' \in AfterRead(ReadUnits(ring, RingSize, rd.want)),
         ring' = VdsControlRingReadLocked(ring, RingSize, rd.want), sent' = sent
  PROVE  /\ ring' \in RingType(RingSize, FrameUnit) /\ RingInv'
         /\ rd' \in ReaderType /\ rd'.st # "parked"
<1> DEFINE count == Least(rd.want, ring.size)
           units == ReadUnits(ring, RingSize, rd.want)
<1>1. /\ ring \in RingType(RingSize, FrameUnit) /\ RingSize \in Nat \ {0}
      /\ sent \in Nat /\ rd \in ReaderType
  BY UsbAssumption DEF DataTypes, ReaderType
<1>2. rd.want \in Nat /\ rd.part \in {"header", "payload"} /\ ring.size \in 0 .. RingSize
  BY <1>1 DEF RingType, ReaderType
<1>3. /\ ring' \in RingType(RingSize, FrameUnit) /\ ring'.size = ring.size - count
      /\ count \in 0 .. ring.size
      /\ \A i \in 0 .. ring.size - count - 1 :
            At(ring', RingSize, i) = At(ring, RingSize, count + i)
  <2> DEFINE N == RingSize
             U == FrameUnit
             w == VdsControlRingReadLocked(ring, N, rd.want)
  <2>1. ring \in RingType(N, U) /\ N \in Nat \ {0} /\ rd.want \in Nat
    BY <1>1, <1>2
  <2> HIDE DEF N, U, count
  <2>2. /\ w \in RingType(N, U) /\ w.size = ring.size - count
        /\ count \in 0 .. ring.size
        /\ \A i \in 0 .. ring.size - count - 1 : At(w, N, i) = At(ring, N, count + i)
    BY <2>1, RingRead, ZenonT(30) DEF count
  <2> HIDE DEF w
  <2>3. ring' = w
    BY DEF w, N
  <2> QED BY <2>2, <2>3 DEF N, U
<1>4. count <= rd.want
  BY <1>2 DEF Least
<1>5. /\ Len(units) = count
      /\ count > 0 => units[count] \in FrameUnit
  <2> DEFINE unit(i) == ring.cells[(ring.head + i - 1) % RingSize]
  <2>1. units = [i \in 1 .. count |-> unit(i)]
    BY DEF ReadUnits
  <2>2. ASSUME count > 0 PROVE unit(count) \in FrameUnit
    <3>1. count - 1 \in 0 .. ring.size - 1
      BY <1>2, <1>3, <2>2
    <3>2. At(ring, RingSize, count - 1) \in FrameUnit
      BY <3>1 DEF RingInv
    <3>3. ring.head + (count - 1) = ring.head + count - 1
      BY <1>1, <1>2, <1>3 DEF RingType
    <3> QED BY <3>2, <3>3 DEF At
  <2> HIDE DEF unit, count, units
  <2>3. count \in Nat
    BY <1>2, <1>3
  <2> QED BY <2>1, <2>2, <2>3
<1> HIDE DEF count, units
<1>6. RingInv'
  <2> SUFFICES ASSUME NEW i \in 0 .. ring'.size - 1
               PROVE  /\ At(ring', RingSize, i) \in FrameUnit
                      /\ At(ring', RingSize, i).no = sent' - ring'.size + 1 + i
    BY DEF RingInv
  <2> DEFINE j == count + i
  <2>1. i \in 0 .. ring.size - count - 1 /\ j \in 0 .. ring.size - 1
    BY <1>2, <1>3
  <2>2. At(ring', RingSize, i) = At(ring, RingSize, j)
    BY <1>3, <2>1
  <2>3. sent' - ring'.size + 1 + i = sent - ring.size + 1 + j
    BY <1>1, <1>2, <1>3
  <2> HIDE DEF j
  <2> QED BY <2>1, <2>2, <2>3 DEF RingInv
<1>7. rd' \in ReaderType /\ rd'.st # "parked"
  <2> DEFINE off == [st |-> "off", want |-> 0, part |-> "header"]
  <2>1. off \in ReaderType /\ off.st # "parked"
    BY DEF ReaderType
  <2>2. ASSUME NEW w \in Nat, NEW part \in {"header", "payload"}
        PROVE  LET x == [st |-> "ask", want |-> w, part |-> part]
               IN  x \in ReaderType /\ x.st # "parked"
    BY DEF ReaderType
  <2>3. CASE count = 0
    BY <1>5, <2>1, <2>3 DEF AfterRead, units
  <2>4. CASE count > 0 /\ count < rd.want
    <3>1. rd' = [rd EXCEPT !.st = "ask", !.want = @ - count]
      BY <1>2, <1>3, <1>5, <2>4 DEF AfterRead, units
    <3>2. rd.want - count \in Nat
      BY <1>2, <1>3, <2>4
    <3> QED BY <1>1, <3>1, <3>2 DEF ReaderType
  <2>5. CASE count > 0 /\ ~(count < rd.want) /\ rd.part = "payload"
    <3>1. rd' = [st |-> "ask", want |-> 1, part |-> "header"]
      BY <1>2, <1>3, <1>5, <2>5 DEF AfterRead, units
    <3> QED BY <2>2, <3>1
  <2>6. CASE count > 0 /\ ~(count < rd.want) /\ rd.part # "payload"
    <3>1. units[count].rest \in Nat /\ units[count].part \in {"header", "payload"}
      BY <1>5, <2>6 DEF FrameUnit
    <3>2. \/ rd' = [st |-> "ask", want |-> units[count].rest, part |-> "payload"]
          \/ rd' = off
          \/ rd' \in [st : {"ask"}, want : 1 .. 2, part : {"payload"}]
      BY <1>2, <1>3, <1>5, <2>6 DEF AfterRead, units
    <3>3. CASE rd' \in [st : {"ask"}, want : 1 .. 2, part : {"payload"}]
      BY <3>3 DEF ReaderType
    <3> QED BY <2>1, <2>2, <3>1, <3>2, <3>3
  <2> QED BY <1>2, <1>3, <2>3, <2>4, <2>5, <2>6
<1> QED BY <1>3, <1>6, <1>7

(* Only the two locked copies touch the ring; the reader starts with a     *)
(* bind, asks, is told to stop, or is served.                              *)
LEMMA RingStep ==
  ASSUME UrbTypes, DataTypes, RingInv, [Next]_vars
  PROVE  /\ ring' \in RingType(RingSize, FrameUnit) /\ sent' \in Nat
         /\ RingInv' /\ rd' \in ReaderType
<1> DEFINE Goal == /\ ring' \in RingType(RingSize, FrameUnit) /\ sent' \in Nat
                   /\ RingInv' /\ rd' \in ReaderType
<1>0. /\ ring \in RingType(RingSize, FrameUnit) /\ sent \in Nat
      /\ rd \in ReaderType /\ pc \in [Threads -> Places]
  BY DEF DataTypes, UrbTypes, ReaderType
<1>1. ASSUME UNCHANGED <<ring, sent>>, rd' \in ReaderType
      PROVE  Goal
  <2>1. RingInv'
    BY <1>1 DEF RingInv, At
  <2> QED BY <1>0, <1>1, <2>1
<1>2. ASSUME NEW t \in Threads, VdsQueueFrame(t) PROVE Goal
  <2> DEFINE n == pc[t].payload
  <2>1. n \in Nat /\ rd' = rd
    BY <1>0, <1>2, PlaceKinds DEF VdsQueueFrame
  <2>2. CASE 1 + n <= RingSize - ring.size
    <3>1. /\ ring' = VdsControlRingWriteLocked(ring, RingSize, FrameUnits(n))
          /\ sent' = sent + (1 + n)
      BY <1>2, <2>2 DEF VdsQueueFrame
    <3> HIDE DEF n
    <3>2. 1 + n = n + 1
      BY <2>1
    <3> QED BY <1>0, <2>1, <2>2, <3>1, <3>2, FrameAccepted
  <2>3. CASE ~(1 + n <= RingSize - ring.size)
    <3>1. UNCHANGED <<ring, sent>>
      BY <1>2, <2>3 DEF VdsQueueFrame, ringVars
    <3> QED BY <1>0, <1>1, <2>1, <3>1
  <2> QED BY <2>2, <2>3
<1>3. ASSUME NEW t \in Threads, CheckRing(t) PROVE Goal
  BY <1>0, <1>1, <1>3 DEF CheckRing, ringVars
<1>4. ASSUME NEW t \in Threads, TakeRead(t) PROVE Goal
  <2>1. CASE rd.st = "parked"
    BY <1>0, <1>4, <2>1, ReadServed DEF TakeRead
  <2>2. CASE rd.st # "parked"
    BY <1>0, <1>1, <1>4, <2>2 DEF TakeRead
  <2> QED BY <2>1, <2>2
<1>5. ASSUME NEW u \in Urbs, UrbStep(u) PROVE Goal
  BY <1>0, <1>1, <1>5, UrbMove DEF UrbTypes
<1>6. ASSUME NEW u \in Urbs, NEW ep \in Endpoints, NEW req \in Requests(ep),
             Submit(u, ep, req)
      PROVE  Goal
  BY <1>0, <1>1, <1>6 DEF Submit, ringVars
<1>7. ASSUME NEW r \in ConfigureRequests, Configure(r) PROVE Goal
  BY <1>0, <1>1, <1>7 DEF Configure, OthersOfCfg, ringVars
<1>8. CASE ConfigureStep
  BY <1>0, <1>1, <1>8 DEF ConfigureStep, ReleaseEndpoint, VdsAssignFreshEndpointQueue,
     EventStep, CompleteConfigure, OthersOfCfg, ringVars
<1>9. CASE Control
  <2>1. UNCHANGED <<ring, sent>>
    BY <1>9, ControlLeaves
  <2>2. rd' \in ReaderType
    <3>1. [st |-> "ask", want |-> 1, part |-> "header"] \in ReaderType
      BY DEF ReaderType
    <3>2. ASSUME NEW x \in {"off", "parked"}
          PROVE  [rd EXCEPT !.st = x] \in ReaderType
      BY <1>0 DEF ReaderType
    <3>3. \/ rd' = rd \/ rd' = [st |-> "ask", want |-> 1, part |-> "header"]
          \/ rd' = [rd EXCEPT !.st = "off"] \/ rd' = [rd EXCEPT !.st = "parked"]
      BY <1>9 DEF Control, BindLock, UnbindLock, Cleanup, CleanupReset, BindPlug,
         BindUndo, UnbindUnplug, VdsEvtControlRead, CancelRead, WriteCheck, WriteStore
    <3> QED BY <1>0, <3>1, <3>2, <3>3
  <2> QED BY <1>1, <2>1, <2>2
<1>10. CASE UNCHANGED vars
  BY <1>0, <1>1, <1>10 DEF vars
<1> QED BY <1>2, <1>3, <1>4, <1>5, <1>6, <1>7, <1>8, <1>9, <1>10
        DEF Next, QueueFrameSteps

-----------------------------------------------------------------------------
(* The microphone ring.                                                    *)

(* It holds numbered units without a gap, of the session in force unless a *)
(* bind has yet to reset it; the write in progress is of that session too. *)
MicInv ==
  /\ \A i \in 0 .. audio.size - 1 :
       LET k == At(audio, AudioSize, i)
       IN  /\ k \in MicUnit /\ k.no = mic - audio.size + 1 + i
           /\ ctl.at # "plug" => k.of = session
  /\ ctl.at = "store" => ctl.of = session

AudioTypes == audio \in RingType(AudioSize, MicUnit) /\ mic \in Nat

(* An empty microphone ring is in order.                                   *)
LEMMA MicReset ==
  ASSUME AudioTypes, audio' = VdsResetAudioInPcm(audio), mic' = mic,
         ctl'.at = "store" => ctl'.of = session'
  PROVE  AudioTypes' /\ MicInv'
<1>1. audio' \in RingType(AudioSize, MicUnit) /\ audio'.size = 0
  BY UsbAssumption, RingReset DEF AudioTypes
<1>2. \A i \in 0 .. audio'.size - 1 : FALSE
  BY <1>1
<1> QED BY <1>1, <1>2 DEF MicInv, AudioTypes

(* A packet of the host takes the oldest unit.                             *)
LEMMA MicTaken ==
  ASSUME AudioTypes, MicInv, audio' = VdsCopyAudioInPcm(audio, AudioSize),
         UNCHANGED <<mic, ctl, session>>
  PROVE  AudioTypes' /\ MicInv'
<1> DEFINE N == AudioSize
           U == MicUnit
           count == Least(1, audio.size)
<1>1. audio \in RingType(N, U) /\ N \in Nat \ {0} /\ mic \in Nat
  BY UsbAssumption DEF AudioTypes
<1>2. audio.size \in 0 .. N
  BY <1>1 DEF RingType
<1> HIDE DEF N, U
<1>3. audio' = VdsControlRingReadLocked(audio, N, 1)
  BY DEF VdsCopyAudioInPcm, N
<1>4. /\ audio' \in RingType(N, U) /\ audio'.size = audio.size - count
      /\ count \in 0 .. audio.size
      /\ \A i \in 0 .. audio.size - count - 1 :
            At(audio', N, i) = At(audio, N, count + i)
  <2> DEFINE n == 1
             w == VdsControlRingReadLocked(audio, N, n)
             c == Least(n, audio.size)
  <2>1. n \in Nat
    OBVIOUS
  <2> HIDE DEF n
  <2>2. /\ w \in RingType(N, U) /\ w.size = audio.size - c
        /\ c \in 0 .. audio.size
        /\ \A i \in 0 .. audio.size - c - 1 : At(w, N, i) = At(audio, N, c + i)
    BY <1>1, <2>1, RingRead, ZenonT(30)
  <2> HIDE DEF w
  <2>3. audio' = w /\ c = count
    BY <1>3 DEF w, n
  <2> QED BY <2>2, <2>3
<1> HIDE DEF count
<1>5. ASSUME NEW i \in 0 .. audio'.size - 1
      PROVE  LET k == At(audio', N, i)
             IN  /\ k \in MicUnit /\ k.no = mic' - audio'.size + 1 + i
                 /\ ctl'.at # "plug" => k.of = session'
  <2> DEFINE j == count + i
  <2>1. i \in 0 .. audio.size - count - 1 /\ j \in 0 .. audio.size - 1
    BY <1>2, <1>4
  <2>2. At(audio', N, i) = At(audio, N, j)
    BY <1>4, <2>1
  <2>3. mic' - audio'.size + 1 + i = mic - audio.size + 1 + j
    BY <1>1, <1>2, <1>4
  <2> HIDE DEF j
  <2>4. LET k == At(audio, N, j)
        IN  /\ k \in MicUnit /\ k.no = mic - audio.size + 1 + j
            /\ ctl.at # "plug" => k.of = session
    BY <2>1 DEF MicInv, N
  <2> QED BY <2>2, <2>3, <2>4
<1> QED BY <1>1, <1>4, <1>5 DEF MicInv, AudioTypes, N, U

(* A write appends units of its session, dropping the oldest ones.         *)
LEMMA MicStored ==
  ASSUME AudioTypes, MicInv, session \in Nat, ctl.at = "store", ctl' = Idle,
         session' = session, NEW n \in 1 .. AudioSize + 1, mic' = mic + n,
         audio' = VdsAudioInRingWriteLocked(audio, AudioSize,
                    [k \in 1 .. n |-> [no |-> mic + k, of |-> ctl.of]])
  PROVE  AudioTypes' /\ MicInv'
<1> DEFINE N == AudioSize
           U == MicUnit
           units == [k \in 1 .. n |-> [no |-> mic + k, of |-> ctl.of]]
           w == VdsAudioInRingWriteLocked(audio, N, units)
           new == Least(n, N)
<1>1. audio \in RingType(N, U) /\ N \in Nat \ {0} /\ mic \in Nat /\ n \in Nat
  BY UsbAssumption DEF AudioTypes
<1>2. audio.size \in 0 .. N
  BY <1>1 DEF RingType
<1>3. ctl.of = session
  BY DEF MicInv
<1>4. /\ units \in Seq(U) /\ Len(units) = n
      /\ \A k \in 1 .. n : /\ units[k] \in U /\ units[k].no = mic + k
                           /\ units[k].of = session
  <2> DEFINE unit(k) == [no |-> mic + k, of |-> ctl.of]
  <2>1. \A k \in 1 .. n : /\ unit(k) \in U /\ unit(k).no = mic + k
                          /\ unit(k).of = session
    <3> SUFFICES ASSUME NEW k \in 1 .. n
                 PROVE  /\ unit(k) \in U /\ unit(k).no = mic + k
                        /\ unit(k).of = session
      OBVIOUS
    <3>1. mic + k \in Nat
      BY <1>1
    <3> QED BY <1>3, <3>1 DEF MicUnit
  <2>2. units = [k \in 1 .. n |-> unit(k)]
    OBVIOUS
  <2> HIDE DEF unit, units, U
  <2> QED BY <1>1, <2>1, <2>2
<1> HIDE DEF N, U, units, w
<1>5. /\ w \in RingType(N, U)
      /\ \E old \in 0 .. audio.size :
           /\ w.size = old + new /\ (old > 0 => new = n)
           /\ \A i \in 0 .. old - 1 : At(w, N, i) = At(audio, N, audio.size - old + i)
           /\ \A i \in 0 .. new - 1 : At(w, N, old + i) = units[n - new + i + 1]
  <2>1. units \in Seq(U) /\ Len(units) = n
    BY <1>4
  <2>2. w \in RingType(N, U) /\ NewestKept(w, audio, N, units)
    BY <1>1, <2>1, MicWrite DEF w
  <2> QED BY <2>1, <2>2 DEF NewestKept
<1>6. new \in 0 .. n
  BY <1>1 DEF Least
<1> HIDE DEF new
<1>7. PICK old \in 0 .. audio.size :
           /\ w.size = old + new /\ (old > 0 => new = n)
           /\ \A i \in 0 .. old - 1 : At(w, N, i) = At(audio, N, audio.size - old + i)
           /\ \A i \in 0 .. new - 1 : At(w, N, old + i) = units[n - new + i + 1]
  BY <1>5
<1>8. audio' = w
  BY DEF w, N, units
<1>9. ASSUME NEW i \in 0 .. w.size - 1
      PROVE  LET k == At(w, N, i)
             IN  k \in U /\ k.no = mic' - w.size + 1 + i /\ k.of = session
  <2>1. CASE i < old
    <3> DEFINE j == audio.size - old + i
    <3>1. j \in 0 .. audio.size - 1 /\ i \in 0 .. old - 1
      BY <1>2, <1>6, <1>7, <2>1
    <3>2. mic - audio.size + 1 + j = mic' - w.size + 1 + i
      <4> DEFINE held == audio.size
                 size == w.size
      <4>1. new = n /\ size = old + n /\ held \in Nat /\ mic' = mic + n
        BY <1>2, <1>6, <1>7, <2>1
      <4>2. j = held - old + i
        OBVIOUS
      <4> HIDE DEF held, size, j
      <4>3. mic - held + 1 + j = mic' - size + 1 + i
        BY <1>1, <4>1, <4>2
      <4> QED BY <4>3 DEF held, size
    <3>3. At(w, N, i) = At(audio, N, j)
      BY <1>7, <3>1
    <3> HIDE DEF j
    <3>4. LET k == At(audio, N, j)
          IN  k \in U /\ k.no = mic - audio.size + 1 + j /\ k.of = session
      BY <3>1 DEF MicInv, N, U
    <3> QED BY <3>2, <3>3, <3>4
  <2>2. CASE i >= old
    <3> DEFINE j == i - old
               p == n - new + j + 1
    <3>1. j \in 0 .. new - 1 /\ p \in 1 .. n /\ old + j = i
      BY <1>1, <1>6, <1>7, <2>2
    <3>2. mic + p = mic' - w.size + 1 + i
      BY <1>1, <1>6, <1>7, <3>1
    <3>3. At(w, N, old + j) = units[p]
      BY <1>7, <3>1
    <3> HIDE DEF j, p
    <3> QED BY <1>4, <3>1, <3>2, <3>3
  <2> QED BY <1>6, <1>7, <2>1, <2>2
<1>10. mic' \in Nat /\ ctl'.at # "store"
  BY <1>1 DEF Idle
<1> QED BY <1>5, <1>8, <1>9, <1>10 DEF MicInv, AudioTypes, N, U

(* No step puts the microphone ring out of order.                          *)
LEMMA MicStep ==
  ASSUME PortTypes, AudioTypes, MicInv, [Next]_vars
  PROVE  AudioTypes' /\ MicInv'
<1> DEFINE Goal == AudioTypes' /\ MicInv'
<1>1. ASSUME UNCHANGED <<audio, mic>>, ctl'.at # "plug" => ctl.at # "plug" /\ session' = session,
             ctl'.at = "store" => ctl'.of = session'
      PROVE  Goal
  BY <1>1 DEF AudioTypes, MicInv, At
<1>2. ASSUME UNCHANGED <<audio, mic, ctl, session>>
      PROVE  Goal
  BY <1>2 DEF AudioTypes, MicInv, At
<1>3. ASSUME NEW f \in Files, NEW p \in Profiles, BindLock(f, p) PROVE Goal
  <2>1. CASE UNCHANGED <<session, ctl>>
    BY <1>2, <1>3, <2>1 DEF BindLock, dataVars
  <2>2. CASE ctl' = [at |-> "plug", file |-> f]
    <3>1. ctl'.at = "plug"
      BY <2>2
    <3> QED BY <1>1, <1>3, <3>1 DEF BindLock, dataVars
  <2> QED BY <1>3, <2>1, <2>2 DEF BindLock
<1>4. ASSUME NEW f \in Files, UnbindLock(f) PROVE Goal
  <2>1. CASE UNCHANGED ctl
    BY <1>2, <1>4, <2>1 DEF UnbindLock, dataVars
  <2>2. CASE ctl' = [at |-> "unplug", file |-> f]
    <3>1. ctl'.at = "unplug" /\ ctl.at = "none"
      BY <1>4, <2>2 DEF UnbindLock, CtlFree, Idle
    <3> QED BY <1>1, <1>4, <3>1 DEF UnbindLock, dataVars
  <2> QED BY <1>4, <2>1, <2>2 DEF UnbindLock
<1>5. ASSUME NEW f \in Files, Cleanup(f) PROVE Goal
  BY <1>2, <1>5 DEF Cleanup, dataVars
<1>6. ASSUME NEW f \in Files, CleanupReset(f) PROVE Goal
  BY <1>6, MicReset DEF CleanupReset, MicInv
<1>7. CASE BindPlug
  <2>1. ctl'.at # "store"
    <3>1. ctl \in [at : {"plug", "undo", "unplug"}, file : Files]
      BY <1>7 DEF BindPlug, PortTypes, CtlType, Idle
    <3>2. Idle.at = "none" /\ [ctl EXCEPT !.at = "undo"].at = "undo"
      BY <3>1 DEF Idle
    <3> QED BY <1>7, <3>2 DEF BindPlug
  <2> QED BY <1>7, <2>1, MicReset DEF BindPlug
<1>8. CASE BindUndo
  BY <1>1, <1>8 DEF BindUndo, Idle, dataVars
<1>9. CASE UnbindUnplug
  BY <1>9, MicReset DEF UnbindUnplug, Idle
<1>10. CASE VdsEvtControlRead \/ CancelRead
  BY <1>2, <1>10 DEF VdsEvtControlRead, CancelRead, portVars, dataVars
<1>11. ASSUME NEW type \in {"feature_reply", "audio_in"}, WriteCheck(type) PROVE Goal
  <2>1. ctl' = [at |-> "store", type |-> type, of |-> session]
        /\ UNCHANGED <<audio, mic, session>> /\ ctl.at = "none"
    BY <1>11 DEF WriteCheck, CtlFree, Idle, portVars, dataVars
  <2>2. ctl'.at = "store" /\ ctl'.of = session'
    BY <2>1
  <2> QED BY <1>1, <2>1, <2>2
<1>12. CASE WriteStore
  <2>1. session \in Nat
    BY DEF PortTypes
  <2>2. CASE UNCHANGED <<audio, mic>>
    BY <1>1, <1>12, <2>2 DEF WriteStore, Idle, portVars
  <2>3. ASSUME NEW n \in 1 .. AudioSize + 1, mic' = mic + n,
               audio' = VdsAudioInRingWriteLocked(audio, AudioSize,
                          [k \in 1 .. n |-> [no |-> mic + k, of |-> ctl.of]])
        PROVE  Goal
    BY <1>12, <2>1, <2>3, MicStored DEF WriteStore, portVars
  <2> QED BY <1>12, <2>2, <2>3 DEF WriteStore
<1>13. ASSUME NEW u \in Urbs, VdsEvtIsoInUrb(u) PROVE Goal
  <2>1. CASE UNCHANGED audio
    BY <1>2, <1>13, <2>1 DEF VdsEvtIsoInUrb, OthersOfUrb, portVars
  <2>2. CASE audio' = VdsCopyAudioInPcm(audio, AudioSize)
    BY <1>13, <2>2, MicTaken DEF VdsEvtIsoInUrb, OthersOfUrb, portVars
  <2> QED BY <1>13, <2>1, <2>2 DEF VdsEvtIsoInUrb
<1>14. ASSUME NEW u \in Urbs, UrbStep(u), ~VdsEvtIsoInUrb(u) PROVE Goal
  <2>1. UNCHANGED <<audio, mic, ctl, session>>
    BY <1>14 DEF UrbStep, VdsEvtControlUrb, VdsEvtHidOutUrb,
       VdsEvtIsoOutUrb, VdsEvtHidInUrb, PublishTimer, StartTimer, TimerExpires,
       VdsEvtDelayedUrbCompletionTimer, VdsCompleteUrbAsync, Cancel, OthersOfUrb,
       portVars, dataVars
  <2> QED BY <1>2, <2>1
<1>15. CASE ~Control /\ ~\E u \in Urbs : UrbStep(u)
  <2>1. UNCHANGED <<ctl, session>>
    BY <1>15, PortKept DEF portVars
  <2>2. UNCHANGED <<audio, mic>>
    BY <1>15 DEF Next, QueueFrameSteps, VdsQueueFrame, CheckRing, TakeRead, Submit,
       Configure, ConfigureStep, ReleaseEndpoint, VdsAssignFreshEndpointQueue,
       EventStep, CompleteConfigure, OthersOfCfg, dataVars, vars
  <2> QED BY <1>2, <2>1, <2>2
<1>16. CASE Control
  BY <1>3, <1>4, <1>5, <1>6, <1>7, <1>8, <1>9, <1>10, <1>11, <1>12, <1>16 DEF Control
<1> QED BY <1>13, <1>14, <1>15, <1>16 DEF Next

-----------------------------------------------------------------------------
(* Types and rings together.                                               *)

(* The cache flag and the budget of the environment keep their types.      *)
LEMMA BudgetStep ==
  ASSUME DataTypes, [Next]_vars
  PROVE  cached' \in BOOLEAN /\ left' \in Nat
<1>0. cached \in BOOLEAN /\ left \in Nat
  BY DEF DataTypes
<1> DEFINE Spent == left' = left \/ (left > 0 /\ left' = left - 1)
<1>1. Spent
  <2> USE DEF OthersOfUrb
  <2>1. ASSUME NEW f \in Files, NEW p \in Profiles, BindLock(f, p) PROVE Spent
    BY <2>1 DEF BindLock
  <2>2. ASSUME NEW f \in Files, UnbindLock(f) PROVE Spent
    BY <2>2 DEF UnbindLock
  <2>3. ASSUME NEW f \in Files, Cleanup(f) \/ CleanupReset(f) PROVE Spent
    BY <2>3 DEF Cleanup, CleanupReset
  <2>4. CASE BindPlug \/ BindUndo \/ UnbindUnplug
    BY <2>4 DEF BindPlug, BindUndo, UnbindUnplug
  <2>5. CASE VdsEvtControlRead \/ CancelRead \/ WriteStore
    BY <2>5 DEF VdsEvtControlRead, CancelRead, WriteStore
  <2>6. ASSUME NEW type \in {"feature_reply", "audio_in"}, WriteCheck(type) PROVE Spent
    BY <2>6 DEF WriteCheck
  <2>7. ASSUME NEW t \in Threads, VdsQueueFrame(t) \/ CheckRing(t) \/ TakeRead(t)
        PROVE  left' = left
    <3>1. CASE VdsQueueFrame(t)
      BY <3>1 DEF VdsQueueFrame
    <3>2. CASE CheckRing(t)
      BY <3>2 DEF CheckRing
    <3>3. CASE TakeRead(t)
      BY <3>3 DEF TakeRead
    <3> QED BY <2>7, <3>1, <3>2, <3>3
  <2>8. ASSUME NEW u \in Urbs, UrbStep(u) PROVE left' = left
    BY <2>8 DEF UrbStep, VdsEvtControlUrb, VdsEvtHidOutUrb, VdsEvtIsoInUrb,
       VdsEvtIsoOutUrb, VdsEvtHidInUrb, PublishTimer, StartTimer, TimerExpires,
       VdsEvtDelayedUrbCompletionTimer, VdsCompleteUrbAsync, Cancel
  <2>9. ASSUME NEW e \in Iso, ReleaseEndpoint(e) PROVE left' = left
    BY <2>9 DEF ReleaseEndpoint
  <2>10. CASE VdsAssignFreshEndpointQueue
    BY <2>10 DEF VdsAssignFreshEndpointQueue
  <2>11. CASE EventStep \/ CompleteConfigure
    BY <2>11 DEF EventStep, CompleteConfigure
  <2>12. ASSUME NEW u \in Urbs, NEW ep \in Endpoints, NEW req \in Requests(ep),
                Submit(u, ep, req)
         PROVE  Spent
    BY <2>12 DEF Submit
  <2>13. ASSUME NEW r \in ConfigureRequests, Configure(r) PROVE Spent
    BY <2>13 DEF Configure
  <2>14. CASE UNCHANGED vars
    BY <2>14 DEF vars
  <2> HIDE DEF Spent
  <2>15. CASE left' = left
    BY <2>15 DEF Spent
  <2> QED BY <2>1, <2>2, <2>3, <2>4, <2>5, <2>6, <2>7, <2>8, <2>9, <2>10, <2>11, <2>12,
          <2>13, <2>14, <2>15 DEF Next, Control, QueueFrameSteps, ConfigureStep
<1>2. cached' = cached \/ cached' = TRUE
  <2> USE DEF dataVars, OthersOfCfg
  <2>1. CASE Control
    BY <2>1 DEF Control, BindLock, UnbindLock, Cleanup, CleanupReset, BindPlug,
       BindUndo, UnbindUnplug, VdsEvtControlRead, CancelRead, WriteCheck, WriteStore
  <2>2. CASE QueueFrameSteps
    BY <2>2 DEF QueueFrameSteps, VdsQueueFrame, CheckRing, TakeRead
  <2>3. ASSUME NEW u \in Urbs, UrbStep(u) PROVE cached' = cached \/ cached' = TRUE
    BY <2>3 DEF UrbStep, VdsEvtControlUrb, VdsEvtHidOutUrb, VdsEvtIsoInUrb,
       VdsEvtIsoOutUrb, VdsEvtHidInUrb, PublishTimer, StartTimer, TimerExpires,
       VdsEvtDelayedUrbCompletionTimer, VdsCompleteUrbAsync, Cancel
  <2>4. CASE ConfigureStep
    BY <2>4 DEF ConfigureStep, ReleaseEndpoint, VdsAssignFreshEndpointQueue,
       EventStep, CompleteConfigure
  <2> QED BY <2>1, <2>2, <2>3, <2>4 DEF Next, Submit, Configure, vars
<1>3. left' \in Nat
  BY <1>0, <1>1
<1>4. cached' \in BOOLEAN
  BY <1>0, <1>2
<1> QED BY <1>3, <1>4

TypeInv == TypeOK /\ RingInv /\ MicInv

(* A port just added has its types, and its rings are in order.            *)
LEMMA TypeInit ==
  ASSUME Init
  PROVE  TypeInv
<1>1. Gone("free", 0) \in UrbType
  BY DEF Gone, UrbType, UrbStates, Endpoints, Requests
<1>2. Idle \in CtlType /\ Idle \in CfgType /\ Idle \in Places
  BY DEF CtlType, CfgType, Places
<1>3. \A N \in Nat \ {0} : \A U :
        EmptyRing(N) \in RingType(N, U) /\ EmptyRing(N).size = 0
  <2> SUFFICES ASSUME NEW N \in Nat \ {0}, NEW U
               PROVE  EmptyRing(N) \in RingType(N, U) /\ EmptyRing(N).size = 0
    OBVIOUS
  <2>1. 0 \in 0 .. N - 1 /\ 0 \in 0 .. N
    OBVIOUS
  <2> QED BY <2>1 DEF EmptyRing, RingType
<1>4. PortTypes
  BY <1>2 DEF Init, PortTypes, NoChild
<1>5. UrbTypes
  BY <1>1, <1>2 DEF Init, UrbTypes
<1>6. /\ ring \in RingType(RingSize, FrameUnit) /\ ring.size = 0
      /\ audio \in RingType(AudioSize, MicUnit) /\ audio.size = 0
  BY <1>3, UsbAssumption DEF Init
<1>7. DataTypes
  BY <1>6, UsbAssumption DEF Init, DataTypes
<1>8. RingInv /\ MicInv
  BY <1>6 DEF RingInv, MicInv, Init, Idle
<1> QED BY <1>4, <1>5, <1>7, <1>8 DEF TypeInv, TypeOK

(* Every step keeps both.                                                  *)
LEMMA TypeStep ==
  ASSUME TypeInv, [Next]_vars
  PROVE  TypeInv'
<1>1. PortTypes' /\ UrbTypes'
  BY PortTypeStep, UrbTypeStep DEF TypeInv, TypeOK
<1>2. /\ ring' \in RingType(RingSize, FrameUnit) /\ sent' \in Nat
      /\ RingInv' /\ rd' \in ReaderType
  BY RingStep DEF TypeInv, TypeOK
<1>3. AudioTypes' /\ MicInv'
  BY MicStep DEF TypeInv, TypeOK, AudioTypes, DataTypes
<1>4. cached' \in BOOLEAN /\ left' \in Nat
  BY BudgetStep DEF TypeInv, TypeOK
<1>5. DataTypes'
  BY <1>2, <1>3, <1>4 DEF DataTypes, AudioTypes, ReaderType
<1> QED BY <1>1, <1>2, <1>3, <1>5 DEF TypeInv, TypeOK

(* The state of the port, the URBs, the threads and the two rings has its  *)
(* types, for every number of URBs and every size of the rings.            *)
THEOREM Typing == Spec => []TypeOK
<1>1. TypeInv => TypeOK
  BY DEF TypeInv
<1> QED BY <1>1, TypeInit, TypeStep, PTL DEF Spec

(* The control ring is a queue: what VdsControlRingWriteLocked accepted    *)
(* and ...ReadLocked has not returned, each unit once and in order,        *)
(* wherever the wrap falls and however many units a frame or a read has.   *)
THEOREM ControlRingFifo == Spec => []RingIsFifo
<1>1. TypeInv => RingIsFifo
  BY DEF TypeInv, RingInv, RingIsFifo, At
<1> QED BY <1>1, TypeInit, TypeStep, PTL DEF Spec

(* The microphone ring holds the newest samples in order and, once a bind  *)
(* has returned, none that VdsEvtControlWrite stored for an earlier one.   *)
THEOREM MicrophoneFresh == Spec => []MicIsFresh
<1>1. TypeInv => MicIsFresh
  BY DEF TypeInv, MicInv, MicIsFresh, At
<1> QED BY <1>1, TypeInit, TypeStep, PTL DEF Spec

-----------------------------------------------------------------------------
(* The life of a URB.                                                      *)

(* A URB is completed once, its frame is accepted at most once, and its    *)
(* thread is in VdsQueueFrame only between the two: not before the URB has *)
(* nothing but its completion left, and not after it.                      *)
LifeOf(u) ==
  /\ urb[u].done = IF urb[u].st = "done" THEN 1 ELSE 0
  /\ urb[u].st \notin {"finish", "done"} => pc[u] = Idle /\ handed[u] = 0
  /\ urb[u].st = "done" => pc[u] = Idle
  /\ pc[u].at = "frame" => handed[u] = 0
  /\ handed[u] \in {0, 1}

UrbInv == \A u \in Urbs : LifeOf(u)

(* A URB that nothing happens to.                                          *)
LEMMA LifeKept ==
  ASSUME NEW u \in Urbs, LifeOf(u), urb'[u].st = urb[u].st,
         urb'[u].done = urb[u].done, pc'[u] = pc[u], handed'[u] = handed[u]
  PROVE  LifeOf(u)'
  BY DEF LifeOf

(* A URB that moves on or is given back.                                   *)
LEMMA LifeMoves ==
  ASSUME UrbTypes, UrbInv, NEW u \in Urbs, Advance(u) \/ GiveBack(u), handed' = handed
  PROVE  UrbInv'
<1>0. urb \in [Urbs -> UrbType] /\ pc \in [Threads -> Places] /\ Urbs \subseteq Threads
  BY DEF UrbTypes, Threads
<1>1. ASSUME NEW v \in Urbs, v # u PROVE LifeOf(v)'
  <2>1. urb'[v] = urb[v] /\ pc'[v] = pc[v]
    BY <1>0, <1>1 DEF Advance, GiveBack, Queues
  <2> QED BY <2>1, LifeKept DEF UrbInv
<1> SUFFICES LifeOf(u)'
  BY <1>1 DEF UrbInv
<1>2. CASE Advance(u)
  <2>1. PICK x \in UrbType :
          /\ urb' = [urb EXCEPT ![u] = x] /\ x.done = urb[u].done
          /\ \/ x.st = urb[u].st /\ pc' = pc
             \/ /\ urb[u].st \in InHand
                /\ x.st \in {"delay", "unstarted", "armed", "expired", "finish"}
                /\ \/ pc' = pc
                   \/ x.st = "finish" /\ \E n \in {1, 2} : Queues(u, Frame(n, <<>>))
    BY <1>2 DEF Advance
  <2>2. urb'[u] = x
    BY <1>0, <2>1
  <2>3. CASE x.st = urb[u].st /\ pc' = pc
    BY <2>1, <2>2, <2>3, LifeKept DEF UrbInv
  <2>4. CASE /\ urb[u].st \in InHand
             /\ x.st \in {"delay", "unstarted", "armed", "expired", "finish"}
             /\ \/ pc' = pc
                \/ x.st = "finish" /\ \E n \in {1, 2} : Queues(u, Frame(n, <<>>))
    <3>1. urb[u].done = 0 /\ pc[u] = Idle /\ handed[u] = 0
      BY <2>4 DEF UrbInv, LifeOf, InHand
    <3>2. pc'[u] = Idle \/ x.st = "finish"
      BY <2>4, <3>1
    <3> QED BY <2>1, <2>2, <2>4, <3>1, <3>2 DEF LifeOf
  <2> QED BY <2>1, <2>3, <2>4
<1>3. CASE GiveBack(u)
  <2>1. /\ Gone("done", urb[u].done + 1).st = "done"
        /\ Gone("done", urb[u].done + 1).done = urb[u].done + 1
        /\ Gone("cancelled", 0).st = "cancelled" /\ Gone("cancelled", 0).done = 0
    BY DEF Gone
  <2>2. CASE urb[u].st = "finish" /\ pc[u] = Idle
             /\ urb' = [urb EXCEPT ![u] = Gone("done", urb[u].done + 1)]
    <3>1. urb[u].done = 0 /\ handed[u] \in {0, 1}
      BY <2>2 DEF UrbInv, LifeOf
    <3>2. urb'[u].st = "done" /\ urb'[u].done = 1 /\ pc'[u] = Idle
      BY <1>0, <1>3, <2>1, <2>2, <3>1 DEF GiveBack
    <3>3. pc'[u].at # "frame"
      BY <3>2, PlaceKinds
    <3> QED BY <3>1, <3>2, <3>3 DEF LifeOf
  <2>3. CASE urb[u].st = "queued" /\ urb' = [urb EXCEPT ![u] = Gone("cancelled", 0)]
    <3>1. pc[u] = Idle /\ handed[u] = 0
      BY <2>3 DEF UrbInv, LifeOf
    <3>2. urb'[u].st = "cancelled" /\ urb'[u].done = 0 /\ pc'[u] = Idle
      BY <1>0, <1>3, <2>1, <2>3, <3>1 DEF GiveBack
    <3> QED BY <3>1, <3>2 DEF LifeOf
  <2> QED BY <1>3, <2>2, <2>3 DEF GiveBack
<1> QED BY <1>2, <1>3

(* A thread inside VdsQueueFrame or its loop.                              *)
LEMMA LifeQueues ==
  ASSUME UrbTypes, UrbInv, NEW t \in Threads, UNCHANGED urb,
         \/ VdsQueueFrame(t)
         \/ CheckRing(t) \/ TakeRead(t)
  PROVE  UrbInv'
<1>0. /\ pc \in [Threads -> Places] /\ handed \in [Urbs -> Nat]
      /\ Urbs \subseteq Threads
  BY DEF UrbTypes, Threads
<1>1. ASSUME NEW v \in Urbs, v # t PROVE LifeOf(v)'
  <2>1. pc'[v] = pc[v]
    BY <1>0, <1>1 DEF VdsQueueFrame, CheckRing, TakeRead
  <2>2. handed'[v] = handed[v]
    BY <1>0, <1>1 DEF VdsQueueFrame, CheckRing, TakeRead, ringVars
  <2> QED BY <2>1, <2>2, LifeKept DEF UrbInv
<1>2. CASE t \in Urbs
  <2>1. pc[t].at \in {"frame", "check", "take"}
    BY DEF VdsQueueFrame, CheckRing, TakeRead
  <2>2. urb[t].st = "finish" /\ handed[t] \in {0, 1} /\ urb[t].done = 0
        /\ (pc[t].at = "frame" => handed[t] = 0)
    BY <1>2, <2>1, PlaceKinds DEF UrbInv, LifeOf
  <2>3. pc'[t] \in {Idle, [at |-> "check"], [at |-> "take"]}
    BY <1>0 DEF VdsQueueFrame, CheckRing, TakeRead
  <2>4. pc'[t].at # "frame"
    BY <2>3, PlaceKinds
  <2>5. handed'[t] \in {0, 1}
    <3>1. CASE VdsQueueFrame(t)
      BY <1>0, <1>2, <2>2, <3>1 DEF VdsQueueFrame, ringVars
    <3>2. CASE CheckRing(t) \/ TakeRead(t)
      BY <2>2, <3>2 DEF CheckRing, TakeRead, ringVars
    <3> QED BY <3>1, <3>2
  <2>6. LifeOf(t)'
    BY <2>2, <2>4, <2>5 DEF LifeOf
  <2> QED BY <1>1, <2>6 DEF UrbInv
<1>3. CASE t \notin Urbs
  BY <1>1, <1>3 DEF UrbInv
<1> QED BY <1>2, <1>3

(* No step gives a URB back twice or loses it.                             *)
LEMMA UrbInvStep ==
  ASSUME UrbTypes, UrbInv, [Next]_vars
  PROVE  UrbInv'
<1>0. /\ urb \in [Urbs -> UrbType] /\ pc \in [Threads -> Places]
      /\ Urbs \subseteq Threads /\ "ctl" \notin Urbs /\ "cfg" \notin Urbs
  BY UsbAssumption DEF UrbTypes, Threads
<1>1. ASSUME \A u \in Urbs : /\ urb'[u].st = urb[u].st /\ urb'[u].done = urb[u].done
                             /\ pc'[u] = pc[u] /\ handed'[u] = handed[u]
      PROVE  UrbInv'
  BY <1>1, LifeKept DEF UrbInv
<1>2. CASE Control
  <2>1. \A u \in Urbs : pc'[u] = pc[u] /\ handed'[u] = handed[u]
    BY <1>0, <1>2, ControlLeaves
  <2>2. \A u \in Urbs : urb'[u].st = urb[u].st /\ urb'[u].done = urb[u].done
    BY <1>2, ControlLeaves, ReplacedKeeps
  <2> QED BY <1>1, <2>1, <2>2
<1>3. ASSUME NEW t \in Threads, VdsQueueFrame(t) \/ CheckRing(t) \/ TakeRead(t)
      PROVE  UrbInv'
  BY <1>3, LifeQueues DEF VdsQueueFrame, CheckRing, TakeRead
<1>4. ASSUME NEW u \in Urbs, UrbStep(u) PROVE UrbInv'
  BY <1>0, <1>4, UrbMove, LifeMoves
<1>5. ASSUME NEW u \in Urbs, NEW ep \in Endpoints, NEW req \in Requests(ep),
             Submit(u, ep, req)
      PROVE  UrbInv'
  <2> DEFINE x == [st |-> "queued", ep |-> ep, req |-> req,
                   pub |-> FALSE, old |-> FALSE, done |-> 0]
  <2>1. x.st = "queued" /\ x.done = 0
    OBVIOUS
  <2>2. /\ urb[u].st = "free" /\ urb' = [urb EXCEPT ![u] = x]
        /\ UNCHANGED <<pc, handed>>
    BY <1>5 DEF Submit, ringVars
  <2> HIDE DEF x
  <2>3. LifeOf(u)'
    <3>1. pc[u] = Idle /\ handed[u] = 0
      BY <2>2 DEF UrbInv, LifeOf
    <3>2. urb'[u].st = "queued" /\ urb'[u].done = 0
      BY <1>0, <2>1, <2>2
    <3> QED BY <2>2, <3>1, <3>2 DEF LifeOf, Idle
  <2>4. ASSUME NEW v \in Urbs, v # u PROVE LifeOf(v)'
    <3>1. urb'[v] = urb[v]
      BY <1>0, <2>2, <2>4
    <3> QED BY <2>2, <3>1, LifeKept DEF UrbInv
  <2> QED BY <2>3, <2>4 DEF UrbInv
<1>6. ASSUME NEW r \in ConfigureRequests, Configure(r) PROVE UrbInv'
  BY <1>1, <1>6 DEF Configure, OthersOfCfg, ringVars
<1>7. ASSUME NEW e \in Iso, ReleaseEndpoint(e) PROVE UrbInv'
  BY <1>1, <1>7, FlushMove, LifeMoves
<1>8. CASE VdsAssignFreshEndpointQueue
  BY <1>1, <1>8, AssignMove
<1>9. CASE EventStep
  <2>1. UNCHANGED <<urb, handed>>
    BY <1>9 DEF EventStep, OthersOfCfg, ringVars
  <2>2. pc' = pc \/ \E f : pc' = [pc EXCEPT !["cfg"] = f]
    BY <1>9 DEF EventStep, EventOf, Event
  <2>3. \A u \in Urbs : pc'[u] = pc[u]
    BY <1>0, <2>2
  <2> QED BY <1>1, <2>1, <2>3
<1>10. CASE CompleteConfigure
  BY <1>1, <1>10 DEF CompleteConfigure, OthersOfCfg, ringVars
<1>11. CASE UNCHANGED vars
  BY <1>1, <1>11 DEF vars
<1> QED BY <1>2, <1>3, <1>4, <1>5, <1>6, <1>7, <1>8, <1>9, <1>10, <1>11
        DEF Next, QueueFrameSteps, ConfigureStep

(* At the start no URB has been submitted.                                 *)
LEMMA UrbInvInit ==
  ASSUME Init
  PROVE  UrbInv
<1>1. Gone("free", 0).st = "free" /\ Gone("free", 0).done = 0
  BY DEF Gone
<1>2. ASSUME NEW u \in Urbs
      PROVE  urb[u].st = "free" /\ urb[u].done = 0 /\ pc[u] = Idle /\ handed[u] = 0
  BY <1>1 DEF Init, Threads
<1> QED BY <1>2 DEF UrbInv, LifeOf, Idle

-----------------------------------------------------------------------------
(* Parked reads are served.                                                *)

(* No step leaves a read parked beside data with no thread to serve it.    *)
LEMMA StrandedStep ==
  ASSUME TypeOK, UrbInv, RingInv, NoStrandedRead, [Next]_vars
  PROVE  NoStrandedRead'
<1> DEFINE Serving == \E t \in Threads : pc[t].at \in {"check", "take"}
           Waiting == rd.st = "parked" /\ ring.size > 0
<1>0. /\ pc \in [Threads -> Places] /\ Urbs \subseteq Threads
      /\ "ctl" \in Threads /\ "cfg" \in Threads
  BY DEF TypeOK, UrbTypes, Threads
<1>1. ASSUME UNCHANGED <<rd, ring>>, Serving => Serving'
      PROVE  NoStrandedRead'
  BY <1>1 DEF NoStrandedRead
<1>2. ASSUME NEW t \in Threads, NEW p, pc[t] = Idle, pc' = [pc EXCEPT ![t] = p]
      PROVE  Serving => Serving'
  <2> SUFFICES ASSUME NEW v \in Threads, pc[v].at \in {"check", "take"}
               PROVE  pc'[v].at \in {"check", "take"}
    OBVIOUS
  <2>1. v # t
    BY <1>2, PlaceKinds
  <2> QED BY <1>0, <1>2, <2>1
<1>3. CASE Control
  <2>1. Serving => Serving'
    BY <1>0, <1>2, <1>3, ControlLeaves
  <2>2. CASE UNCHANGED rd
    BY <1>1, <1>3, <2>1, <2>2, ControlLeaves
  <2>3. CASE rd'.st # "parked"
    BY <2>3 DEF NoStrandedRead
  <2>4. CASE VdsEvtControlRead
    <3>1. CASE port.bound
      <4>1. pc'["ctl"] = [at |-> "check"]
        BY <1>0, <2>4, <3>1 DEF VdsEvtControlRead
      <4> QED BY <1>0, <4>1, PlaceKinds DEF NoStrandedRead
    <3>2. CASE ~port.bound
      <4>1. rd' = [rd EXCEPT !.st = "off"] /\ rd \in ReaderType
        BY <2>4, <3>2 DEF VdsEvtControlRead, TypeOK, DataTypes, ReaderType
      <4>2. rd'.st = "off"
        BY <4>1 DEF ReaderType
      <4> QED BY <2>3, <4>2
    <3> QED BY <3>1, <3>2
  <2>5. CASE CancelRead
    <3>1. rd' = [rd EXCEPT !.st = "off"] /\ rd \in ReaderType
      BY <2>5 DEF CancelRead, TypeOK, DataTypes, ReaderType
    <3>2. rd'.st = "off"
      BY <3>1 DEF ReaderType
    <3> QED BY <2>3, <3>2
  <2>6. CASE BindPlug
    <3>1. rd' = rd \/ rd' = [st |-> "ask", want |-> 1, part |-> "header"]
      BY <2>6 DEF BindPlug
    <3> QED BY <2>2, <2>3, <3>1
  <2>7. CASE ~VdsEvtControlRead /\ ~CancelRead /\ ~BindPlug
    <3>1. UNCHANGED rd
      BY <1>3, <2>7 DEF Control, BindLock, UnbindLock, Cleanup, CleanupReset,
         BindUndo, UnbindUnplug, WriteCheck, WriteStore
    <3> QED BY <2>2, <3>1
  <2> QED BY <2>4, <2>5, <2>6, <2>7
<1>4. ASSUME NEW t \in Threads, VdsQueueFrame(t) PROVE NoStrandedRead'
  <2>1. CASE pc'[t] = [at |-> "check"]
    BY <2>1, PlaceKinds DEF NoStrandedRead
  <2>2. CASE pc'[t] # [at |-> "check"]
    <3>1. UNCHANGED <<rd, ring>>
      BY <1>0, <1>4, <2>2 DEF VdsQueueFrame, ringVars
    <3>2. Serving => Serving'
      <4> SUFFICES ASSUME NEW v \in Threads, pc[v].at \in {"check", "take"}
                   PROVE  pc'[v].at \in {"check", "take"}
        OBVIOUS
      <4>1. v # t
        BY <1>4 DEF VdsQueueFrame
      <4> QED BY <1>0, <1>4, <4>1 DEF VdsQueueFrame
    <3> QED BY <1>1, <3>1, <3>2
  <2> QED BY <2>1, <2>2
<1>5. ASSUME NEW t \in Threads, CheckRing(t) PROVE NoStrandedRead'
  <2>1. CASE ring.size = 0
    BY <1>5, <2>1 DEF CheckRing, ringVars, NoStrandedRead
  <2>2. CASE ring.size # 0
    <3>1. pc'[t] = [at |-> "take"]
      BY <1>0, <1>5, <2>2 DEF CheckRing
    <3> QED BY <3>1, PlaceKinds DEF NoStrandedRead
  <2> QED BY <2>1, <2>2
<1>6. ASSUME NEW t \in Threads, TakeRead(t) PROVE NoStrandedRead'
  <2>1. rd'.st # "parked"
    <3>1. CASE rd.st = "parked"
      BY <1>6, <3>1, ReadServed DEF TakeRead, TypeOK
    <3>2. CASE rd.st # "parked"
      BY <1>6, <3>2 DEF TakeRead
    <3> QED BY <3>1, <3>2
  <2> QED BY <2>1 DEF NoStrandedRead
<1>7. ASSUME NEW u \in Urbs, Advance(u) \/ GiveBack(u)
      PROVE  Serving => Serving'
  <2>1. CASE pc' = pc
    BY <2>1
  <2>2. CASE pc' # pc
    <3>1. urb[u].st \in InHand /\ \E n \in {1, 2} : pc' = [pc EXCEPT ![u] = Frame(n, <<>>)]
      BY <1>7, <2>2 DEF Advance, GiveBack, Queues
    <3>2. pc[u] = Idle
      BY <3>1 DEF UrbInv, LifeOf, InHand
    <3> QED BY <1>0, <1>2, <3>1, <3>2
  <2> QED BY <2>1, <2>2
<1>8. ASSUME NEW u \in Urbs, UrbStep(u) PROVE NoStrandedRead'
  BY <1>1, <1>7, <1>8, UrbMove DEF TypeOK, UrbTypes
<1>9. ASSUME NEW e \in Iso, ReleaseEndpoint(e) PROVE NoStrandedRead'
  BY <1>1, <1>7, <1>9, FlushMove DEF TypeOK
<1>10. CASE EventStep
  <2>1. pc["cfg"] = Idle /\ UNCHANGED <<rd, ring>>
    BY <1>10 DEF EventStep, OthersOfCfg, ringVars
  <2>2. pc' = pc \/ \E f : pc' = [pc EXCEPT !["cfg"] = f]
    BY <1>10 DEF EventStep, EventOf, Event
  <2> QED BY <1>0, <1>1, <1>2, <2>1, <2>2
<1>11. ASSUME UNCHANGED <<rd, ring, pc>> PROVE NoStrandedRead'
  BY <1>11 DEF NoStrandedRead
<1>12. ASSUME NEW u \in Urbs, NEW ep \in Endpoints, NEW req \in Requests(ep),
              Submit(u, ep, req)
       PROVE  NoStrandedRead'
  BY <1>11, <1>12 DEF Submit, ringVars
<1>13. ASSUME NEW r \in ConfigureRequests, Configure(r) PROVE NoStrandedRead'
  BY <1>11, <1>13 DEF Configure, OthersOfCfg, ringVars
<1>14. CASE VdsAssignFreshEndpointQueue \/ CompleteConfigure
  BY <1>11, <1>14 DEF VdsAssignFreshEndpointQueue, CompleteConfigure, OthersOfCfg, ringVars
<1>15. CASE UNCHANGED vars
  BY <1>11, <1>15 DEF vars
<1> QED BY <1>3, <1>4, <1>5, <1>6, <1>8, <1>9, <1>10, <1>12, <1>13, <1>14, <1>15
        DEF Next, QueueFrameSteps, ConfigureStep

LifeInv == TypeInv /\ UrbInv /\ NoStrandedRead

(* The three invariants hold at the start ...                              *)
LEMMA LifeInvInit ==
  ASSUME Init
  PROVE  LifeInv
<1>1. NoStrandedRead
  BY DEF Init, NoStrandedRead
<1> QED BY <1>1, TypeInit, UrbInvInit DEF LifeInv

(* ... and every step preserves them.                                      *)
LEMMA LifeInvStep ==
  ASSUME LifeInv, [Next]_vars
  PROVE  LifeInv'
  BY TypeStep, UrbInvStep, StrandedStep DEF LifeInv, TypeInv, TypeOK

(* No wake-up is lost: although VdsCompleteControlReadRequests looks at    *)
(* the ring and at the read queue under different locks, a read parked     *)
(* while there is data always has a thread on its way to serve it.         *)
THEOREM NoWakeupLost == Spec => []NoStrandedRead
<1>1. LifeInv => NoStrandedRead
  BY DEF LifeInv
<1> QED BY <1>1, LifeInvInit, LifeInvStep, PTL DEF Spec

-----------------------------------------------------------------------------
(* The URB contract.                                                       *)

Submitted == {u \in Urbs : urb[u].st # "free"}
Returned  == [u \in Urbs |-> urb[u].done + (IF urb[u].st = "cancelled" THEN 1 ELSE 0)]

(* Steps that only move URBs about inside the driver.                      *)
LEMMA ContractStutters ==
  ASSUME \A u \in Urbs : /\ urb'[u].st = "free" <=> urb[u].st = "free"
                         /\ urb'[u].st = "cancelled" <=> urb[u].st = "cancelled"
                         /\ urb'[u].done = urb[u].done,
         handed' = handed
  PROVE  UNCHANGED <<Submitted, handed, Returned>>
  BY DEF Submitted, Returned

(* A step of the driver is a step of UrbContract or leaves its state       *)
(* alone.                                                                  *)
LEMMA ContractStep ==
  ASSUME UrbTypes, UrbInv, [Next]_vars
  PROVE  [Contract!Next]_(Contract!cvars)
<1>0. /\ urb \in [Urbs -> UrbType] /\ handed \in [Urbs -> Nat]
      /\ pc \in [Threads -> Places]
  BY DEF UrbTypes
<1>1. ASSUME UNCHANGED <<Submitted, handed, Returned>>
      PROVE  [Contract!Next]_(Contract!cvars)
  BY <1>1 DEF Contract!cvars, Submitted, Returned
<1>2. ASSUME UNCHANGED <<urb, handed>>
      PROVE  [Contract!Next]_(Contract!cvars)
  BY <1>1, <1>2, ContractStutters
<1>3. ASSUME NEW u \in Urbs, Advance(u), UNCHANGED handed
      PROVE  [Contract!Next]_(Contract!cvars)
  <2>1. PICK x : /\ urb' = [urb EXCEPT ![u] = x] /\ x.done = urb[u].done
                 /\ \/ x.st = urb[u].st
                    \/ urb[u].st \in InHand
                       /\ x.st \in {"delay", "unstarted", "armed", "expired", "finish"}
    BY <1>3 DEF Advance
  <2>2. ASSUME NEW v \in Urbs
        PROVE  /\ urb'[v].st = "free" <=> urb[v].st = "free"
               /\ urb'[v].st = "cancelled" <=> urb[v].st = "cancelled"
               /\ urb'[v].done = urb[v].done
    <3>1. CASE v = u
      BY <1>0, <2>1, <3>1 DEF InHand
    <3>2. CASE v # u
      BY <1>0, <2>1, <3>2
    <3> QED BY <3>1, <3>2
  <2> QED BY <1>1, <1>3, <2>2, ContractStutters
<1>4. ASSUME NEW u \in Urbs, GiveBack(u), UNCHANGED handed
      PROVE  [Contract!Next]_(Contract!cvars)
  <2>1. PICK x : /\ urb' = [urb EXCEPT ![u] = x]
                 /\ x.done + (IF x.st = "cancelled" THEN 1 ELSE 0) = 1
                 /\ x.st # "free" /\ urb[u].st \in {"finish", "queued"}
    <3>1. /\ Gone("done", urb[u].done + 1).st = "done"
          /\ Gone("done", urb[u].done + 1).done = urb[u].done + 1
          /\ Gone("cancelled", 0).st = "cancelled" /\ Gone("cancelled", 0).done = 0
      BY DEF Gone
    <3>2. CASE urb[u].st = "finish" /\ urb' = [urb EXCEPT ![u] = Gone("done", urb[u].done + 1)]
      <4>1. urb[u].done = 0
        BY <3>2 DEF UrbInv, LifeOf
      <4> DEFINE x == Gone("done", urb[u].done + 1)
      <4>2. x.st = "done" /\ x.done = 1
        BY <3>1, <4>1
      <4>3. urb' = [urb EXCEPT ![u] = x]
        BY <3>2
      <4> HIDE DEF x
      <4>4. /\ x.done + (IF x.st = "cancelled" THEN 1 ELSE 0) = 1
            /\ x.st # "free" /\ urb[u].st \in {"finish", "queued"}
        BY <3>2, <4>2
      <4> QED BY <4>3, <4>4, Zenon
    <3>3. CASE urb[u].st = "queued" /\ urb' = [urb EXCEPT ![u] = Gone("cancelled", 0)]
      <4> DEFINE x == Gone("cancelled", 0)
      <4>1. urb' = [urb EXCEPT ![u] = x] /\ x.st = "cancelled" /\ x.done = 0
        BY <3>1, <3>3
      <4> HIDE DEF x
      <4>2. /\ x.done + (IF x.st = "cancelled" THEN 1 ELSE 0) = 1
            /\ x.st # "free" /\ urb[u].st \in {"finish", "queued"}
        BY <3>3, <4>1
      <4> QED BY <4>1, <4>2, Zenon
    <3> QED BY <1>4, <3>2, <3>3 DEF GiveBack
  <2>2. urb[u].done = 0 /\ Returned[u] = 0
    BY <2>1 DEF UrbInv, LifeOf, Returned
  <2>3. \A v \in Urbs : urb'[v] = IF v = u THEN x ELSE urb[v]
    BY <1>0, <2>1
  <2>4. Returned' = [v \in Urbs |-> IF v \in {u} THEN 1 ELSE Returned[v]]
    BY <2>1, <2>3 DEF Returned
  <2>5. Submitted' = Submitted /\ u \in Submitted
    BY <2>1, <2>3 DEF Submitted
  <2>6. \E us \in SUBSET Urbs :
          /\ us # {} /\ \A v \in us : v \in Submitted /\ Returned[v] = 0
          /\ Returned' = [v \in Urbs |-> IF v \in us THEN 1 ELSE Returned[v]]
          /\ UNCHANGED <<Submitted, handed>>
    <3> WITNESS {u} \in SUBSET Urbs
    <3> QED BY <1>4, <2>2, <2>4, <2>5
  <2> QED BY <2>6 DEF Contract!Next, Contract!Return, Contract!Pending, Submitted, Returned
<1>5. CASE Control
  <2>1. \A u \in Urbs : urb'[u].st = urb[u].st /\ urb'[u].done = urb[u].done
    BY <1>5, ControlLeaves, ReplacedKeeps
  <2>2. handed' = handed
    BY <1>5, ControlLeaves
  <2> QED BY <1>1, <2>1, <2>2, ContractStutters
<1>6. ASSUME NEW t \in Threads, VdsQueueFrame(t)
      PROVE  [Contract!Next]_(Contract!cvars)
  <2>1. urb' = urb
    BY <1>6 DEF VdsQueueFrame
  <2>2. CASE handed' = handed
    BY <1>2, <2>1, <2>2
  <2>3. CASE handed' # handed
    <3>1. t \in Urbs /\ handed' = [handed EXCEPT ![t] = handed[t] + 1] /\ pc[t].at = "frame"
      BY <1>6, <2>3 DEF VdsQueueFrame, ringVars
    <3>2. urb[t].st = "finish" /\ handed[t] = 0 /\ urb[t].done = 0
      BY <3>1, PlaceKinds DEF UrbInv, LifeOf
    <3>3. handed' = [handed EXCEPT ![t] = 1]
      BY <3>1, <3>2
    <3>4. t \in Submitted /\ Returned[t] = 0 /\ UNCHANGED <<Submitted, Returned>>
      BY <2>1, <3>1, <3>2 DEF Submitted, Returned
    <3> QED BY <3>1, <3>2, <3>3, <3>4
            DEF Contract!Next, Contract!Hand, Contract!Pending, Submitted, Returned
  <2> QED BY <2>2, <2>3
<1>7. ASSUME NEW u \in Urbs, NEW ep \in Endpoints, NEW req \in Requests(ep),
             Submit(u, ep, req)
      PROVE  [Contract!Next]_(Contract!cvars)
  <2> DEFINE x == [st |-> "queued", ep |-> ep, req |-> req,
                   pub |-> FALSE, old |-> FALSE, done |-> 0]
  <2>1. x.st = "queued" /\ x.done = 0
    OBVIOUS
  <2>2. urb[u].st = "free" /\ urb' = [urb EXCEPT ![u] = x] /\ handed' = handed
    BY <1>7 DEF Submit, ringVars
  <2> HIDE DEF x
  <2>3. urb[u].done = 0
    BY <2>2 DEF UrbInv, LifeOf
  <2>4. \A v \in Urbs : urb'[v] = IF v = u THEN x ELSE urb[v]
    BY <1>0, <2>2
  <2>5. /\ u \notin Submitted /\ Submitted' = Submitted \union {u}
    BY <2>1, <2>2, <2>4 DEF Submitted
  <2>6. Returned' = Returned
    BY <2>1, <2>2, <2>3, <2>4 DEF Returned
  <2> QED BY <2>2, <2>5, <2>6 DEF Contract!Next, Contract!Submit, Submitted, Returned
<1>8. ASSUME NEW t \in Threads, CheckRing(t) \/ TakeRead(t)
      PROVE  UNCHANGED <<urb, handed>>
  BY <1>8 DEF CheckRing, TakeRead, ringVars
<1>9. ASSUME NEW u \in Urbs, UrbStep(u)
      PROVE  [Contract!Next]_(Contract!cvars)
  BY <1>0, <1>3, <1>4, <1>9, UrbMove
<1>10. ASSUME NEW r \in ConfigureRequests, Configure(r)
       PROVE  UNCHANGED <<urb, handed>>
  BY <1>10 DEF Configure, OthersOfCfg, ringVars
<1>11. ASSUME NEW e \in Iso, ReleaseEndpoint(e)
       PROVE  [Contract!Next]_(Contract!cvars)
  BY <1>2, <1>3, <1>11, FlushMove
<1>12. CASE VdsAssignFreshEndpointQueue
  BY <1>1, <1>12, AssignMove, ContractStutters
<1>13. CASE EventStep \/ CompleteConfigure
  BY <1>2, <1>13 DEF EventStep, CompleteConfigure, OthersOfCfg, ringVars
<1>14. CASE UNCHANGED vars
  BY <1>2, <1>14 DEF vars
<1> QED BY <1>2, <1>5, <1>6, <1>7, <1>8, <1>9, <1>10, <1>11, <1>12, <1>13, <1>14
        DEF Next, QueueFrameSteps, ConfigureStep

(* The driver implements the contract of the host: every URB is given back *)
(* at most once, by its handler, its timer's callback, the flush of a      *)
(* released endpoint or a cancellation, whichever comes first; its frame   *)
(* reaches the ring at most once and never after that.                     *)
THEOREM UrbContractKept == Spec => GivenBackOnce
<1>1. Init => Contract!Init
  <2> SUFFICES ASSUME Init PROVE Contract!Init
    OBVIOUS
  <2>1. Gone("free", 0).st = "free" /\ Gone("free", 0).done = 0
    BY DEF Gone
  <2>2. \A u \in Urbs : urb[u].st = "free" /\ urb[u].done = 0
    BY <2>1 DEF Init
  <2> QED BY <2>2 DEF Init, Contract!Init
<1>2. LifeInv /\ [Next]_vars => [Contract!Next]_(Contract!cvars)
  BY ContractStep DEF LifeInv, TypeInv, TypeOK
<1> QED BY <1>1, <1>2, LifeInvInit, LifeInvStep, PTL DEF Spec, GivenBackOnce, Contract!Safety

-----------------------------------------------------------------------------
(* A bound port is served.                                                 *)

(* The handle a bind is working for is the one that bound the port, unless *)
(* its cleanup has unbound it meanwhile; nobody binds during an unbind.    *)
BindInv ==
  /\ ctl.at \in {"plug", "undo"} /\ port.bound => port.file = ctl.file
  /\ ctl.at = "unplug" => ~port.bound

(* No step takes the session of a bound port away.                         *)
LEMMA BindStep ==
  ASSUME PortTypes, BindInv, BoundPortServed, [Next]_vars
  PROVE  BindInv' /\ BoundPortServed'
<1> USE DEF VdsCompletePortInfo
<1>0. /\ port \in [bound : BOOLEAN, file : Files \union {None},
                   profile : Profiles \union {None}]
      /\ Idle.at = "none"
  BY DEF PortTypes, Idle
<1>1. ASSUME UNCHANGED <<port, child, ctl>>
      PROVE  BindInv' /\ BoundPortServed'
  BY <1>1 DEF BindInv, BoundPortServed
<1>2. CASE ~Control
  BY <1>1, <1>2, PortKept DEF portVars
<1>3. ASSUME ~port'.bound
      PROVE  BindInv' /\ BoundPortServed'
  BY <1>3 DEF BindInv, BoundPortServed
<1>4. [port EXCEPT !.bound = FALSE, !.file = None].bound = FALSE
  BY <1>0
<1>5. ASSUME NEW f \in Files, NEW p \in Profiles, BindLock(f, p)
      PROVE  BindInv' /\ BoundPortServed'
  <2>1. CASE port.bound /\ port.file # f
    BY <1>1, <1>5, <2>1 DEF BindLock
  <2>2. CASE ~(port.bound /\ port.file # f)
    <3>1. port' = [bound |-> TRUE, file |-> f, profile |-> p]
          /\ ctl' = [at |-> "plug", file |-> f]
      BY <1>5, <2>2 DEF BindLock
    <3>2. port'.file = f /\ ctl'.at = "plug" /\ ctl'.file = f
      BY <3>1
    <3> QED BY <3>2 DEF BindInv, BoundPortServed
  <2> QED BY <2>1, <2>2
<1>6. ASSUME NEW f \in Files, UnbindLock(f)
      PROVE  BindInv' /\ BoundPortServed'
  <2>1. CASE port.bound /\ port.file # f
    BY <1>1, <1>6, <2>1 DEF UnbindLock
  <2>2. CASE ~(port.bound /\ port.file # f)
    BY <1>3, <1>4, <1>6, <2>2 DEF UnbindLock
  <2> QED BY <2>1, <2>2
<1>7. ASSUME NEW f \in Files, Cleanup(f)
      PROVE  BindInv' /\ BoundPortServed'
  BY <1>3, <1>4, <1>7 DEF Cleanup
<1>8. ASSUME NEW f \in Files, CleanupReset(f)
      PROVE  BindInv' /\ BoundPortServed'
  BY <1>1, <1>8 DEF CleanupReset
<1>9. CASE BindPlug
  <2>1. PICK r \in VdsPlugUsbChildDevice :
           child' = r.child
           /\ ctl' = IF r.ok THEN Idle ELSE [ctl EXCEPT !.at = "undo"]
    BY <1>9 DEF BindPlug
  <2>2. port' = port /\ ctl.at = "plug"
    BY <1>9 DEF BindPlug
  <2>3. r.ok => /\ r.child.dev /\ r.child.plugged /\ r.child.valid
                /\ r.child.profile = port.profile
    BY PlugResult
  <2>4. CASE r.ok
    <3>1. ctl'.at = "none"
      BY <1>0, <2>1, <2>4
    <3> QED BY <2>1, <2>2, <2>3, <2>4, <3>1 DEF BindInv, BoundPortServed
  <2>5. CASE ~r.ok
    <3>1. ctl \in [at : {"plug", "undo", "unplug"}, file : Files]
      BY <2>2, <1>0 DEF PortTypes, CtlType
    <3>2. ctl' = [ctl EXCEPT !.at = "undo"]
      BY <2>1, <2>5
    <3>3. ctl'.at = "undo" /\ ctl'.file = ctl.file
      BY <3>1, <3>2
    <3> QED BY <2>2, <3>3 DEF BindInv, BoundPortServed
  <2> QED BY <2>4, <2>5
<1>10. CASE BindUndo
  <2>1. ~port'.bound
    BY <1>4, <1>10 DEF BindUndo, BindInv
  <2> QED BY <1>3, <2>1
<1>11. CASE UnbindUnplug
  <2>1. ~port'.bound
    BY <1>11 DEF UnbindUnplug, BindInv
  <2> QED BY <1>3, <2>1
<1>12. CASE VdsEvtControlRead \/ CancelRead
  BY <1>1, <1>12 DEF VdsEvtControlRead, CancelRead, portVars
<1>13. ASSUME NEW type \in {"feature_reply", "audio_in"}, WriteCheck(type)
       PROVE  BindInv' /\ BoundPortServed'
  <2>1. ctl' = [at |-> "store", type |-> type, of |-> session] /\ ctl.at = "none"
        /\ UNCHANGED <<port, child>>
    BY <1>0, <1>13 DEF WriteCheck, CtlFree, portVars
  <2>2. ctl'.at = "store"
    BY <2>1
  <2> QED BY <2>1, <2>2 DEF BindInv, BoundPortServed
<1>14. CASE WriteStore
  <2>1. ctl'.at = "none" /\ ctl.at = "store" /\ UNCHANGED <<port, child>>
    BY <1>0, <1>14 DEF WriteStore, portVars
  <2> QED BY <2>1 DEF BindInv, BoundPortServed
<1> QED BY <1>2, <1>5, <1>6, <1>7, <1>8, <1>9, <1>10, <1>11, <1>12, <1>13, <1>14
        DEF Control

(* Whatever failed in earlier binds and whoever closed a handle without an *)
(* unbind: when VdsBindPort has returned success and the port is still     *)
(* bound, its child is plugged in with the profile asked for.              *)
THEOREM PortServed == Spec => []BoundPortServed
<1> DEFINE Inv == PortTypes /\ BindInv /\ BoundPortServed
<1>1. Init => Inv
  <2> SUFFICES ASSUME Init PROVE Inv
    OBVIOUS
  <2>1. PortTypes
    BY TypeInit DEF TypeInv, TypeOK
  <2>2. BindInv /\ BoundPortServed
    BY DEF Init, BindInv, BoundPortServed, VdsCompletePortInfo, Idle
  <2> QED BY <2>1, <2>2
<1>2. Inv /\ [Next]_vars => Inv'
  BY PortTypeStep, BindStep
<1>3. Inv => BoundPortServed
  OBVIOUS
<1> HIDE DEF Inv
<1> QED BY <1>1, <1>2, <1>3, PTL DEF Spec

-----------------------------------------------------------------------------
(* Interface settings reach the daemon.                                    *)

(* The callback has noted the setting of interface i and has yet to report *)
(* it.                                                                     *)
Unreported(i) ==
  /\ cfg # Idle /\ cfg.req.iface = i
  /\ cfg.at \in {"release", "audio_out"} \union (IF i = "audio_in" THEN {i} ELSE {})

Says(p, i, a) == p = Frame(1, <<i, a>>)

(* The daemon knows the setting of interface i, or a frame was lost, or    *)
(* the callback is about to say it.                                        *)
Known(i) ==
  \/ told[i] \in {alt[i], Lost}
  \/ Unreported(i)
  \/ Says(pc["cfg"], i, alt[i])

AltInv ==
  /\ \A i \in Iso : Known(i)
  /\ cfg = Idle \/ cfg.at \in {"release", "audio_out"} => pc["cfg"] = Idle
  /\ pc["cfg"].at = "frame" /\ pc["cfg"].iface # <<>> =>
       pc["cfg"].iface[2] = alt[pc["cfg"].iface[1]]
  /\ cfg # Idle => \A u \in Urbs : ~(urb[u].req = "set_interface" /\ urb[u].st = "queued")
  /\ \A t \in Threads \ {"cfg"} : pc[t].at = "frame" => pc[t].iface = <<>>

(* What is needed of a step that does not touch the settings, but may      *)
(* begin a session that was told nothing.                                  *)
LEMMA AltKept ==
  ASSUME UrbTypes, AltInv, UNCHANGED alt, told' \in {told, ToldNothing},
         pc'["cfg"] = pc["cfg"],
         \/ cfg' = cfg
         \/ /\ cfg # Idle /\ cfg' # Idle /\ cfg'.req = cfg.req
            /\ \/ cfg'.at = cfg.at
               \/ cfg.at = "release" /\ cfg'.at = "audio_out",
         cfg # Idle => \A u \in Urbs : urb'[u].req = "set_interface" /\ urb'[u].st = "queued"
                                        => urb[u].req = "set_interface" /\ urb[u].st = "queued",
         \A t \in Threads \ {"cfg"} :
           pc'[t] = pc[t] \/ (pc'[t].at = "frame" => pc'[t].iface = <<>>)
  PROVE  AltInv'
<1>1. ASSUME NEW i \in Iso PROVE Known(i)'
  <2>1. Known(i)
    BY DEF AltInv
  <2>2. Unreported(i) => Unreported(i)'
    BY DEF Unreported
  <2>3. CASE told' = told
    BY <2>1, <2>2, <2>3 DEF Known
  <2>4. CASE told' = ToldNothing
    BY <2>4 DEF Known, ToldNothing
  <2> QED BY <2>3, <2>4
<1>2. cfg' = Idle \/ cfg'.at \in {"release", "audio_out"} => pc'["cfg"] = Idle
  BY DEF AltInv
<1>3. cfg' # Idle => \A u \in Urbs : ~(urb'[u].req = "set_interface" /\ urb'[u].st = "queued")
  BY DEF AltInv
<1>4. \A t \in Threads \ {"cfg"} : pc'[t].at = "frame" => pc'[t].iface = <<>>
  BY DEF AltInv
<1>5. pc'["cfg"].at = "frame" /\ pc'["cfg"].iface # <<>> =>
        pc'["cfg"].iface[2] = alt'[pc'["cfg"].iface[1]]
  BY DEF AltInv
<1> QED BY <1>1, <1>2, <1>3, <1>4, <1>5 DEF AltInv

(* The frame about interface i says so, and what its setting is.           *)
LEMMA FrameSays ==
  ASSUME NEW p, NEW i \in Iso, NEW a \in {0, 1}, Says(p, i, a)
  PROVE  /\ p.at = "frame" /\ p # Idle
         /\ p.iface # <<>> /\ p.iface[1] = i /\ p.iface[2] = a
<1>1. <<i, a>> \in {<<>>} \union (Iso \X {0, 1})
  OBVIOUS
<1>2. p.at = "frame" /\ p.iface = <<i, a>>
  BY <1>1, FramePlace DEF Says
<1> QED BY <1>2, PlaceKinds

(* A URB that moves on, or is given back, reports nothing.                 *)
LEMMA MoveQuiet ==
  ASSUME UrbTypes, NEW u \in Urbs, Advance(u) \/ GiveBack(u)
  PROVE  /\ pc'["cfg"] = pc["cfg"]
         /\ \A v \in Urbs : urb'[v].req = "set_interface" /\ urb'[v].st = "queued"
                              => urb[v].req = "set_interface" /\ urb[v].st = "queued"
         /\ \A t \in Threads \ {"cfg"} :
              pc'[t] = pc[t] \/ (pc'[t].at = "frame" => pc'[t].iface = <<>>)
<1>0. /\ urb \in [Urbs -> UrbType] /\ pc \in [Threads -> Places]
      /\ "cfg" \notin Urbs /\ "cfg" \in Threads /\ Urbs \subseteq Threads
  BY UsbAssumption DEF UrbTypes, Threads
<1>1. pc' = pc \/ \E n \in {1, 2} : pc' = [pc EXCEPT ![u] = Frame(n, <<>>)]
  BY DEF Advance, GiveBack, Queues
<1>2. \A n \in {1, 2} : Frame(n, <<>>).iface = <<>>
  BY FramePlace
<1>3. ASSUME NEW v \in Urbs, urb'[v].req = "set_interface", urb'[v].st = "queued"
      PROVE  urb[v].req = "set_interface" /\ urb[v].st = "queued"
  <2>1. CASE v # u
    BY <1>0, <1>3, <2>1 DEF Advance, GiveBack
  <2>2. CASE v = u
    <3>1. \A n : Gone("done", n).st = "done" /\ Gone("cancelled", n).st = "cancelled"
      BY DEF Gone
    <3>2. Advance(u)
      BY <1>0, <1>3, <2>2, <3>1 DEF GiveBack
    <3>3. PICK x : /\ urb' = [urb EXCEPT ![u] = x] /\ x.req = urb[u].req
                   /\ \/ x.st = urb[u].st
                      \/ x.st \in {"delay", "unstarted", "armed", "expired", "finish"}
      BY <3>2 DEF Advance
    <3>4. urb'[u] = x
      BY <1>0, <3>3
    <3> QED BY <1>3, <2>2, <3>3, <3>4
  <2> QED BY <2>1, <2>2
<1>4. pc'["cfg"] = pc["cfg"]
  BY <1>0, <1>1
<1>5. \A t \in Threads : pc'[t] = pc[t] \/ (pc'[t].at = "frame" => pc'[t].iface = <<>>)
  BY <1>0, <1>1, <1>2
<1> QED BY <1>3, <1>4, <1>5

(* A thread inside VdsQueueFrame or its loop: only the callback's own      *)
(* thread has something to say about an interface.                         *)
LEMMA AltQueues ==
  ASSUME UrbTypes, AltInv, NEW t \in Threads,
         VdsQueueFrame(t) \/ CheckRing(t) \/ TakeRead(t)
  PROVE  AltInv'
<1>0. /\ pc \in [Threads -> Places] /\ told \in [Iso -> {0, 1, Lost}]
      /\ alt \in [Iso -> {0, 1}] /\ "cfg" \in Threads
  BY DEF UrbTypes, Threads
<1>1. UNCHANGED <<alt, cfg, urb>>
  BY DEF VdsQueueFrame, CheckRing, TakeRead, epVars
<1>2. /\ \A v \in Threads \ {t} : pc'[v] = pc[v]
      /\ pc'[t] \in {Idle, [at |-> "check"], [at |-> "take"]}
  BY <1>0 DEF VdsQueueFrame, CheckRing, TakeRead
<1>3. pc'[t].at # "frame" /\ pc[t] # Idle
  BY <1>2, PlaceKinds DEF VdsQueueFrame, CheckRing, TakeRead
<1>4. CASE t # "cfg"
  <2>1. told' = told
    <3>1. CASE VdsQueueFrame(t)
      BY <1>4, <3>1 DEF VdsQueueFrame, AltInv
    <3>2. CASE CheckRing(t) \/ TakeRead(t)
      BY <3>2 DEF CheckRing, TakeRead
    <3> QED BY <3>1, <3>2
  <2>2. pc'["cfg"] = pc["cfg"]
    BY <1>0, <1>2, <1>4
  <2>3. \A v \in Threads \ {"cfg"} :
          pc'[v] = pc[v] \/ (pc'[v].at = "frame" => pc'[v].iface = <<>>)
    BY <1>2, <1>3
  <2> QED BY <1>1, <2>1, <2>2, <2>3, AltKept
<1>5. CASE t = "cfg"
  <2> DEFINE p == pc["cfg"]
  <2>1. cfg # Idle /\ cfg.at \notin {"release", "audio_out"}
    BY <1>3, <1>5 DEF AltInv
  <2>2. ASSUME NEW i \in Iso
        PROVE  \/ told'[i] \in {alt[i], Lost}
               \/ told'[i] = told[i] /\ ~Says(p, i, alt[i])
    <3>0. alt[i] \in {0, 1}
      BY <1>0
    <3>1. CASE p.at = "frame" => p.iface = <<>>
      <4>1. told' = told
        BY <1>5, <3>1 DEF VdsQueueFrame, CheckRing, TakeRead
      <4>2. ~Says(p, i, alt[i])
        BY <3>0, <3>1, FrameSays
      <4> QED BY <4>1, <4>2
    <3>2. CASE p.at = "frame" /\ p.iface # <<>>
      <4>1. p.iface \in Iso \X {0, 1} /\ p.iface[2] = alt[p.iface[1]]
        BY <1>0, <3>2, PlaceKinds DEF AltInv
      <4>2. VdsQueueFrame("cfg")
        BY <1>5, <3>2 DEF CheckRing, TakeRead
      <4> DEFINE j == p.iface[1]
      <4>3. j \in Iso
        BY <4>1
      <4>4. told' = [told EXCEPT ![j] = alt[j]] \/ told' = [told EXCEPT ![j] = Lost]
        BY <3>2, <4>1, <4>2 DEF VdsQueueFrame
      <4>5. CASE i = j
        <5> HIDE DEF j
        <5> QED BY <1>0, <4>3, <4>4, <4>5
      <4>6. CASE i # j
        <5>1. ~Says(p, i, alt[i])
          BY <3>0, <4>6, FrameSays
        <5> HIDE DEF j
        <5> QED BY <1>0, <4>3, <4>4, <4>6, <5>1
      <4> QED BY <4>5, <4>6
    <3> QED BY <3>1, <3>2
  <2>3. ASSUME NEW i \in Iso PROVE Known(i)'
    <3>1. Known(i) /\ (Unreported(i) => Unreported(i)')
      BY <1>1 DEF AltInv, Unreported
    <3> QED BY <1>1, <2>2, <3>1 DEF Known
  <2>4. \A v \in Threads \ {"cfg"} : pc'[v].at = "frame" => pc'[v].iface = <<>>
    BY <1>2, <1>5 DEF AltInv
  <2>5. cfg' # Idle => \A u \in Urbs : ~(urb'[u].req = "set_interface" /\ urb'[u].st = "queued")
    BY <1>1 DEF AltInv
  <2> QED BY <1>1, <1>3, <1>5, <2>1, <2>3, <2>4, <2>5 DEF AltInv
<1> QED BY <1>4, <1>5

(* The callback begins with no setting unreported.                         *)
LEMMA AltConfigures ==
  ASSUME UrbTypes, AltInv, NEW r \in ConfigureRequests, Configure(r)
  PROVE  AltInv'
<1> DEFINE c == [at |-> "release", req |-> r, todo |-> r.rel, wait |-> None, gone |-> FALSE]
<1>0. /\ alt \in [Iso -> {0, 1}] /\ c.at = "release" /\ c.req = r /\ c.at # Idle.at
  BY DEF UrbTypes, Idle
<1>1. /\ cfg = Idle /\ cfg' = c /\ UNCHANGED <<urb, pc, told>>
      /\ alt' = IF r.iface \in Iso THEN [alt EXCEPT ![r.iface] = r.alt] ELSE alt
      /\ \A u \in Urbs : ~(urb[u].req = "set_interface" /\ urb[u].st = "queued")
  BY DEF Configure, SettingFree
<1> HIDE DEF c
<1>2. cfg' # Idle /\ cfg'.at = "release" /\ cfg'.req = r
  BY <1>0, <1>1
<1>3. pc["cfg"] = Idle
  BY <1>1 DEF AltInv
<1>4. ASSUME NEW i \in Iso PROVE Known(i)'
  <2>1. told[i] \in {alt[i], Lost}
    <3>1. ~Says(pc["cfg"], i, alt[i])
      BY <1>0, <1>3, FrameSays
    <3> QED BY <1>1, <3>1 DEF AltInv, Known, Unreported
  <2>2. CASE r.iface = i
    BY <1>2, <2>2 DEF Known, Unreported
  <2>3. CASE r.iface # i
    <3>1. alt'[i] = alt[i]
      BY <1>0, <1>1, <2>3
    <3> QED BY <1>1, <2>1, <3>1 DEF Known
  <2> QED BY <2>2, <2>3
<1>5. pc'["cfg"].at # "frame"
  BY <1>1, <1>3, PlaceKinds
<1> QED BY <1>1, <1>2, <1>3, <1>4, <1>5 DEF AltInv

(* Fresh queues, or the failure to assign one.                             *)
LEMMA AltAssigns ==
  ASSUME UrbTypes, AltInv, VdsAssignFreshEndpointQueue
  PROVE  AltInv'
<1>0. alt \in [Iso -> {0, 1}] /\ cfg # Idle
  BY AssignMove, CfgKinds DEF UrbTypes
<1>1. UNCHANGED <<alt, pc>> /\ cfg.at = "release"
      /\ \A u \in Urbs : urb'[u].st = urb[u].st /\ urb'[u].req = urb[u].req
  BY AssignMove
<1>2. CASE cfg' \in CfgRunning /\ cfg'.at = "audio_out" /\ cfg'.req = cfg.req /\ told' = told
  <2>1. cfg' # Idle
    BY <1>2, CfgKinds
  <2> QED BY <1>0, <1>1, <1>2, <2>1, AltKept
<1>3. CASE cfg' = Idle /\ told' = [i \in Iso |-> IF i = cfg.req.iface THEN Lost ELSE told[i]]
  <2>1. pc["cfg"] = Idle
    BY <1>1 DEF AltInv
  <2>2. ASSUME NEW i \in Iso PROVE Known(i)'
    <3>1. CASE i = cfg.req.iface
      BY <1>3, <3>1 DEF Known
    <3>2. CASE i # cfg.req.iface
      <4>1. ~Says(pc["cfg"], i, alt[i])
        BY <1>0, <2>1, FrameSays
      <4>2. told[i] \in {alt[i], Lost}
        BY <3>2, <4>1 DEF AltInv, Known, Unreported
      <4>3. told'[i] = told[i] /\ alt'[i] = alt[i]
        BY <1>1, <1>3, <3>2
      <4> QED BY <4>2, <4>3 DEF Known
    <3> QED BY <3>1, <3>2
  <2>3. pc'["cfg"].at # "frame" /\ pc'["cfg"] = Idle
    BY <1>1, <2>1, PlaceKinds
  <2>4. \A t \in Threads \ {"cfg"} : pc'[t].at = "frame" => pc'[t].iface = <<>>
    BY <1>1 DEF AltInv
  <2> QED BY <1>3, <2>2, <2>3, <2>4 DEF AltInv
<1> QED BY <1>2, <1>3, AssignMove

(* The events: an interface left unreported is reported now.               *)
LEMMA AltEvents ==
  ASSUME UrbTypes, AltInv, EventStep
  PROVE  AltInv'
<1>0. /\ alt \in [Iso -> {0, 1}] /\ pc \in [Threads -> Places] /\ "cfg" \in Threads
      /\ cfg \in CfgRunning /\ pc["cfg"] = Idle /\ UNCHANGED <<urb, told>>
  BY CfgAt DEF EventStep, UrbTypes, Threads
<1>1. ASSUME NEW i \in Iso
      PROVE  told[i] \in {alt[i], Lost} \/ Unreported(i)
  <2>1. alt[i] \in {0, 1}
    BY <1>0
  <2>2. ~Says(pc["cfg"], i, alt[i])
    BY <1>0, <2>1, FrameSays
  <2> QED BY <2>2 DEF AltInv, Known
<1>2. ASSUME NEW a \in {"audio_in", "hid", "complete"}, cfg' = [cfg EXCEPT !.at = a]
      PROVE  cfg' # Idle /\ cfg'.at = a /\ cfg'.req = cfg.req
  <2> DEFINE d == [cfg EXCEPT !.at = a]
  <2>1. d \in CfgRunning /\ d.at = a /\ d.req = cfg.req
    BY <1>0 DEF CfgRunning
  <2>2. cfg' = d
    BY <1>2
  <2> QED BY <2>1, <2>2, CfgKinds
<1>3. ASSUME NEW a \in {"audio_in", "hid", "complete"}, cfg' = [cfg EXCEPT !.at = a],
             \A i \in Iso : Known(i)', \E f : pc' = pc \/ pc' = [pc EXCEPT !["cfg"] = f],
             pc'["cfg"].at = "frame" /\ pc'["cfg"].iface # <<>> =>
               pc'["cfg"].iface[2] = alt'[pc'["cfg"].iface[1]]
      PROVE  AltInv'
  <2>1. cfg' # Idle /\ cfg'.at = a /\ cfg # Idle
    BY <1>0, <1>2, <1>3, CfgKinds
  <2>2. \A t \in Threads \ {"cfg"} : pc'[t].at = "frame" => pc'[t].iface = <<>>
    BY <1>0, <1>3 DEF AltInv
  <2>3. cfg' # Idle => \A u \in Urbs : ~(urb'[u].req = "set_interface" /\ urb'[u].st = "queued")
    BY <1>0, <2>1 DEF AltInv
  <2> QED BY <1>3, <2>1, <2>2, <2>3 DEF AltInv
<1>4. ASSUME NEW i \in Iso, EventOf(i), NEW a \in {"audio_in", "hid"},
             cfg' = [cfg EXCEPT !.at = a],
             \A j \in Iso \ {i} : Unreported(j) => Unreported(j)'
      PROVE  AltInv'
  <2>1. CASE UNCHANGED <<alt, pc>> /\ cfg.req.iface # i
    <3>1. ASSUME NEW j \in Iso PROVE Known(j)'
      <4>1. CASE j = i
        BY <1>0, <1>1, <2>1, <4>1 DEF Known, Unreported
      <4>2. CASE j # i
        BY <1>0, <1>1, <1>4, <2>1, <4>2 DEF Known
      <4> QED BY <4>1, <4>2
    <3>2. pc'["cfg"].at # "frame"
      BY <1>0, <2>1, PlaceKinds
    <3> QED BY <1>3, <1>4, <2>1, <3>1, <3>2
  <2>2. ASSUME NEW b \in {0, 1}, Reports(i, b) PROVE AltInv'
    <3>1. /\ alt' = [alt EXCEPT ![i] = b] /\ alt'[i] = b
          /\ Says(pc'["cfg"], i, b) /\ \E f : pc' = [pc EXCEPT !["cfg"] = f]
      BY <1>0, <2>2 DEF Reports, Says
    <3>2. ASSUME NEW j \in Iso PROVE Known(j)'
      <4>1. CASE j = i
        BY <3>1, <4>1 DEF Known
      <4>2. CASE j # i
        <5>1. alt'[j] = alt[j]
          BY <1>0, <3>1, <4>2
        <5> QED BY <1>0, <1>1, <1>4, <4>2, <5>1 DEF Known
      <4> QED BY <4>1, <4>2
    <3>3. pc'["cfg"].iface[2] = alt'[pc'["cfg"].iface[1]]
      BY <3>1, FrameSays
    <3> QED BY <1>3, <1>4, <3>1, <3>2, <3>3
  <2> QED BY <1>0, <1>4, <2>1, <2>2, EventMove
<1>5. CASE cfg.at = "audio_out" /\ EventOf("audio_out") /\ cfg' = [cfg EXCEPT !.at = "audio_in"]
  <2>1. \A j \in Iso \ {"audio_out"} : Unreported(j) => Unreported(j)'
    BY <1>2, <1>5 DEF Unreported, Iso
  <2>2. "audio_out" \in Iso
    BY DEF Iso
  <2> QED BY <1>4, <1>5, <2>1, <2>2
<1>6. CASE cfg.at = "audio_in" /\ EventOf("audio_in") /\ cfg' = [cfg EXCEPT !.at = "hid"]
  <2>1. \A j \in Iso \ {"audio_in"} : ~Unreported(j)
    BY <1>6 DEF Unreported, Iso
  <2>2. "audio_in" \in Iso
    BY DEF Iso
  <2> QED BY <1>4, <1>6, <2>1, <2>2
<1>7. CASE /\ cfg.at = "hid" /\ cfg' = [cfg EXCEPT !.at = "complete"] /\ UNCHANGED alt
           /\ pc' = pc \/ pc' = [pc EXCEPT !["cfg"] = Frame(1, <<>>)]
  <2>1. \A i \in Iso : ~Unreported(i)
    BY <1>7 DEF Unreported
  <2>2. \A i \in Iso : Known(i)'
    BY <1>0, <1>1, <1>7, <2>1 DEF Known
  <2>3. pc'["cfg"].at = "frame" => pc'["cfg"].iface = <<>>
    BY <1>0, <1>7, PlaceKinds, FramePlace
  <2> QED BY <1>3, <1>7, <2>2, <2>3
<1> QED BY <1>5, <1>6, <1>7 DEF EventStep

(* No step forgets a setting the daemon is to hear of.                     *)
LEMMA AltStep ==
  ASSUME UrbTypes, AltInv, [Next]_vars
  PROVE  AltInv'
<1>0. /\ pc \in [Threads -> Places] /\ alt \in [Iso -> {0, 1}]
      /\ told \in [Iso -> {0, 1, Lost}]
      /\ urb \in [Urbs -> UrbType] /\ "cfg" \in Threads /\ "ctl" \in Threads
  BY DEF UrbTypes, Threads
<1>1. CASE Control
  <2>1. UNCHANGED alt /\ told' \in {told, ToldNothing} /\ pc'["cfg"] = pc["cfg"]
    BY <1>0, <1>1, ControlLeaves
  <2>2. /\ \A u \in Urbs : urb'[u].st = urb[u].st /\ urb'[u].req = urb[u].req
        /\ \/ cfg' = cfg
           \/ cfg # Idle /\ cfg' # Idle /\ cfg'.req = cfg.req /\ cfg'.at = cfg.at
    BY <1>1, ControlLeaves, ReplacedKeeps, CfgKinds
  <2>3. \A t \in Threads : pc'[t] = pc[t] \/ (pc'[t].at = "frame" => pc'[t].iface = <<>>)
    BY <1>0, <1>1, ControlLeaves, PlaceKinds
  <2> QED BY <2>1, <2>2, <2>3, AltKept
<1>2. ASSUME NEW u \in Urbs, UrbStep(u) PROVE AltInv'
  <2>1. /\ pc'["cfg"] = pc["cfg"] /\ cfg' = cfg
        /\ \A v \in Urbs : urb'[v].req = "set_interface" /\ urb'[v].st = "queued"
                             => urb[v].req = "set_interface" /\ urb[v].st = "queued"
        /\ \A t \in Threads \ {"cfg"} :
             pc'[t] = pc[t] \/ (pc'[t].at = "frame" => pc'[t].iface = <<>>)
    BY <1>0, <1>2, UrbMove, MoveQuiet
  <2>2. CASE UNCHANGED <<alt, told>>
    BY <2>1, <2>2, AltKept
  <2>3. CASE Resets(u)
    <3>1. cfg = Idle /\ pc["cfg"] = Idle
      BY <2>3 DEF Resets, AltInv
    <3>2. PICK i \in Iso, a \in 0 .. 1 : /\ alt' = [alt EXCEPT ![i] = a]
                                        /\ told' = [told EXCEPT ![i] = Lost]
      BY <2>3 DEF Resets
    <3>3. ASSUME NEW j \in Iso PROVE Known(j)'
      <4>1. CASE j = i
        BY <1>0, <3>2, <4>1 DEF Known
      <4>2. CASE j # i
        <5>1. alt[j] \in {0, 1} /\ alt'[j] = alt[j] /\ told'[j] = told[j]
          BY <1>0, <3>2, <4>2
        <5>2. told[j] \in {alt[j], Lost}
          BY <3>1, <5>1, FrameSays DEF AltInv, Known, Unreported
        <5> QED BY <5>1, <5>2 DEF Known
      <4> QED BY <4>1, <4>2
    <3>4. pc'["cfg"].at # "frame" /\ pc'["cfg"] = Idle /\ cfg' = Idle
      BY <2>1, <3>1, PlaceKinds
    <3>5. \A t \in Threads \ {"cfg"} : pc'[t].at = "frame" => pc'[t].iface = <<>>
      BY <2>1 DEF AltInv
    <3> QED BY <3>3, <3>4, <3>5 DEF AltInv
  <2> QED BY <1>0, <1>2, <2>2, <2>3, UrbMove
<1>3. ASSUME NEW u \in Urbs, NEW ep \in Endpoints, NEW req \in Requests(ep),
             Submit(u, ep, req)
      PROVE  AltInv'
  <2> DEFINE x == [st |-> "queued", ep |-> ep, req |-> req,
                   pub |-> FALSE, old |-> FALSE, done |-> 0]
  <2>1. x.req = req
    OBVIOUS
  <2>2. /\ urb' = [urb EXCEPT ![u] = x] /\ UNCHANGED <<alt, told, cfg, pc>>
        /\ req = "set_interface" => cfg = Idle
    BY <1>3 DEF Submit, SettingFree, epVars
  <2> HIDE DEF x
  <2>3. ASSUME cfg # Idle, NEW v \in Urbs,
               urb'[v].req = "set_interface" /\ urb'[v].st = "queued"
        PROVE  urb[v].req = "set_interface" /\ urb[v].st = "queued"
    BY <1>0, <2>1, <2>2, <2>3
  <2> QED BY <2>2, <2>3, AltKept
<1>4. ASSUME NEW e \in Iso, ReleaseEndpoint(e) PROVE AltInv'
  <2>1. UNCHANGED <<alt, told>> /\ cfg # Idle /\ cfg' # Idle /\ cfg'.req = cfg.req
        /\ cfg'.at = cfg.at
    BY <1>4, FlushMove, CfgKinds
  <2>2. CASE UNCHANGED <<urb, pc>>
    BY <2>1, <2>2, AltKept
  <2>3. ASSUME NEW u \in Urbs, Advance(u) PROVE AltInv'
    BY <2>1, <2>3, MoveQuiet, AltKept
  <2> QED BY <1>4, <2>2, <2>3, FlushMove
<1>5. CASE CompleteConfigure
  <2>1. /\ pc["cfg"] = Idle /\ cfg.at = "complete" /\ cfg' = Idle
        /\ UNCHANGED <<alt, told, pc>>
    BY <1>5 DEF CompleteConfigure
  <2>2. ASSUME NEW i \in Iso PROVE Known(i)'
    <3>1. ~Unreported(i) /\ alt[i] \in {0, 1}
      BY <1>0, <2>1 DEF Unreported
    <3>2. told[i] \in {alt[i], Lost}
      BY <2>1, <3>1, FrameSays DEF AltInv, Known
    <3> QED BY <2>1, <3>2 DEF Known
  <2>3. pc'["cfg"].at # "frame"
    BY <2>1, PlaceKinds
  <2>4. \A t \in Threads \ {"cfg"} : pc'[t].at = "frame" => pc'[t].iface = <<>>
    BY <2>1 DEF AltInv
  <2> QED BY <2>1, <2>2, <2>3, <2>4 DEF AltInv
<1>6. CASE UNCHANGED vars
  BY <1>6, AltKept DEF vars
<1> QED BY <1>1, <1>2, <1>3, <1>4, <1>5, <1>6, AltQueues, AltConfigures, AltAssigns,
        AltEvents DEF Next, QueueFrameSteps, ConfigureStep

(* When no VdsEvtEndpointsConfigure callback runs, the last frame the      *)
(* daemon was sent about an audio interface says what its setting is,      *)
(* unless that frame was lost to a full ring, the callback failed, or a    *)
(* SET_INTERFACE request went by it.                                       *)
THEOREM SettingsReported == Spec => []AltReported
<1> DEFINE Inv == UrbTypes /\ AltInv
<1>1. Init => Inv
  <2> SUFFICES ASSUME Init PROVE Inv
    OBVIOUS
  <2>1. UrbTypes
    BY TypeInit DEF TypeInv, TypeOK
  <2>2. \A t \in Threads : pc[t] = Idle
    BY DEF Init
  <2>3. "cfg" \in Threads /\ Idle.at # "frame"
    BY PlaceKinds DEF Threads
  <2>4. \A i \in Iso : Known(i)
    BY DEF Init, Known
  <2>5. cfg = Idle
    BY DEF Init
  <2>6. AltInv
    BY <2>2, <2>3, <2>4, <2>5 DEF AltInv
  <2> QED BY <2>1, <2>6
<1>2. Inv /\ [Next]_vars => Inv'
  BY UrbTypeStep, AltStep
<1>3. Inv => AltReported
  <2> SUFFICES ASSUME UrbTypes, AltInv, cfg = Idle, NEW i \in Iso
               PROVE  told[i] \in {alt[i], Lost}
    BY DEF AltReported
  <2>1. alt[i] \in {0, 1} /\ pc["cfg"] = Idle /\ Known(i)
    BY DEF UrbTypes, AltInv
  <2>2. ~Says(pc["cfg"], i, alt[i])
    BY <2>1, FrameSays
  <2> QED BY <2>1, <2>2 DEF Known, Unreported
<1> HIDE DEF Inv
<1> QED BY <1>1, <1>2, <1>3, PTL DEF Spec

-----------------------------------------------------------------------------
(* The driver does not get stuck.                                          *)

Timed    == {"unstarted", "armed", "expired"}
Settling == {"expired", "finish", "done"}

(* A URB asks what its endpoint serves, and its timer is published only    *)
(* from its creation to its callback.                                      *)
UrbSound(u) ==
  /\ urb[u].req \in Requests(urb[u].ep)
  /\ urb[u].pub => urb[u].st \in Timed

(* The configure callback waits in WdfTimerStop for no timer that has not  *)
(* expired: only for a URB that is being completed, or has been.           *)
FlushWaits ==
  cfg # Idle => \/ cfg.wait = None
                \/ \E u \in Urbs : cfg.wait = u /\ urb[u].st \in Settling

FlushInv == (\A u \in Urbs : UrbSound(u)) /\ FlushWaits

(* A step keeps the URBs sound and takes none out of its completion.       *)
KeepsUrbs ==
  \A u \in Urbs : UrbSound(u)' /\ (urb[u].st \in Settling => urb'[u].st \in Settling)

(* A URB that a step leaves alone, but for the queue it belongs to.        *)
LEMMA SoundKept ==
  ASSUME NEW u \in Urbs, UrbSound(u), urb'[u].st = urb[u].st, urb'[u].pub = urb[u].pub,
         urb'[u].ep = urb[u].ep, urb'[u].req = urb[u].req
  PROVE  UrbSound(u)' /\ (urb[u].st \in Settling => urb'[u].st \in Settling)
  BY DEF UrbSound

(* A URB whose place and timer a step changes, the others untouched.       *)
LEMMA SoundMoves ==
  ASSUME urb \in [Urbs -> UrbType], \A v \in Urbs : UrbSound(v), NEW u \in Urbs,
         NEW st \in UrbStates, NEW pub \in BOOLEAN,
         urb' = [urb EXCEPT ![u] = [urb[u] EXCEPT !.st = st, !.pub = pub]],
         pub => st \in Timed, urb[u].st \in Settling => st \in Settling
  PROVE  KeepsUrbs
<1>1. urb[u] \in UrbType
  OBVIOUS
<1> DEFINE x == [urb[u] EXCEPT !.st = st, !.pub = pub]
<1>2. x.st = st /\ x.pub = pub /\ x.ep = urb[u].ep /\ x.req = urb[u].req
  BY <1>1 DEF UrbType
<1>3. urb' = [urb EXCEPT ![u] = x]
  OBVIOUS
<1> HIDE DEF x
<1>4. urb'[u] = x
  BY <1>3
<1>5. UrbSound(u)' /\ (urb[u].st \in Settling => urb'[u].st \in Settling)
  BY <1>2, <1>4 DEF UrbSound
<1>6. ASSUME NEW v \in Urbs, v # u
      PROVE  UrbSound(v)' /\ (urb[v].st \in Settling => urb'[v].st \in Settling)
  <2>1. urb'[v] = urb[v]
    BY <1>3, <1>6
  <2> QED BY <2>1, SoundKept
<1> QED BY <1>5, <1>6 DEF KeepsUrbs

(* A URB given back, or one submitted, has no timer.                       *)
LEMMA SoundAnew ==
  ASSUME urb \in [Urbs -> UrbType], \A v \in Urbs : UrbSound(v), NEW u \in Urbs,
         NEW x \in UrbType, urb' = [urb EXCEPT ![u] = x], ~x.pub, x.req \in Requests(x.ep),
         urb[u].st \in Settling => x.st \in Settling
  PROVE  KeepsUrbs
<1>1. UrbSound(u)' /\ (urb[u].st \in Settling => urb'[u].st \in Settling)
  BY DEF UrbSound
<1>2. ASSUME NEW v \in Urbs, v # u
      PROVE  UrbSound(v)' /\ (urb[v].st \in Settling => urb'[v].st \in Settling)
  <2>1. urb'[v] = urb[v]
    BY <1>2
  <2> QED BY <2>1, SoundKept
<1> QED BY <1>1, <1>2 DEF KeepsUrbs

(* The step of one URB.                                                    *)
LEMMA SoundUrbStep ==
  ASSUME urb \in [Urbs -> UrbType], \A v \in Urbs : UrbSound(v), NEW u \in Urbs, UrbStep(u)
  PROVE  KeepsUrbs
<1>0. urb[u] \in UrbType /\ urb[u].pub \in BOOLEAN /\ urb[u].done \in Nat /\ UrbSound(u)
  BY DEF UrbType
<1>1. ASSUME NEW st \in UrbStates, Becomes(u, st),
             urb[u].pub => st \in Timed, urb[u].st \notin Settling
      PROVE  KeepsUrbs
  <2>1. urb' = [urb EXCEPT ![u] = [urb[u] EXCEPT !.st = st, !.pub = urb[u].pub]]
    BY <1>0, <1>1 DEF Becomes, UrbType
  <2> QED BY <1>0, <1>1, <2>1, SoundMoves
<1>2. \A st \in {"delay", "armed", "expired", "finish", "unstarted", "done", "cancelled"} :
        st \in UrbStates
  BY DEF UrbStates
<1>3. ASSUME urb[u].st \in {"queued", "delay"}
      PROVE  ~urb[u].pub /\ urb[u].st \notin Settling
  BY <1>0, <1>3 DEF UrbSound, Timed, Settling
<1>4. CASE \/ VdsEvtControlUrb(u) \/ VdsEvtHidOutUrb(u) \/ VdsEvtIsoInUrb(u)
           \/ VdsEvtIsoOutUrb(u) \/ VdsEvtHidInUrb(u)
  <2>1. urb[u].st = "queued" /\ \E st \in {"delay", "finish"} : Becomes(u, st)
    BY <1>4 DEF VdsEvtControlUrb, VdsEvtHidOutUrb, VdsEvtIsoInUrb, VdsEvtIsoOutUrb,
       VdsEvtHidInUrb, Delivered
  <2> QED BY <1>1, <1>2, <1>3, <2>1
<1>5. CASE PublishTimer(u)
  <2>1. urb[u].st = "delay"
    BY <1>5 DEF PublishTimer
  <2>2. CASE urb' = [urb EXCEPT ![u].st = "unstarted", ![u].pub = TRUE]
    <3>1. urb' = [urb EXCEPT ![u] = [urb[u] EXCEPT !.st = "unstarted", !.pub = TRUE]]
      BY <2>2
    <3>2. "unstarted" \in Timed /\ urb[u].st \notin Settling
      BY <1>3, <2>1 DEF Timed
    <3> QED BY <1>2, <3>1, <3>2, SoundMoves
  <2>3. CASE Becomes(u, "finish")
    BY <1>1, <1>2, <1>3, <2>1, <2>3
  <2> QED BY <1>5, <2>2, <2>3 DEF PublishTimer
<1>6. CASE StartTimer(u)
  <2>1. "armed" \in Timed /\ urb[u].st \notin Settling /\ Becomes(u, "armed")
    BY <1>6 DEF StartTimer, Timed, Settling
  <2> QED BY <1>1, <1>2, <2>1
<1>7. CASE TimerExpires(u)
  <2>1. "expired" \in Timed /\ urb[u].st \notin Settling /\ Becomes(u, "expired")
    BY <1>7 DEF TimerExpires, Timed, Settling
  <2> QED BY <1>1, <1>2, <2>1
<1>8. CASE VdsEvtDelayedUrbCompletionTimer(u)
  <2>1. urb' = [urb EXCEPT ![u] = [urb[u] EXCEPT !.st = "finish", !.pub = FALSE]]
    BY <1>8 DEF VdsEvtDelayedUrbCompletionTimer
  <2>2. "finish" \in Settling
    BY DEF Settling
  <2> QED BY <1>2, <2>1, <2>2, SoundMoves
<1>9. ASSUME NEW st \in {"done", "cancelled"}, NEW n \in Nat,
             urb' = [urb EXCEPT ![u] = Gone(st, n)],
             urb[u].st \in Settling => st \in Settling
      PROVE  KeepsUrbs
  <2> DEFINE x == Gone(st, n)
  <2>1. x \in UrbType /\ ~x.pub /\ x.st = st /\ x.req \in Requests(x.ep)
    BY <1>2 DEF Gone, UrbType, Endpoints, Requests
  <2> HIDE DEF x
  <2>2. urb' = [urb EXCEPT ![u] = x]
    BY <1>9 DEF x
  <2> QED BY <1>9, <2>1, <2>2, SoundAnew
<1>10. CASE VdsCompleteUrbAsync(u)
  <2>1. urb' = [urb EXCEPT ![u] = Gone("done", urb[u].done + 1)] /\ "done" \in Settling
    BY <1>10 DEF VdsCompleteUrbAsync, Settling
  <2>2. urb[u].done + 1 \in Nat
    BY <1>0
  <2> QED BY <1>9, <2>1, <2>2
<1>11. CASE Cancel(u)
  <2>1. urb' = [urb EXCEPT ![u] = Gone("cancelled", 0)] /\ urb[u].st = "queued"
    BY <1>11 DEF Cancel
  <2> QED BY <1>3, <1>9, <2>1
<1> QED BY <1>4, <1>5, <1>6, <1>7, <1>8, <1>10, <1>11 DEF UrbStep

(* A child replaced, or a queue, takes nothing from a URB but the queue.   *)
LEMMA SoundReplaced ==
  ASSUME urb \in [Urbs -> UrbType], \A v \in Urbs : UrbSound(v), 
         NEW old \in [Urbs -> BOOLEAN],
         urb' = [u \in Urbs |-> [urb[u] EXCEPT !.old = old[u]]]
  PROVE  KeepsUrbs
<1> SUFFICES ASSUME NEW u \in Urbs
             PROVE  UrbSound(u)' /\ (urb[u].st \in Settling => urb'[u].st \in Settling)
  BY DEF KeepsUrbs
<1>1. urb[u] \in UrbType /\ urb'[u] = [urb[u] EXCEPT !.old = old[u]]
  OBVIOUS
<1>2. /\ urb'[u].st = urb[u].st /\ urb'[u].pub = urb[u].pub
      /\ urb'[u].ep = urb[u].ep /\ urb'[u].req = urb[u].req
  BY <1>1 DEF UrbType
<1> QED BY <1>2, SoundKept

(* A wait goes on being for a URB in completion.                           *)
LEMMA WaitKept ==
  ASSUME FlushWaits, KeepsUrbs, cfg' # Idle => cfg # Idle /\ cfg'.wait = cfg.wait
  PROVE  FlushInv'
<1>1. \A u \in Urbs : UrbSound(u)'
  BY DEF KeepsUrbs
<1>2. FlushWaits'
  BY DEF FlushWaits, KeepsUrbs
<1> QED BY <1>1, <1>2 DEF FlushInv

(* The flush waits for a timer that has expired; one that was armed it has *)
(* stopped, and completes the URB; for one not yet started it does not.    *)
LEMMA SoundFlush ==
  ASSUME UrbTypes, FlushInv, NEW e \in Iso, ReleaseEndpoint(e)
  PROVE  FlushInv'
<1>0. urb \in [Urbs -> UrbType] /\ cfg \in CfgRunning /\ cfg # Idle
      /\ (\A v \in Urbs : UrbSound(v)) /\ FlushWaits
  BY FlushMove, CfgKinds DEF UrbTypes, FlushInv
<1>1. VdsFlushDelayedEndpointUrb(e)
  BY DEF ReleaseEndpoint
<1>2. CASE Published(e) = {}
  <2>1. UNCHANGED urb /\ cfg' = [cfg EXCEPT !.todo = @ \ {e}]
    BY <1>1, <1>2 DEF VdsFlushDelayedEndpointUrb
  <2>2. cfg'.wait = cfg.wait
    BY <1>0, <2>1 DEF CfgRunning
  <2>3. KeepsUrbs
    BY <1>0, <2>1, SoundKept DEF KeepsUrbs
  <2> QED BY <1>0, <2>2, <2>3, WaitKept
<1>3. CASE Published(e) # {}
  <2> DEFINE u == CHOOSE x \in Published(e) : TRUE
             st == IF urb[u].st = "armed" THEN "finish" ELSE urb[u].st
             w == IF urb[u].st = "unstarted" THEN None ELSE u
  <2>1. u \in Urbs /\ urb[u].pub
    BY <1>3 DEF Published
  <2>2. /\ urb' = [urb EXCEPT ![u].pub = FALSE,
                              ![u].st = IF urb[u].st = "armed" THEN "finish" ELSE @]
        /\ cfg' = [cfg EXCEPT !.todo = @ \ {e}, !.wait = w]
    BY <1>1, <1>3 DEF VdsFlushDelayedEndpointUrb
  <2> HIDE DEF u
  <2>3. urb[u] \in UrbType /\ urb[u].st \in Timed
    BY <1>0, <2>1 DEF UrbSound
  <2>4. /\ st \in UrbStates /\ (urb[u].st \in Settling => st \in Settling)
        /\ urb[u].st # "unstarted" => st \in Settling
    BY <2>3 DEF UrbStates, Timed, Settling
  <2>5. urb' = [urb EXCEPT ![u] = [urb[u] EXCEPT !.st = st, !.pub = FALSE]]
    BY <1>0, <2>1, <2>2, <2>3 DEF UrbType
  <2> HIDE DEF st
  <2>6. KeepsUrbs
    BY <1>0, <2>1, <2>4, <2>5, SoundMoves
  <2>7. urb'[u].st = st
    BY <1>0, <2>1, <2>3, <2>5 DEF UrbType
  <2>8. cfg'.wait = w
    <3> HIDE DEF w
    <3> QED BY <1>0, <2>2 DEF CfgRunning
  <2>9. FlushWaits'
    BY <2>1, <2>4, <2>7, <2>8 DEF FlushWaits
  <2> QED BY <2>6, <2>9 DEF KeepsUrbs, FlushInv
<1> QED BY <1>2, <1>3

(* Every step keeps the URBs sound and the wait for one in completion.     *)
LEMMA FlushStep ==
  ASSUME UrbTypes, FlushInv, [Next]_vars
  PROVE  FlushInv'
<1>0. urb \in [Urbs -> UrbType] /\ cfg \in CfgType
      /\ (\A v \in Urbs : UrbSound(v)) /\ FlushWaits
  BY DEF UrbTypes, FlushInv
<1>1. ASSUME urb' = urb, cfg' # Idle => cfg # Idle /\ cfg'.wait = cfg.wait
      PROVE  FlushInv'
  <2>1. KeepsUrbs
    BY <1>0, <1>1, SoundKept DEF KeepsUrbs
  <2> QED BY <1>0, <1>1, <2>1, WaitKept
<1>2. ASSUME ChildReplaced PROVE FlushInv'
  <2> DEFINE old == [u \in Urbs |-> urb[u].st \notin {"free", "done", "cancelled"}]
  <2>1. old \in [Urbs -> BOOLEAN]
    OBVIOUS
  <2>2. urb' = [u \in Urbs |-> [urb[u] EXCEPT !.old = old[u]]]
    BY <1>2 DEF ChildReplaced
  <2> HIDE DEF old
  <2>3. KeepsUrbs
    BY <1>0, <2>1, <2>2, SoundReplaced
  <2>4. cfg' # Idle => cfg # Idle /\ cfg'.wait = cfg.wait
    <3>1. CASE cfg = Idle
      BY <1>2, <3>1 DEF ChildReplaced
    <3>2. CASE cfg # Idle
      <4>1. cfg \in CfgRunning /\ cfg' = [cfg EXCEPT !.gone = TRUE]
        BY <1>0, <1>2, <3>2, CfgKinds DEF ChildReplaced
      <4> QED BY <3>2, <4>1 DEF CfgRunning
    <3> QED BY <3>1, <3>2
  <2> QED BY <1>0, <2>3, <2>4, WaitKept
<1>3. CASE Control
  BY <1>1, <1>2, <1>3, ControlLeaves
<1>4. CASE QueueFrameSteps
  BY <1>1, <1>4 DEF QueueFrameSteps, VdsQueueFrame, CheckRing, TakeRead
<1>5. ASSUME NEW u \in Urbs, UrbStep(u) PROVE FlushInv'
  <2>1. KeepsUrbs /\ cfg' = cfg
    BY <1>0, <1>5, SoundUrbStep, UrbMove
  <2> QED BY <1>0, <2>1, WaitKept
<1>6. ASSUME NEW u \in Urbs, NEW ep \in Endpoints, NEW req \in Requests(ep),
             Submit(u, ep, req)
      PROVE  FlushInv'
  <2> DEFINE x == [st |-> "queued", ep |-> ep, req |-> req,
                   pub |-> FALSE, old |-> FALSE, done |-> 0]
  <2>1. x \in UrbType /\ ~x.pub /\ x.req \in Requests(x.ep)
    BY DEF UrbType, UrbStates
  <2>2. urb' = [urb EXCEPT ![u] = x] /\ cfg' = cfg /\ urb[u].st = "free"
    BY <1>6 DEF Submit
  <2> HIDE DEF x
  <2>3. KeepsUrbs
    BY <1>0, <2>1, <2>2, SoundAnew DEF Settling
  <2> QED BY <1>0, <2>2, <2>3, WaitKept
<1>7. ASSUME NEW r \in ConfigureRequests, Configure(r) PROVE FlushInv'
  <2>1. urb' = urb /\ cfg'.wait = None
    BY <1>7 DEF Configure
  <2>2. FlushWaits'
    BY <2>1 DEF FlushWaits
  <2>3. \A u \in Urbs : UrbSound(u)'
    BY <1>0, <2>1, SoundKept
  <2> QED BY <2>2, <2>3 DEF FlushInv
<1>8. ASSUME NEW e \in Iso, ReleaseEndpoint(e) PROVE FlushInv'
  BY <1>8, SoundFlush
<1>9. ASSUME NEW a \in {"audio_out", "audio_in", "hid", "complete"}, cfg.at # "none",
             cfg' = [cfg EXCEPT !.at = a]
      PROVE  cfg # Idle /\ cfg'.wait = cfg.wait
  <2>1. cfg \in CfgRunning
    BY <1>9, CfgAt
  <2> QED BY <1>9, <2>1, CfgKinds DEF CfgRunning
<1>10. CASE VdsAssignFreshEndpointQueue
  <2> DEFINE stale == IF cfg.gone THEN {} ELSE cfg.req.conf \intersect released
             old == [u \in Urbs |-> urb[u].old \/ (urb[u].ep \in stale /\ urb[u].st # "free")]
  <2>1. CASE /\ urb' = [u \in Urbs |->
                          [urb[u] EXCEPT !.old = @ \/ (urb[u].ep \in stale /\ urb[u].st # "free")]]
             /\ cfg' = [cfg EXCEPT !.at = "audio_out"]
    <3>1. old \in [Urbs -> BOOLEAN]
      BY <1>0 DEF UrbType
    <3>2. urb' = [u \in Urbs |-> [urb[u] EXCEPT !.old = old[u]]]
      BY <2>1
    <3> HIDE DEF old
    <3>3. KeepsUrbs
      BY <1>0, <3>1, <3>2, SoundReplaced
    <3>4. cfg # Idle /\ cfg'.wait = cfg.wait
      BY <1>9, <1>10, <2>1 DEF VdsAssignFreshEndpointQueue
    <3> QED BY <1>0, <3>3, <3>4, WaitKept
  <2>2. CASE cfg' = Idle /\ urb' = urb
    BY <1>1, <2>2
  <2> QED BY <1>10, <2>1, <2>2 DEF VdsAssignFreshEndpointQueue
<1>11. CASE EventStep
  <2>1. urb' = urb /\ cfg.at # "none"
        /\ \E a \in {"audio_in", "hid", "complete"} : cfg' = [cfg EXCEPT !.at = a]
    BY <1>11 DEF EventStep
  <2> QED BY <1>1, <1>9, <2>1
<1>12. CASE CompleteConfigure
  BY <1>1, <1>12 DEF CompleteConfigure
<1>13. CASE UNCHANGED vars
  BY <1>1, <1>13 DEF vars
<1> QED BY <1>3, <1>4, <1>5, <1>6, <1>7, <1>8, <1>10, <1>11, <1>12, <1>13
        DEF Next, ConfigureStep

(* Where each actor is when it has something in hand.                      *)
LEMMA InHandKinds ==
  ASSUME TypeOK
  PROVE  /\ \A t \in Threads : pc[t] = Idle \/ pc[t].at \in {"frame", "check", "take"}
         /\ ctl = Idle \/ ctl.at \in {"plug", "undo", "unplug", "store"}
         /\ \A u \in Urbs : urb[u].st \in UrbStates
         /\ pc = [t \in Threads |-> pc[t]]
<1>1. pc \in [Threads -> Places] /\ ctl \in CtlType /\ urb \in [Urbs -> UrbType]
  BY DEF TypeOK, PortTypes, UrbTypes
<1>2. \A p \in Places : p = Idle \/ p.at \in {"frame", "check", "take"}
  BY DEF Places
<1>3. \A c \in CtlType : c = Idle \/ c.at \in {"plug", "undo", "unplug", "store"}
  BY DEF CtlType
<1>4. \A x \in UrbType : x.st \in UrbStates
  BY DEF UrbType
<1> QED BY <1>1, <1>2, <1>3, <1>4

(* A URB the driver is busy with, or UdeCx has queued, has a step to take, *)
(* or some other URB or some thread has.                                   *)
LEMMA UrbHasStep ==
  ASSUME TypeOK, FlushInv, NEW u \in Urbs, urb[u].st \notin {"free", "done", "cancelled"}
  PROVE  Ready
<1>1. ASSUME NEW v \in Urbs, InDriver(v) PROVE Ready
  <2>1. urb[v].st \in {"delay", "unstarted", "armed", "expired", "finish"}
    BY <1>1, InHandKinds DEF InDriver, UrbStates
  <2>2. CASE urb[v].st = "finish" /\ pc[v] # Idle
    <3>1. v \in Threads
      BY DEF Threads
    <3> QED BY <2>2, <3>1, InHandKinds DEF Ready
  <2>3. CASE ~(urb[v].st = "finish" /\ pc[v] # Idle)
    BY <2>1, <2>3 DEF Ready, UrbReady
  <2> QED BY <2>2, <2>3
<1>2. CASE urb[u].st # "queued"
  BY <1>1, <1>2 DEF InDriver
<1>3. CASE urb[u].st = "queued"
  <2>1. CASE urb[u].old
    BY <1>3, <2>1 DEF Ready, UrbReady
  <2>2. CASE ~urb[u].old /\ \E v \in Urbs : InDriver(v)
    BY <1>1, <2>2
  <2>3. CASE ~urb[u].old /\ ~\E v \in Urbs : InDriver(v)
    <3>1. Delivered(u) /\ urb[u].req \in Requests(urb[u].ep)
      BY <1>3, <2>3 DEF Delivered, FlushInv, UrbSound
    <3> QED BY <3>1 DEF Ready, UrbReady
  <2> QED BY <2>1, <2>2, <2>3
<1> QED BY <1>2, <1>3

(* A configure callback that has not returned has a step to take, or what  *)
(* it waits for has.                                                       *)
LEMMA CfgHasStep ==
  ASSUME TypeOK, FlushInv, cfg # Idle
  PROVE  Ready
<1>1. CASE cfg.at # "release"
  <2>1. "cfg" \in Threads
    BY DEF Threads
  <2> QED BY <1>1, <2>1, InHandKinds DEF Ready, CfgReady
<1>2. CASE cfg.at = "release" /\ Waited
  BY <1>2 DEF Ready, CfgReady
<1>3. CASE ~Waited
  <2>1. PICK u \in Urbs : cfg.wait = u /\ urb[u].st \in Settling
    BY <1>3 DEF FlushInv, FlushWaits, Waited
  <2>2. urb[u].st \in {"expired", "finish"}
    BY <1>3, <2>1 DEF Waited, Settling
  <2> QED BY <2>2, UrbHasStep
<1> QED BY <1>1, <1>2, <1>3

(* The driver does not come to rest with something in hand, for any number *)
(* of URBs: unless every URB is given back, the control queue is free, the *)
(* configure callback has returned and no thread is in the ring's loop,    *)
(* the guard of some step of the driver holds.  In particular the flush of *)
(* VdsFlushDelayedEndpointUrb waits in WdfTimerStop for nothing that waits *)
(* for it.  Of SettlesClean this leaves to TLC that the guards written out *)
(* in Ready are those of DriverStep (ENABLED).                             *)
THEOREM NeverStuck == Spec => [](AtRest \/ Ready)
<1> DEFINE Inv == TypeInv /\ FlushInv
<1>1. Init => Inv
  <2> SUFFICES ASSUME Init PROVE FlushInv
    BY TypeInit
  <2>1. Gone("free", 0).req \in Requests(Gone("free", 0).ep) /\ ~Gone("free", 0).pub
    BY DEF Gone, Requests
  <2>2. \A u \in Urbs : urb[u] = Gone("free", 0)
    BY DEF Init
  <2>3. cfg = Idle
    BY DEF Init
  <2> QED BY <2>1, <2>2, <2>3 DEF FlushInv, FlushWaits, UrbSound
<1>2. Inv /\ [Next]_vars => Inv'
  BY TypeStep, FlushStep DEF TypeInv, TypeOK
<1>3. Inv => AtRest \/ Ready
  <2> SUFFICES ASSUME TypeOK, FlushInv, ~Ready PROVE AtRest
    BY DEF TypeInv
  <2>1. \A u \in Urbs : urb[u].st \in {"free", "done", "cancelled"}
    BY UrbHasStep
  <2>2. cfg = Idle
    BY CfgHasStep
  <2>3. ctl = Idle /\ \A t \in Threads : pc[t] = Idle
    BY InHandKinds DEF Ready
  <2>4. pc = [t \in Threads |-> Idle]
    BY <2>3, InHandKinds
  <2> QED BY <2>1, <2>2, <2>3, <2>4 DEF AtRest
<1> HIDE DEF Inv
<1> QED BY <1>1, <1>2, <1>3, PTL DEF Spec
=============================================================================
