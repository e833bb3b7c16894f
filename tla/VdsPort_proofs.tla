--------------------------- MODULE VdsPort_proofs ---------------------------
(***************************************************************************)
(* Proofs about the port of the virtual host controller: the microphone    *)
(* queue (AudioIn), the hot-plug protocol between the character device and *)
(* the hub driver, and the hand-over of the port between its openers       *)
(* (VdsPort).                                                              *)
(***************************************************************************)
EXTENDS VdsPort, SequenceTheorems, TLAPS

-----------------------------------------------------------------------------
(* The microphone queue.                                                   *)

Packet == [lo : Nat, hi : Nat]

(* The queue q is in the order of the stream, without a gap up to w, and   *)
(* holds nothing before h or f.                                            *)
Ordered(q, w, h, f) ==
    \A i \in 1 .. Len(q) :
        /\ q[i].lo < q[i].hi /\ q[i].hi <= w
        /\ q[i].lo >= h /\ q[i].lo >= f
        /\ i = Len(q) => q[i].hi = w
        /\ i < Len(q) => q[i].hi = q[i + 1].lo
        /\ \A j \in 1 .. Len(q) : i < j => q[i].hi <= q[j].lo

(* The number of bytes from the first of q to the end of the stream.       *)
Backlog(q, w) == IF q = <<>> THEN 0 ELSE w - q[1].lo

(* What the removal of the first packet does to a sequence.                *)
LEMMA TailPackets ==
    ASSUME NEW q \in Seq(Packet), q # <<>>
    PROVE  /\ Tail(q) \in Seq(Packet)
           /\ Len(q) \in Nat /\ Len(q) > 0
           /\ Len(Tail(q)) = Len(q) - 1
           /\ \A i \in 1 .. Len(Tail(q)) : Tail(q)[i] = q[i + 1]
           /\ Tail(q) = <<>> <=> Len(q) = 1
<1>1. /\ Tail(q) \in Seq(Packet) /\ Len(Tail(q)) = Len(q) - 1
      /\ \A i \in 1 .. Len(Tail(q)) : Tail(q)[i] = q[i + 1]
  BY HeadTailProperties
<1>2. Len(q) \in Nat /\ Len(q) > 0
  BY EmptySeq, LenProperties
<1>3. Tail(q) = <<>> <=> Len(Tail(q)) = 0
  BY <1>1, EmptySeq
<1> QED BY <1>1, <1>2, <1>3

(* What a new last packet does to a sequence.                              *)
LEMMA AppendPackets ==
    ASSUME NEW q \in Seq(Packet), NEW e \in Packet
    PROVE  /\ Append(q, e) \in Seq(Packet) /\ Append(q, e) # <<>>
           /\ Len(q) \in Nat
           /\ Len(Append(q, e)) = Len(q) + 1
           /\ \A i \in 1 .. Len(q) : Append(q, e)[i] = q[i]
           /\ Append(q, e)[Len(q) + 1] = e
BY AppendProperties, LenProperties

(* The packets of a queue have Nat ends, and an empty queue no packet.     *)
LEMMA PacketEnds ==
    ASSUME NEW q \in Seq(Packet)
    PROVE  /\ Len(q) \in Nat
           /\ \A i \in 1 .. Len(q) : q[i].lo \in Nat /\ q[i].hi \in Nat
           /\ q = <<>> <=> Len(q) = 0
<1>1. Len(q) \in Nat /\ (q = <<>> <=> Len(q) = 0)
  BY EmptySeq, LenProperties
<1>2. \A i \in 1 .. Len(q) : q[i] \in Packet
  BY ElementOfSeq
<1> QED BY <1>1, <1>2 DEF Packet

(* Without its first packet the queue is ordered still, and its backlog is *)
(* shorter by what was left of that packet.                                *)
LEMMA OrderedTail ==
    ASSUME NEW q \in Seq(Packet), q # <<>>,
           NEW w \in Nat, NEW h \in Nat, NEW f \in Nat, Ordered(q, w, h, f)
    PROVE  /\ Ordered(Tail(q), w, q[1].hi, f)
           /\ Ordered(Tail(q), w, h, f)
           /\ Backlog(Tail(q), w) = w - q[1].hi
           /\ Tail(q) # <<>> => w > q[1].hi
           /\ Tail(q) = <<>> => w = q[1].hi
<1> DEFINE t == Tail(q)
<1>1. /\ t \in Seq(Packet) /\ Len(q) \in Nat /\ Len(q) > 0
      /\ Len(t) = Len(q) - 1 /\ (t = <<>> <=> Len(q) = 1)
      /\ \A i \in 1 .. Len(t) : t[i] = q[i + 1]
  BY TailPackets
<1>2. \A i \in 1 .. Len(q) : q[i].lo \in Nat /\ q[i].hi \in Nat
  BY PacketEnds
<1> HIDE DEF t
<1>3. Ordered(t, w, h, f) /\ Ordered(t, w, q[1].hi, f)
  <2> SUFFICES ASSUME NEW i \in 1 .. Len(t)
               PROVE  /\ t[i].lo < t[i].hi /\ t[i].hi <= w
                      /\ t[i].lo >= h /\ t[i].lo >= q[1].hi /\ t[i].lo >= f
                      /\ i = Len(t) => t[i].hi = w
                      /\ i < Len(t) => t[i].hi = t[i + 1].lo
                      /\ \A j \in 1 .. Len(t) : i < j => t[i].hi <= t[j].lo
    BY DEF Ordered
  <2>1. i + 1 \in 1 .. Len(q) /\ t[i] = q[i + 1] /\ 1 < i + 1 /\ 1 \in 1 .. Len(q)
    BY <1>1
  <2>2. /\ t[i].lo < t[i].hi /\ t[i].hi <= w
        /\ t[i].lo >= h /\ t[i].lo >= q[1].hi /\ t[i].lo >= f
    BY <2>1 DEF Ordered
  <2>3. i = Len(t) => t[i].hi = w
    BY <1>1, <2>1 DEF Ordered
  <2>4. ASSUME i < Len(t) PROVE t[i].hi = t[i + 1].lo
    <3>1. i + 1 \in 1 .. Len(t) /\ i + 1 < Len(q)
      BY <1>1, <2>4
    <3>2. t[i + 1] = q[(i + 1) + 1]
      BY <1>1, <3>1
    <3> QED BY <2>1, <3>1, <3>2 DEF Ordered
  <2>5. ASSUME NEW j \in 1 .. Len(t), i < j PROVE t[i].hi <= t[j].lo
    <3>1. j + 1 \in 1 .. Len(q) /\ t[j] = q[j + 1] /\ i + 1 < j + 1
      BY <1>1, <2>5
    <3> QED BY <2>1, <3>1 DEF Ordered
  <2> QED BY <2>2, <2>3, <2>4, <2>5
<1>4. t = <<>> => w = q[1].hi
  BY <1>1, <1>2 DEF Ordered
<1>5. t # <<>> => t[1].lo = q[1].hi /\ w > q[1].hi
  <2> SUFFICES ASSUME t # <<>> PROVE t[1].lo = q[1].hi /\ w > q[1].hi
    OBVIOUS
  <2>1. Len(q) > 1 /\ 2 \in 1 .. Len(q) /\ 1 \in 1 .. Len(q) /\ t[1] = q[2]
    BY <1>1
  <2> QED BY <1>2, <2>1 DEF Ordered
<1>6. Backlog(t, w) = w - q[1].hi
  BY <1>1, <1>2, <1>4, <1>5 DEF Backlog
<1> QED BY <1>3, <1>4, <1>5, <1>6 DEF t

(* The empty queue is ordered and has no backlog.                          *)
LEMMA OrderedEmpty ==
    ASSUME NEW w, NEW h, NEW f
    PROVE  Ordered(<<>>, w, h, f) /\ Backlog(<<>>, w) = 0
BY DEF Ordered, Backlog

(* A frame of n bytes is appended at the end of the stream.                *)
LEMMA OrderedAppend ==
    ASSUME packets \in Seq(Packet), written \in Nat, heard \in Nat, flushed \in Nat,
           todo \in Nat \ {0}, heard <= written, flushed <= written,
           Ordered(packets, written, heard, flushed),
           NEW r, r = Append(packets, [lo |-> written, hi |-> written + todo])
    PROVE  /\ r \in Seq(Packet) /\ r # <<>> /\ Len(r) = Len(packets) + 1
           /\ Ordered(r, written + todo, heard, flushed)
           /\ Backlog(r, written + todo) = Backlog(packets, written) + todo
<1> DEFINE e == [lo |-> written, hi |-> written + todo]
<1>1. e \in Packet /\ e.lo = written /\ e.hi = written + todo
  BY DEF Packet
<1>2. r = Append(packets, e)
  OBVIOUS
<1> HIDE DEF e
<1>3. /\ r \in Seq(Packet) /\ r # <<>> /\ Len(packets) \in Nat /\ Len(r) = Len(packets) + 1
      /\ \A i \in 1 .. Len(packets) : r[i] = packets[i]
      /\ r[Len(packets) + 1] = e
  BY <1>2, <1>1, AppendPackets
<1>4. \A i \in 1 .. Len(packets) : packets[i].lo \in Nat /\ packets[i].hi \in Nat
  BY PacketEnds
<1>5. Ordered(r, written + todo, heard, flushed)
  <2> SUFFICES ASSUME NEW i \in 1 .. Len(r)
               PROVE  /\ r[i].lo < r[i].hi /\ r[i].hi <= written + todo
                      /\ r[i].lo >= heard /\ r[i].lo >= flushed
                      /\ i = Len(r) => r[i].hi = written + todo
                      /\ i < Len(r) => r[i].hi = r[i + 1].lo
                      /\ \A j \in 1 .. Len(r) : i < j => r[i].hi <= r[j].lo
    BY DEF Ordered
  <2>1. CASE i = Len(packets) + 1
    BY <1>1, <1>3, <2>1
  <2>2. CASE i \in 1 .. Len(packets)
    <3>1. /\ r[i] = packets[i] /\ packets[i].lo \in Nat /\ packets[i].hi \in Nat
          /\ packets[i].lo < packets[i].hi /\ packets[i].hi <= written
          /\ packets[i].lo >= heard /\ packets[i].lo >= flushed
      BY <1>3, <1>4, <2>2 DEF Ordered
    <3>2. r[i].hi = r[i + 1].lo
      <4>1. CASE i = Len(packets)
        BY <1>1, <1>3, <2>2, <3>1, <4>1 DEF Ordered
      <4>2. CASE i # Len(packets)
        <5>1. i + 1 \in 1 .. Len(packets) /\ i < Len(packets)
          BY <1>3, <2>2, <4>2
        <5>2. r[i + 1] = packets[i + 1]
          BY <1>3, <5>1
        <5> QED BY <2>2, <3>1, <5>1, <5>2 DEF Ordered
      <4> QED BY <4>1, <4>2
    <3>3. ASSUME NEW j \in 1 .. Len(r), i < j PROVE r[i].hi <= r[j].lo
      <4>1. CASE j = Len(packets) + 1
        BY <1>1, <1>3, <3>1, <4>1
      <4>2. CASE j # Len(packets) + 1
        <5>1. j \in 1 .. Len(packets) /\ r[j] = packets[j]
          BY <1>3, <4>2
        <5> QED BY <2>2, <3>1, <3>3, <5>1 DEF Ordered
      <4> QED BY <4>1, <4>2
    <3>4. i # Len(r)
      BY <1>3, <2>2
    <3>5. /\ r[i].lo < r[i].hi /\ r[i].hi <= written + todo
          /\ r[i].lo >= heard /\ r[i].lo >= flushed
      BY <3>1
    <3> QED BY <3>2, <3>3, <3>4, <3>5, Zenon
  <2> QED BY <1>3, <2>1, <2>2
<1>6. Backlog(r, written + todo) = Backlog(packets, written) + todo
  <2>1. CASE packets = <<>>
    <3>1. Len(packets) = 0
      BY <2>1
    <3> QED BY <1>1, <1>3, <2>1, <3>1 DEF Backlog
  <2>2. CASE packets # <<>>
    <3>1. 1 \in 1 .. Len(packets)
      BY <2>2, PacketEnds
    <3> QED BY <1>3, <1>4, <2>2, <3>1 DEF Backlog
  <2> QED BY <2>1, <2>2
<1> QED BY <1>3, <1>5, <1>6

(* A packet behind the first begins after all that the first could give.   *)
LEMMA LaterBegins ==
    ASSUME NEW lo \in Nat, NEW hi \in Nat, NEW next \in Nat, NEW n \in Nat,
           lo + n <= hi, hi <= next
    PROVE  next >= lo + n
OBVIOUS

(* The first packet has given n of its bytes to the host.                  *)
LEMMA OrderedRead ==
    ASSUME packets \in Seq(Packet), packets # <<>>, written \in Nat, heard \in Nat,
           flushed \in Nat, Ordered(packets, written, heard, flushed),
           NEW n \in Nat, n < packets[1].hi - packets[1].lo,
           NEW r, r = [packets EXCEPT ![1].lo = @ + n]
    PROVE  /\ r \in Seq(Packet) /\ r # <<>> /\ Len(r) = Len(packets)
           /\ Ordered(r, written, packets[1].lo + n, flushed)
           /\ Backlog(r, written) = Backlog(packets, written) - n
<1> DEFINE e == [lo |-> packets[1].lo + n, hi |-> packets[1].hi]
<1>1. 1 \in 1 .. Len(packets) /\ Len(packets) \in Nat /\ packets[1] \in Packet
  BY PacketEnds, ElementOfSeq
<1>2. \A i \in 1 .. Len(packets) : packets[i].lo \in Nat /\ packets[i].hi \in Nat
  BY PacketEnds
<1>3. e \in Packet /\ e.lo = packets[1].lo + n /\ e.hi = packets[1].hi
  BY <1>1, <1>2 DEF Packet
<1>4. r = [packets EXCEPT ![1] = e]
  <2>1. [packets[1] EXCEPT !.lo = packets[1].lo + n] = e
    BY <1>1 DEF Packet
  <2> QED BY <2>1
<1> HIDE DEF e
<1>5. /\ r \in Seq(Packet) /\ Len(r) = Len(packets) /\ r[1] = e
      /\ \A i \in 1 .. Len(packets) : i # 1 => r[i] = packets[i]
  <2>1. /\ [packets EXCEPT ![1] = e] \in Seq(Packet)
        /\ Len([packets EXCEPT ![1] = e]) = Len(packets)
        /\ \A j \in 1 .. Len(packets) :
             [packets EXCEPT ![1] = e][j] = IF j = 1 THEN e ELSE packets[j]
    BY <1>1, <1>3, ExceptSeq
  <2> QED BY <1>1, <1>4, <2>1
<1>6. r # <<>>
  BY <1>1, <1>5, PacketEnds
<1>7. Ordered(r, written, packets[1].lo + n, flushed)
  <2> SUFFICES ASSUME NEW i \in 1 .. Len(r)
               PROVE  /\ r[i].lo < r[i].hi /\ r[i].hi <= written
                      /\ r[i].lo >= packets[1].lo + n /\ r[i].lo >= flushed
                      /\ i = Len(r) => r[i].hi = written
                      /\ i < Len(r) => r[i].hi = r[i + 1].lo
                      /\ \A j \in 1 .. Len(r) : i < j => r[i].hi <= r[j].lo
    BY DEF Ordered
  <2>1. r[i].hi = packets[i].hi /\ packets[i].hi \in Nat /\ packets[i].lo \in Nat
    BY <1>2, <1>3, <1>5
  <2>2. \A j \in 1 .. Len(r) : i < j => r[j] = packets[j]
    BY <1>5
  <2>3. /\ r[i].hi <= written
        /\ i = Len(r) => r[i].hi = written
        /\ \A j \in 1 .. Len(r) : i < j => r[i].hi <= r[j].lo
    BY <1>5, <2>1, <2>2 DEF Ordered
  <2>4. i < Len(r) => r[i].hi = r[i + 1].lo
    BY <1>1, <1>5, <2>1, <2>2 DEF Ordered
  <2>5. r[i].lo < r[i].hi /\ r[i].lo >= packets[1].lo + n /\ r[i].lo >= flushed
    <3>1. CASE i = 1
      <4>1. packets[1].lo >= flushed /\ packets[1].lo \in Nat /\ packets[1].hi \in Nat
        BY <1>1, <1>2 DEF Ordered
      <4> QED BY <1>3, <1>5, <3>1, <4>1
    <3>2. CASE i # 1
      <4>1. /\ r[i] = packets[i] /\ packets[1].hi <= packets[i].lo
            /\ packets[i].lo < packets[i].hi /\ packets[i].lo >= flushed
        <5>1. i \in 1 .. Len(packets) /\ 1 < i
          BY <1>5, <3>2
        <5> QED BY <1>1, <1>5, <3>2, <5>1 DEF Ordered
      <4>2. /\ packets[1].lo \in Nat /\ packets[1].hi \in Nat
            /\ packets[1].lo + n <= packets[1].hi
        BY <1>1, <1>2
      <4>3. packets[i].lo >= packets[1].lo + n
        BY <2>1, <4>1, <4>2, LaterBegins
      <4> QED BY <4>1, <4>3, Zenon
    <3> QED BY <3>1, <3>2
  <2> QED BY <2>3, <2>4, <2>5
<1>8. Backlog(r, written) = Backlog(packets, written) - n
  BY <1>1, <1>2, <1>3, <1>5, <1>6 DEF Backlog
<1> QED BY <1>5, <1>6, <1>7, <1>8

(* The strengthening AudioInv, in the terms of the lemmas above.           *)
AudioParts ==
    /\ AudioTypeOK /\ Ordered(packets, written, heard, flushed)
    /\ heard <= written /\ flushed <= written
    /\ lock = "write" => todo > 0
    /\ queued = Backlog(packets, written)
    /\ Len(packets) > 1 => queued <= QueueMax

(* The two forms agree, in this state.                                     *)
LEMMA AudioInvIs == AudioInv <=> AudioParts
<1> SUFFICES ASSUME AudioTypeOK
             PROVE  (/\ MicInOrder
                     /\ \A i \in DOMAIN packets : packets[i].hi <= written
                     /\ \A i, j \in DOMAIN packets :
                          i < j => packets[i].hi <= packets[j].lo)
                    <=> Ordered(packets, written, heard, flushed)
  BY DEF AudioInv, AudioParts, Backlog
<1>0. ASSUME NEW n \in Nat, NEW i \in 1 .. n PROVE i < n <=> i # n
  OBVIOUS
<1>1. DOMAIN packets = 1 .. Len(packets) /\ Len(packets) \in Nat
  BY DEF AudioTypeOK
<1>2. ASSUME NEW i \in 1 .. Len(packets)
      PROVE  i < Len(packets) <=> i # Len(packets)
  BY <1>0, <1>1, Zenon
<1>3. ASSUME MicInOrder, NEW i \in 1 .. Len(packets)
      PROVE  /\ packets[i].lo < packets[i].hi
             /\ packets[i].lo >= heard /\ packets[i].lo >= flushed
             /\ i = Len(packets) => packets[i].hi = written
             /\ i < Len(packets) => packets[i].hi = packets[i + 1].lo
  BY <1>1, <1>2, <1>3 DEF MicInOrder
<1>4. ASSUME Ordered(packets, written, heard, flushed), NEW i \in 1 .. Len(packets)
      PROVE  /\ packets[i].lo < packets[i].hi
             /\ packets[i].lo >= heard /\ packets[i].lo >= flushed
             /\ packets[i].hi = IF i = Len(packets) THEN written ELSE packets[i + 1].lo
  BY <1>1, <1>2, <1>4 DEF Ordered
<1>5. Ordered(packets, written, heard, flushed) => MicInOrder
  BY <1>1, <1>4 DEF MicInOrder
<1> QED BY <1>1, <1>3, <1>5 DEF Ordered

(* The two forms agree, in the next state.                                 *)
LEMMA AudioInvIsNext == (AudioInv <=> AudioParts)'
BY AudioInvIs, PTL

(* The steps that leave the queue alone.                                   *)
LEMMA AudioSame ==
    ASSUME AudioInv, lock' \in {"free", "write", "fill"}, todo' \in Nat,
           lock' = "write" => todo' > 0,
           UNCHANGED <<packets, queued, written, heard, flushed>>
    PROVE  AudioInv'
BY DEF AudioInv, AudioTypeOK, MicInOrder

(* The guarded subtraction is exact as long as the count is.               *)
LEMMA LessIsExact ==
    ASSUME packets[1].lo \in Nat, packets[1].hi \in Nat, written \in Nat,
           packets[1].hi <= written, queued = written - packets[1].lo,
           NEW n \in Nat, packets[1].lo + n <= packets[1].hi
    PROVE  /\ Less(n) = written - (packets[1].lo + n)
           /\ Less(n) \in Nat /\ Less(n) <= queued
BY DEF Less

(* A frame is dropped: the count goes down by exactly what was left of it. *)
LEMMA DropKeeps ==
    ASSUME SizesNat, AudioInv, WriteDrop
    PROVE  AudioInv'
<1>1. /\ AudioTypeOK /\ Ordered(packets, written, heard, flushed)
      /\ heard <= written /\ flushed <= written
      /\ lock = "write" => todo > 0
      /\ queued = Backlog(packets, written)
      /\ Len(packets) > 1 => queued <= QueueMax
  BY AudioInvIs DEF AudioParts
<1>2. /\ packets # <<>> /\ packets' = Tail(packets)
      /\ queued' = Less(packets[1].hi - packets[1].lo)
      /\ UNCHANGED <<lock, todo, written, heard, flushed>>
  BY DEF WriteDrop, Crowded, Left
<1>3. /\ packets \in Seq(Packet) /\ written \in Nat /\ heard \in Nat /\ flushed \in Nat
      /\ queued \in Nat
  BY <1>1 DEF AudioTypeOK, Packet
<1>4. /\ Ordered(Tail(packets), written, heard, flushed)
      /\ Backlog(Tail(packets), written) = written - packets[1].hi
      /\ Tail(packets) # <<>> => written > packets[1].hi
      /\ Tail(packets) = <<>> => written = packets[1].hi
  BY <1>1, <1>2, <1>3, OrderedTail
<1>5. /\ packets[1].lo \in Nat /\ packets[1].hi \in Nat
      /\ packets[1].lo < packets[1].hi /\ packets[1].hi <= written
      /\ Backlog(packets, written) = written - packets[1].lo
  BY <1>1, <1>2, <1>3, PacketEnds DEF Ordered, Backlog
<1>6. queued' = Backlog(Tail(packets), written) /\ queued' \in Nat /\ queued' <= queued
  <2> DEFINE n == packets[1].hi - packets[1].lo
  <2>1. n \in Nat /\ packets[1].lo + n = packets[1].hi /\ packets[1].lo + n <= packets[1].hi
    BY <1>5
  <2>2. queued = written - packets[1].lo
    BY <1>1, <1>5
  <2> HIDE DEF n
  <2>3. Less(n) = written - (packets[1].lo + n) /\ Less(n) \in Nat /\ Less(n) <= queued
    BY <1>3, <1>5, <2>1, <2>2, LessIsExact
  <2> QED BY <1>2, <1>4, <2>1, <2>3 DEF n
<1>7. /\ Tail(packets) \in Seq(Packet) /\ Len(packets) \in Nat
      /\ Len(Tail(packets)) = Len(packets) - 1
  BY <1>2, <1>3, TailPackets
<1>8. Len(Tail(packets)) > 1 => queued' <= QueueMax
  <2>1. QueueMax \in Nat
    BY SizesNat DEF SizesNat
  <2> QED BY <1>1, <1>3, <1>6, <1>7, <2>1
<1>9. AudioTypeOK'
  BY <1>1, <1>2, <1>6, <1>7 DEF AudioTypeOK, Packet
<1> QED BY <1>1, <1>2, <1>4, <1>6, <1>8, <1>9, AudioInvIsNext DEF AudioParts

(* A frame is queued: more than one is kept only within the limit.         *)
LEMMA AppendKeeps ==
    ASSUME SizesNat, AudioInv, WriteAppend
    PROVE  AudioInv'
<1> DEFINE r == packets'
<1>1. /\ AudioTypeOK /\ Ordered(packets, written, heard, flushed)
      /\ heard <= written /\ flushed <= written
      /\ queued = Backlog(packets, written)
  BY AudioInvIs DEF AudioParts
<1>2. /\ r = Append(packets, [lo |-> written, hi |-> written + todo])
      /\ queued' = queued + todo /\ written' = written + todo
      /\ lock' = "free" /\ todo' = 0 /\ UNCHANGED <<heard, flushed>>
      /\ packets = <<>> \/ ~(queued + todo > QueueMax)
  BY DEF WriteAppend, Crowded
<1>3. /\ packets \in Seq(Packet) /\ written \in Nat /\ heard \in Nat /\ flushed \in Nat
      /\ queued \in Nat /\ todo \in Nat \ {0}
  BY <1>1, AudioInvIs DEF AudioParts, AudioTypeOK, Packet, WriteAppend
<1> HIDE DEF r
<1>4. /\ r \in Seq(Packet) /\ r # <<>> /\ Len(r) = Len(packets) + 1
      /\ Ordered(r, written + todo, heard, flushed)
      /\ Backlog(r, written + todo) = Backlog(packets, written) + todo
  <2>1. r = Append(packets, [lo |-> written, hi |-> written + todo])
    BY <1>2
  <2>2. Ordered(packets, written, heard, flushed) /\ heard <= written /\ flushed <= written
    BY <1>1
  <2> QED BY <1>3, <2>1, <2>2, OrderedAppend
<1>5. Len(r) > 1 => queued' <= QueueMax
  <2>1. packets = <<>> => Len(packets) = 0
    OBVIOUS
  <2> QED BY <1>2, <1>3, <1>4, <2>1, SizesNat DEF SizesNat
<1>6. AudioTypeOK'
  BY <1>2, <1>3, <1>4 DEF AudioTypeOK, Packet, r
<1>7. /\ heard' <= written' /\ flushed' <= written' /\ lock' # "write"
      /\ queued' = Backlog(packets', written')
  BY <1>1, <1>2, <1>3, <1>4 DEF r
<1>8. Ordered(packets', written', heard', flushed')
  BY <1>2, <1>4 DEF r
<1> QED BY <1>2, <1>5, <1>6, <1>7, <1>8, AudioInvIsNext DEF AudioParts, r

(* Bytes of the first packet go to the host, all that are left or some.    *)
LEMMA FillKeeps ==
    ASSUME SizesNat, AudioInv, FillStep
    PROVE  AudioInv'
<1> DEFINE left == packets[1].hi - packets[1].lo
           n == IF todo < left THEN todo ELSE left
<1>1. /\ AudioTypeOK /\ Ordered(packets, written, heard, flushed)
      /\ heard <= written /\ flushed <= written
      /\ queued = Backlog(packets, written)
      /\ Len(packets) > 1 => queued <= QueueMax
  BY AudioInvIs DEF AudioParts
<1>2. /\ lock = "fill" /\ todo > 0 /\ packets # <<>>
      /\ heard' = packets[1].lo + n /\ todo' = todo - n /\ queued' = Less(n)
      /\ packets' = IF n = left THEN Tail(packets) ELSE [packets EXCEPT ![1].lo = @ + n]
      /\ UNCHANGED <<lock, written, flushed>>
  BY DEF FillStep, Left
<1>3. /\ packets \in Seq(Packet) /\ written \in Nat /\ heard \in Nat /\ flushed \in Nat
      /\ queued \in Nat /\ todo \in Nat
  BY <1>1 DEF AudioTypeOK, Packet
<1>4. /\ packets[1].lo \in Nat /\ packets[1].hi \in Nat
      /\ packets[1].lo < packets[1].hi /\ packets[1].hi <= written
      /\ Len(packets) \in Nat /\ Backlog(packets, written) = written - packets[1].lo
  BY <1>1, <1>2, <1>3, PacketEnds DEF Ordered, Backlog
<1>5. n \in Nat /\ n <= todo /\ n <= left
  <2>1. left \in Nat
    BY <1>4
  <2> HIDE DEF left
  <2> QED BY <1>3, <2>1
<1> HIDE DEF n
<1>11. todo' \in Nat /\ heard' \in Nat /\ heard' <= written
  <2>1. heard' = packets[1].lo + n /\ todo' = todo - n
    BY <1>2
  <2> QED BY <1>3, <1>4, <1>5, <2>1
<1>6. queued' = written - (packets[1].lo + n) /\ queued' \in Nat /\ queued' <= queued
  <2>1. queued = written - packets[1].lo /\ packets[1].lo + n <= packets[1].hi
    BY <1>1, <1>4, <1>5
  <2>2. Less(n) = written - (packets[1].lo + n) /\ Less(n) \in Nat /\ Less(n) <= queued
    BY <1>3, <1>4, <1>5, <2>1, LessIsExact
  <2> QED BY <1>2, <2>2
<1>7. /\ packets' \in Seq(Packet) /\ Ordered(packets', written, heard', flushed)
      /\ Backlog(packets', written) = queued' /\ Len(packets') <= Len(packets)
      /\ Len(packets') \in Nat
  <2>1. CASE n = left
    <3>1. /\ Ordered(Tail(packets), written, packets[1].hi, flushed)
          /\ Backlog(Tail(packets), written) = written - packets[1].hi
      BY <1>1, <1>2, <1>3, OrderedTail
    <3>2. /\ Tail(packets) \in Seq(Packet)
          /\ Len(Tail(packets)) = Len(packets) - 1 /\ Len(packets) > 0
      BY <1>2, <1>3, TailPackets
    <3>3. packets' = Tail(packets) /\ heard' = packets[1].hi
      BY <1>2, <1>4, <2>1
    <3> QED BY <1>4, <1>6, <2>1, <3>1, <3>2, <3>3
  <2>2. CASE n # left
    <3> DEFINE r == packets'
    <3>1. r = [packets EXCEPT ![1].lo = @ + n] /\ n < left
      BY <1>2, <1>4, <1>5, <2>2
    <3> HIDE DEF r
    <3>2. /\ r \in Seq(Packet) /\ Len(r) = Len(packets)
          /\ Ordered(r, written, packets[1].lo + n, flushed)
          /\ Backlog(r, written) = Backlog(packets, written) - n
      <4>1. packets # <<>> /\ Ordered(packets, written, heard, flushed)
        BY <1>1, <1>2
      <4> QED BY <1>3, <1>5, <3>1, <4>1, OrderedRead
    <3>3. Backlog(r, written) = queued'
      BY <1>3, <1>4, <1>5, <1>6, <3>2
    <3> QED BY <1>2, <1>4, <3>2, <3>3 DEF r
  <2> QED BY <2>1, <2>2
<1>8. AudioTypeOK'
  BY <1>1, <1>2, <1>6, <1>7, <1>11 DEF AudioTypeOK, Packet
<1>9. /\ heard' <= written' /\ flushed' <= written' /\ lock' # "write"
      /\ Len(packets') > 1 => queued' <= QueueMax
  <2>1. QueueMax \in Nat
    BY SizesNat DEF SizesNat
  <2>2. Len(packets') > 1 => queued' <= QueueMax
    BY <1>1, <1>3, <1>4, <1>6, <1>7, <2>1
  <2> QED BY <1>1, <1>2, <1>11, <2>2
<1>10. Ordered(packets', written', heard', flushed')
       /\ queued' = Backlog(packets', written')
  BY <1>2, <1>7
<1> QED BY <1>8, <1>9, <1>10, AudioInvIsNext DEF AudioParts

(* A disconnect or the stop empties the queue.                             *)
LEMMA FlushKeeps ==
    ASSUME AudioInv, FlushAudio
    PROVE  AudioInv'
<1>1. AudioTypeOK /\ heard <= written /\ (lock = "write" => todo > 0)
  BY AudioInvIs DEF AudioParts
<1>2. /\ packets' = <<>> /\ queued' = 0 /\ flushed' = written
      /\ UNCHANGED <<lock, todo, written, heard>>
  BY DEF FlushAudio
<1>3. AudioTypeOK'
  BY <1>1, <1>2 DEF AudioTypeOK
<1>4. Ordered(packets', written', heard', flushed') /\ Backlog(packets', written') = 0
  BY <1>2, OrderedEmpty
<1>5. Len(packets') = 0 /\ flushed' <= written'
  BY <1>1, <1>2 DEF AudioTypeOK
<1> QED BY <1>1, <1>2, <1>3, <1>4, <1>5, AudioInvIsNext DEF AudioParts
-----------------------------------------------------------------------------
(* The port.                                                               *)

USE DEF devVars, portVars, usbVars, openerVars, hubVars, requestVars

(* vds_open.                                                               *)
LEMMA OpenKeeps ==
    ASSUME PortConstants, PortInv, TypeOK',
           NEW o \in Openers, Open(o)
    PROVE  PortInv'
<1>1. /\ ConnectionsNumbered' /\ HubHasDevice'
      /\ FlagIsBit' /\ RequestKnows' /\ HostKnowsProfile'
  BY DEF PortInv, Open, ConnectionsNumbered, HubHasDevice, FlagIsBit, RequestKnows,
         HostKnowsProfile, Plugged
<1>2. StateCovered'
  BY DEF PortInv, TypeOK, Open, StateCovered, ResetPending
<1>3. ChangeReachesHub'
  BY DEF PortInv, TypeOK, Open, ChangeReachesHub, Plugged, PollPending
<1> QED BY <1>1, <1>2, <1>3 DEF PortInv

(* vds_ioctl.                                                              *)
LEMMA IoctlKeeps ==
    ASSUME PortConstants, PortInv, TypeOK',
           NEW o \in Openers, NEW c \in Calls, Ioctl(o, c)
    PROVE  PortInv'
<1>1. /\ ConnectionsNumbered' /\ HubHasDevice'
      /\ FlagIsBit' /\ RequestKnows' /\ HostKnowsProfile'
  BY DEF PortInv, Ioctl, ConnectionsNumbered, HubHasDevice, FlagIsBit, RequestKnows,
         HostKnowsProfile, Plugged
<1>2. StateCovered'
  BY DEF PortInv, TypeOK, Ioctl, StateCovered, ResetPending
<1>3. ChangeReachesHub'
  BY DEF PortInv, TypeOK, Ioctl, ChangeReachesHub, Plugged, PollPending
<1> QED BY <1>1, <1>2, <1>3 DEF PortInv

(* VDS_IOC_SET_PROFILE.                                                    *)
LEMMA SetProfileKeeps ==
    ASSUME PortConstants, PortInv, TypeOK',
           NEW o \in Openers, NEW p \in Profiles, SetProfile(o, p)
    PROVE  PortInv'
<1>1. ConnectionsNumbered' /\ HubHasDevice'
  BY DEF PortInv, SetProfile, Return, ConnectionsNumbered, HubHasDevice
<1>2. FlagIsBit'
  BY DEF PortInv, TypeOK, SetProfile, Return, FlagIsBit
<1>3. RequestKnows'
  BY DEF PortInv, TypeOK, SetProfile, Return, RequestKnows
<1>4. StateCovered'
  BY DEF PortInv, TypeOK, SetProfile, Return, StateCovered, ResetPending
<1>5. ChangeReachesHub'
  BY DEF PortInv, TypeOK, SetProfile, Return, ChangeReachesHub, Plugged, PollPending
<1>6. HostKnowsProfile'
  BY DEF PortInv, TypeOK, SetProfile, Return, HostKnowsProfile, Plugged, FlagIsBit,
         HubHasDevice
<1> QED BY <1>1, <1>2, <1>3, <1>4, <1>5, <1>6 DEF PortInv

(* vds_set_connection after the stop.                                      *)
LEMMA ConnectionTooLateKeeps ==
    ASSUME PortConstants, PortInv, TypeOK',
           NEW o \in Openers, ConnectionTooLate(o)
    PROVE  PortInv'
<1>1. /\ ConnectionsNumbered' /\ HubHasDevice'
      /\ FlagIsBit' /\ RequestKnows' /\ HostKnowsProfile'
  BY DEF PortInv, ConnectionTooLate, Return, ConnectionsNumbered, HubHasDevice,
         FlagIsBit, RequestKnows, HostKnowsProfile, Plugged
<1>2. StateCovered'
  BY DEF PortInv, TypeOK, ConnectionTooLate, Return, StateCovered, ResetPending
<1>3. ChangeReachesHub'
  BY DEF PortInv, TypeOK, ConnectionTooLate, Return, ChangeReachesHub, Plugged,
         PollPending
<1> QED BY <1>1, <1>2, <1>3 DEF PortInv

(* vds_set_connection(true).                                               *)
LEMMA ConnectKeeps ==
    ASSUME PortConstants, PortInv, TypeOK',
           NEW o \in Openers, Connect(o)
    PROVE  PortInv'
<1>1. HubHasDevice' /\ RequestKnows'
  BY DEF PortInv, Connect, HubHasDevice, RequestKnows
<1>2. ConnectionsNumbered'
  BY DEF PortInv, TypeOK, Connect, ConnectionsNumbered
<1>3. FlagIsBit'
  BY DEF PortInv, TypeOK, Connect, FlagIsBit
<1>4. StateCovered'
  BY DEF PortInv, TypeOK, Connect, StateCovered, ResetPending
<1>5. ChangeReachesHub'
  <2>1. view'.conn # Plugged' => cConnection' \/ hub' = "debounce"
    BY DEF PortInv, TypeOK, Connect, ChangeReachesHub, Plugged
  <2>2. PollPending'
    BY DEF PortInv, TypeOK, Connect, PollPending
  <2> QED BY <2>1, <2>2 DEF ChangeReachesHub
<1>6. HostKnowsProfile'
  BY DEF PortInv, TypeOK, Connect, HostKnowsProfile, Plugged, ConnectionsNumbered
<1> QED BY <1>1, <1>2, <1>3, <1>4, <1>5, <1>6 DEF PortInv

(* vds_set_connection(false).                                              *)
LEMMA DisconnectKeeps ==
    ASSUME PortConstants, PortInv, TypeOK',
           NEW o \in Openers, Disconnect(o)
    PROVE  PortInv'
<1>1. HubHasDevice' /\ RequestKnows'
  BY DEF PortInv, Disconnect, HubHasDevice, RequestKnows
<1>2. ConnectionsNumbered'
  BY DEF PortInv, TypeOK, Disconnect, ConnectionsNumbered
<1>3. FlagIsBit'
  BY DEF PortInv, TypeOK, Disconnect, FlagIsBit
<1>4. StateCovered'
  BY DEF PortInv, TypeOK, Disconnect, StateCovered, ResetPending
<1>5. ChangeReachesHub'
  BY DEF PortInv, TypeOK, Disconnect, ChangeReachesHub, Plugged, PollPending
<1>6. HostKnowsProfile'
  BY DEF PortInv, TypeOK, Disconnect, HostKnowsProfile, Plugged, HubHasDevice
<1> QED BY <1>1, <1>2, <1>3, <1>4, <1>5, <1>6 DEF PortInv

(* vds_usb_device_reset_state.                                             *)
LEMMA ResetStateKeeps ==
    ASSUME PortConstants, PortInv, TypeOK',
           NEW o \in Openers, ResetState(o)
    PROVE  PortInv'
<1>1. ConnectionsNumbered' /\ HubHasDevice' /\ FlagIsBit' /\ HostKnowsProfile'
  BY DEF PortInv, ResetState, ConnectionsNumbered, HubHasDevice, FlagIsBit,
         HostKnowsProfile, Plugged
<1>2. RequestKnows'
  BY DEF PortInv, TypeOK, ResetState, RequestKnows
<1>3. StateCovered'
  BY DEF PortInv, TypeOK, ResetState, StateCovered, ResetPending
<1>4. ChangeReachesHub'
  BY DEF PortInv, TypeOK, ResetState, ChangeReachesHub, Plugged, PollPending
<1> QED BY <1>1, <1>2, <1>3, <1>4 DEF PortInv

(* The poll of the root hub.                                               *)
LEMMA PollRootHubKeeps ==
    ASSUME PortConstants, PortInv, TypeOK',
           NEW o \in Openers, PollRootHub(o)
    PROVE  PortInv'
<1>1. /\ ConnectionsNumbered' /\ HubHasDevice'
      /\ FlagIsBit' /\ RequestKnows' /\ HostKnowsProfile'
  BY DEF PortInv, PollRootHub, Return, StatusData, ConnectionsNumbered, HubHasDevice,
         FlagIsBit, RequestKnows, HostKnowsProfile, Plugged
<1>2. StateCovered'
  BY DEF PortInv, TypeOK, PollRootHub, Return, StatusData, StateCovered, ResetPending
<1>3. ChangeReachesHub'
  BY DEF PortInv, TypeOK, PollRootHub, Return, StatusData, ChangeReachesHub, Plugged,
         PollPending
<1> QED BY <1>1, <1>2, <1>3 DEF PortInv

(* vds_release.                                                            *)
LEMMA ReleaseKeeps ==
    ASSUME PortConstants, PortInv, TypeOK',
           NEW o \in Openers, Release(o)
    PROVE  PortInv'
<1>1. /\ ConnectionsNumbered' /\ HubHasDevice'
      /\ FlagIsBit' /\ RequestKnows' /\ HostKnowsProfile'
  BY DEF PortInv, Release, ConnectionsNumbered, HubHasDevice, FlagIsBit, RequestKnows,
         HostKnowsProfile, Plugged
<1>2. StateCovered'
  BY DEF PortInv, TypeOK, Release, StateCovered, ResetPending
<1>3. ChangeReachesHub'
  BY DEF PortInv, TypeOK, Release, ChangeReachesHub, Plugged, PollPending
<1> QED BY <1>1, <1>2, <1>3 DEF PortInv

(* vds_hcd_stop.                                                           *)
LEMMA StopKeeps ==
    ASSUME PortConstants, PortInv, TypeOK',
           Stop
    PROVE  PortInv'
<1>1. ConnectionsNumbered' /\ HubHasDevice' /\ RequestKnows' /\ ChangeReachesHub'
  BY DEF PortInv, Stop, ConnectionsNumbered, HubHasDevice, RequestKnows,
         ChangeReachesHub, Plugged, PollPending
<1>2. FlagIsBit'
  BY DEF PortInv, TypeOK, Stop, FlagIsBit
<1>3. StateCovered'
  BY DEF PortInv, TypeOK, Stop, StateCovered, ResetPending
<1>4. HostKnowsProfile'
  BY DEF PortInv, TypeOK, Stop, HostKnowsProfile, Plugged
<1> QED BY <1>1, <1>2, <1>3, <1>4 DEF PortInv

(* The hub driver takes up a change.                                       *)
LEMMA HubEventKeeps ==
    ASSUME PortConstants, PortInv, TypeOK',
           HubEvent
    PROVE  PortInv'
<1>1. /\ ConnectionsNumbered' /\ FlagIsBit'
      /\ RequestKnows' /\ StateCovered' /\ HostKnowsProfile'
  BY DEF PortInv, HubEvent, ConnectionsNumbered, FlagIsBit, RequestKnows,
         StateCovered, HostKnowsProfile, Plugged, ResetPending
<1>2. HubHasDevice'
  BY DEF PortInv, TypeOK, HubEvent, HubHasDevice
<1>3. ChangeReachesHub'
  BY DEF PortInv, TypeOK, HubEvent, ChangeReachesHub, Plugged, PollPending
<1> QED BY <1>1, <1>2, <1>3 DEF PortInv

(* GetPortStatus.                                                          *)
LEMMA PortStatusKeeps ==
    ASSUME PortConstants, PortInv, TypeOK',
           PortStatus
    PROVE  PortInv'
<1>1. /\ ConnectionsNumbered' /\ FlagIsBit'
      /\ RequestKnows' /\ StateCovered' /\ HostKnowsProfile'
  BY DEF PortInv, PortStatus, GetPortStatus, StatusData, ConnectionsNumbered,
         FlagIsBit, RequestKnows, StateCovered, HostKnowsProfile, Plugged,
         ResetPending
<1>2. HubHasDevice'
  BY DEF PortInv, TypeOK, PortStatus, GetPortStatus, StatusData, HubHasDevice
<1>3. ChangeReachesHub'
  BY DEF PortInv, TypeOK, PortStatus, GetPortStatus, StatusData, ChangeReachesHub,
         Plugged, PollPending
<1> QED BY <1>1, <1>2, <1>3 DEF PortInv

(* ClearPortFeature(C_CONNECTION).                                         *)
LEMMA ClearConnectionKeeps ==
    ASSUME PortConstants, PortInv, TypeOK',
           ClearConnection
    PROVE  PortInv'
<1>1. /\ ConnectionsNumbered' /\ FlagIsBit'
      /\ RequestKnows' /\ StateCovered' /\ HostKnowsProfile'
  BY DEF PortInv, ClearConnection, StatusData, ConnectionsNumbered, FlagIsBit,
         RequestKnows, StateCovered, HostKnowsProfile, Plugged, ResetPending
<1>2. HubHasDevice'
  BY DEF PortInv, TypeOK, ClearConnection, StatusData, HubHasDevice
<1>3. ChangeReachesHub'
  BY DEF PortInv, TypeOK, ClearConnection, StatusData, ChangeReachesHub, Plugged,
         PollPending
<1> QED BY <1>1, <1>2, <1>3 DEF PortInv

(* The debounce.                                                           *)
LEMMA DebounceKeeps ==
    ASSUME PortConstants, PortInv, TypeOK',
           Debounce
    PROVE  PortInv'
<1>1. FlagIsBit' /\ RequestKnows' /\ StateCovered'
  BY DEF PortInv, Debounce, GetPortStatus, StatusData, FlagIsBit, RequestKnows,
         StateCovered, ResetPending
<1>2. ConnectionsNumbered'
  BY DEF PortInv, TypeOK, Debounce, GetPortStatus, StatusData, ConnectionsNumbered,
         Plugged
<1>3. HubHasDevice'
  BY DEF PortInv, TypeOK, Debounce, GetPortStatus, StatusData, HubHasDevice, Plugged,
         ConnectionsNumbered
<1>4. ChangeReachesHub'
  BY DEF PortInv, TypeOK, Debounce, GetPortStatus, StatusData, ChangeReachesHub,
         Plugged, PollPending
<1>5. HostKnowsProfile'
  BY DEF PortInv, TypeOK, Debounce, GetPortStatus, StatusData, HostKnowsProfile,
         Plugged
<1> QED BY <1>1, <1>2, <1>3, <1>4, <1>5 DEF PortInv

(* SetPortFeature(RESET).                                                  *)
LEMMA PortResetKeeps ==
    ASSUME PortConstants, PortInv, TypeOK',
           PortReset
    PROVE  PortInv'
<1>1. /\ ConnectionsNumbered' /\ FlagIsBit'
      /\ RequestKnows' /\ StateCovered' /\ HostKnowsProfile'
  BY DEF PortInv, PortReset, StatusData, ConnectionsNumbered, FlagIsBit, RequestKnows,
         StateCovered, HostKnowsProfile, Plugged, ResetPending
<1>2. HubHasDevice'
  BY DEF PortInv, TypeOK, PortReset, StatusData, HubHasDevice
<1>3. ChangeReachesHub'
  BY DEF PortInv, TypeOK, PortReset, StatusData, ChangeReachesHub, Plugged,
         PollPending
<1> QED BY <1>1, <1>2, <1>3 DEF PortInv

(* The wait for the reset.                                                 *)
LEMMA WaitResetKeeps ==
    ASSUME PortConstants, PortInv, TypeOK',
           WaitReset
    PROVE  PortInv'
<1>1. /\ ConnectionsNumbered' /\ FlagIsBit'
      /\ RequestKnows' /\ StateCovered' /\ HostKnowsProfile'
  BY DEF PortInv, WaitReset, GetPortStatus, StatusData, ConnectionsNumbered,
         FlagIsBit, RequestKnows, StateCovered, HostKnowsProfile, Plugged,
         ResetPending
<1>2. HubHasDevice'
  BY DEF PortInv, TypeOK, WaitReset, GetPortStatus, StatusData, HubHasDevice
<1>3. ChangeReachesHub'
  BY DEF PortInv, TypeOK, WaitReset, GetPortStatus, StatusData, ChangeReachesHub,
         Plugged, PollPending
<1> QED BY <1>1, <1>2, <1>3 DEF PortInv

(* ClearPortFeature(C_RESET).                                              *)
LEMMA ClearResetKeeps ==
    ASSUME PortConstants, PortInv, TypeOK',
           ClearReset
    PROVE  PortInv'
<1>1. /\ ConnectionsNumbered' /\ FlagIsBit'
      /\ RequestKnows' /\ StateCovered' /\ HostKnowsProfile'
  BY DEF PortInv, ClearReset, ClearResetChange, StatusData, ConnectionsNumbered,
         FlagIsBit, RequestKnows, StateCovered, HostKnowsProfile, Plugged,
         ResetPending
<1>2. HubHasDevice'
  BY DEF PortInv, TypeOK, ClearReset, ClearResetChange, StatusData, HubHasDevice
<1>3. ChangeReachesHub'
  BY DEF PortInv, TypeOK, ClearReset, ClearResetChange, StatusData, ChangeReachesHub,
         Plugged, PollPending
<1> QED BY <1>1, <1>2, <1>3 DEF PortInv

(* ClearPortFeature(C_RESET), for a lost device.                           *)
LEMMA ClearStaleResetKeeps ==
    ASSUME PortConstants, PortInv, TypeOK',
           ClearStaleReset
    PROVE  PortInv'
<1>1. /\ ConnectionsNumbered' /\ FlagIsBit'
      /\ RequestKnows' /\ StateCovered' /\ HostKnowsProfile'
  BY DEF PortInv, ClearStaleReset, ClearResetChange, StatusData, ConnectionsNumbered,
         FlagIsBit, RequestKnows, StateCovered, HostKnowsProfile, Plugged,
         ResetPending
<1>2. HubHasDevice'
  BY DEF PortInv, TypeOK, ClearStaleReset, ClearResetChange, StatusData, HubHasDevice
<1>3. ChangeReachesHub'
  BY DEF PortInv, TypeOK, ClearStaleReset, ClearResetChange, StatusData,
         ChangeReachesHub, Plugged, PollPending
<1> QED BY <1>1, <1>2, <1>3 DEF PortInv

(* The enumeration.                                                        *)
LEMMA EnumerateKeeps ==
    ASSUME PortConstants, PortInv, TypeOK',
           Enumerate
    PROVE  PortInv'
<1>1. FlagIsBit' /\ RequestKnows' /\ StateCovered'
  BY DEF PortInv, Enumerate, FlagIsBit, RequestKnows, StateCovered, ResetPending
<1>2. ConnectionsNumbered'
  BY DEF PortInv, TypeOK, Enumerate, ConnectionsNumbered
<1>3. HubHasDevice'
  BY DEF PortInv, TypeOK, Enumerate, HubHasDevice
<1>4. ChangeReachesHub'
  BY DEF PortInv, TypeOK, Enumerate, ChangeReachesHub, Plugged, PollPending
<1>5. HostKnowsProfile'
  BY DEF PortInv, TypeOK, Enumerate, HostKnowsProfile, Plugged
<1> QED BY <1>1, <1>2, <1>3, <1>4, <1>5 DEF PortInv

(* SET_CONFIGURATION.                                                      *)
LEMMA SetConfigurationKeeps ==
    ASSUME PortConstants, PortInv, TypeOK',
           NEW v \in {0, 1}, SetConfiguration(v)
    PROVE  PortInv'
<1>1. HubHasDevice' /\ FlagIsBit' /\ ChangeReachesHub' /\ HostKnowsProfile'
  BY DEF PortInv, SetConfiguration, MayRequest, HubHasDevice, FlagIsBit,
         ChangeReachesHub, HostKnowsProfile, Plugged, PollPending
<1>2. ConnectionsNumbered'
  BY DEF PortInv, TypeOK, SetConfiguration, MayRequest, ConnectionsNumbered, Plugged
<1>3. RequestKnows'
  BY DEF PortInv, TypeOK, SetConfiguration, MayRequest, RequestKnows
<1>4. StateCovered'
  BY DEF PortInv, TypeOK, SetConfiguration, MayRequest, StateCovered, ResetPending
<1> QED BY <1>1, <1>2, <1>3, <1>4 DEF PortInv

(* SET_INTERFACE.                                                          *)
LEMMA SetInterfaceKeeps ==
    ASSUME PortConstants, PortInv, TypeOK',
           NEW v \in {0, 1}, SetInterface(v)
    PROVE  PortInv'
<1>1. /\ ConnectionsNumbered' /\ HubHasDevice'
      /\ FlagIsBit' /\ ChangeReachesHub' /\ HostKnowsProfile'
  BY DEF PortInv, SetInterface, MayRequest, ConnectionsNumbered, HubHasDevice,
         FlagIsBit, ChangeReachesHub, HostKnowsProfile, Plugged, PollPending
<1>2. RequestKnows'
  BY DEF PortInv, TypeOK, SetInterface, MayRequest, RequestKnows
<1>3. StateCovered'
  BY DEF PortInv, TypeOK, SetInterface, MayRequest, StateCovered, ResetPending
<1> QED BY <1>1, <1>2, <1>3 DEF PortInv

(* vds_usb_set_status.                                                     *)
LEMMA SetStatusKeeps ==
    ASSUME PortConstants, PortInv, TypeOK',
           SetStatus
    PROVE  PortInv'
<1>1. /\ ConnectionsNumbered' /\ HubHasDevice'
      /\ ChangeReachesHub' /\ HostKnowsProfile'
  BY DEF PortInv, SetStatus, ConnectionsNumbered, HubHasDevice, ChangeReachesHub,
         HostKnowsProfile, Plugged, PollPending
<1>2. FlagIsBit'
  BY DEF PortInv, TypeOK, SetStatus, FlagIsBit
<1>3. RequestKnows'
  BY DEF PortInv, TypeOK, SetStatus, RequestKnows
<1>4. StateCovered'
  <2>1. /\ request.at \in {"configured", "noAudio", "audio"}
        /\ request \in [at : RequestPcs, on : BOOLEAN]
        /\ UNCHANGED <<stopping, pc, configuration, alt>>
    BY DEF PortInv, TypeOK, SetStatus, RequestPcs
  <2>2. CASE request.at = "configured"
    BY <2>1, <2>2 DEF PortInv, SetStatus, StateCovered, ResetPending, RequestKnows
  <2>3. CASE request.at = "noAudio"
    BY <2>1, <2>3 DEF PortInv, SetStatus, StateCovered, ResetPending, RequestKnows
  <2>4. CASE request.at = "audio"
    BY <2>1, <2>4 DEF PortInv, SetStatus, StateCovered, ResetPending, RequestKnows
  <2> QED BY <2>1, <2>2, <2>3, <2>4
<1> QED BY <1>1, <1>2, <1>3, <1>4 DEF PortInv

(* Steps of the microphone alone leave the port's part as it is.           *)
LEMMA AudioOnlyKeeps ==
    ASSUME PortInv, TypeOK',
           UNCHANGED <<devVars, portVars, usbVars, openerVars, hubVars,
                       requestVars, conns>>
    PROVE  PortInv'
<1>1. ConnectionsNumbered' /\ HubHasDevice' /\ FlagIsBit' /\ RequestKnows'
  BY DEF PortInv, ConnectionsNumbered, HubHasDevice, FlagIsBit, RequestKnows
<1>2. StateCovered' /\ ChangeReachesHub' /\ HostKnowsProfile'
  BY DEF PortInv, StateCovered, ResetPending, ChangeReachesHub, Plugged, PollPending,
         HostKnowsProfile
<1> QED BY <1>1, <1>2 DEF PortInv

-----------------------------------------------------------------------------
(* Type correctness.                                                       *)

(* The microphone's part of a step: every action of the port keeps the     *)
(* queue's invariant.                                                      *)
LEMMA AudioNext ==
    ASSUME SizesNat, AudioInv, [Next]_vars
    PROVE  AudioInv'
<1>1. ASSUME UNCHANGED audioVars PROVE AudioInv'
  BY <1>1, AudioSame DEF audioVars, AudioInv, AudioTypeOK
<1>2. ASSUME NEW o \in Openers, OpenerStep(o) PROVE AudioInv'
  <2>1. CASE Disconnect(o)
    BY <2>1, FlushKeeps DEF Disconnect
  <2>2. CASE WriteFrame(o)
    <3>1. PICK n \in FrameSizes : WriteBegin(n)
      BY <2>2 DEF WriteFrame
    <3>2. n \in Nat /\ n > 0
      BY SizesNat DEF SizesNat
    <3> QED BY <3>1, <3>2, AudioSame DEF WriteBegin
  <2>3. CASE ~Disconnect(o) /\ ~WriteFrame(o)
    <3>1. UNCHANGED audioVars
      BY <1>2, <2>3 DEF OpenerStep, Open, Release, Ioctl, SetProfile, ConnectionTooLate,
                        Connect, ResetState, PollRootHub
    <3> QED BY <1>1, <3>1
  <2> QED BY <2>1, <2>2, <2>3
<1>3. ASSUME HubStep PROVE AudioInv'
  <2>1. UNCHANGED audioVars
    BY <1>3 DEF HubStep, HubEvent, PortStatus, ClearConnection, Debounce, PortReset,
                WaitReset, ClearReset, ClearStaleReset, Enumerate, GetPortStatus,
                ClearResetChange
  <2> QED BY <1>1, <2>1
<1>4. ASSUME RequestStep PROVE AudioInv'
  <2>1. UNCHANGED audioVars
    BY <1>4 DEF RequestStep, SetConfiguration, SetInterface, SetStatus
  <2> QED BY <1>1, <2>1
<1>5. ASSUME FillUrb PROVE AudioInv'
  <2>1. PICK n \in UrbSizes : FillBegin(n)
    BY <1>5 DEF FillUrb
  <2>2. n \in Nat
    BY SizesNat DEF SizesNat
  <2> QED BY <2>1, <2>2, AudioSame DEF FillBegin
<1>6. ASSUME LoopStep PROVE AudioInv'
  <2>1. CASE FillEnd
    BY <2>1, AudioSame DEF FillEnd
  <2> QED BY <1>6, <2>1, DropKeeps, AppendKeeps, FillKeeps DEF LoopStep
<1>7. ASSUME Stop PROVE AudioInv'
  BY <1>7, FlushKeeps DEF Stop
<1>8. ASSUME UNCHANGED vars PROVE AudioInv'
  BY <1>1, <1>8 DEF vars
<1> QED BY <1>2, <1>3, <1>4, <1>5, <1>6, <1>7, <1>8 DEF Next

(* A request of the hub driver to the port.                                *)
LEMMA HubMoveType ==
    ASSUME TypeOK, PastTypeOK', AudioTypeOK', hub' \in HubPcs, notified' \in BOOLEAN,
           enable' \in BOOLEAN, cConnection' \in BOOLEAN, cReset' \in BOOLEAN,
           UNCHANGED <<devVars, connection, usbVars, openerVars, view, requestVars, conns>>
    PROVE  TypeOK'
BY DEF TypeOK

(* The history variables: only vds_open tells whether a close is under way. *)
LEMMA PastNext ==
    ASSUME PastTypeOK, [Next]_vars
    PROVE  /\ PastTypeOK'
           /\ overlap' = overlap \/ \E o \in Openers : Open(o)
<1>1. ASSUME NEW o \in Openers, Open(o) PROVE PastTypeOK'
  BY <1>1 DEF Open, PastTypeOK
<1>2. ASSUME NEW o \in Openers, OpenerStep(o), ~Open(o) PROVE UNCHANGED pastVars
  BY <1>2 DEF OpenerStep, Release, WriteFrame, Ioctl, SetProfile, ConnectionTooLate,
              Connect, Disconnect, ResetState, PollRootHub
<1>3. ASSUME HubStep PROVE UNCHANGED pastVars
  BY <1>3 DEF HubStep, HubEvent, PortStatus, ClearConnection, Debounce, PortReset,
              WaitReset, ClearReset, ClearStaleReset, Enumerate, GetPortStatus,
              ClearResetChange
<1>4. ASSUME RequestStep \/ FillUrb \/ LoopStep \/ Stop \/ UNCHANGED vars
      PROVE  UNCHANGED pastVars
  BY <1>4 DEF RequestStep, SetConfiguration, SetInterface, SetStatus, FillUrb, LoopStep,
              Stop, vars
<1>5. UNCHANGED pastVars => PastTypeOK' /\ overlap' = overlap
  BY DEF pastVars, PastTypeOK
<1> QED BY <1>1, <1>2, <1>3, <1>4, <1>5 DEF Next

(* The types of the port, apart from the microphone's.                     *)
LEMMA TypeNext ==
    ASSUME PortConstants, TypeOK, PastTypeOK', AudioTypeOK', [Next]_vars
    PROVE  TypeOK'
<1>0. Plugged \in Nat
  BY DEF TypeOK, Plugged
<1>1. ASSUME NEW o \in Openers, OpenerStep(o) PROVE TypeOK'
  <2>1. CASE Open(o)
    <3>1. opened' \in BOOLEAN /\ pc' \in [Openers -> OpenerPcs]
      BY <2>1 DEF Open, TypeOK, OpenerPcs
    <3>2. UNCHANGED <<stopping, flags, portVars, usbVars, closing, wants, hubVars,
                      requestVars, conns>>
      BY <2>1 DEF Open
    <3> QED BY <3>1, <3>2 DEF TypeOK
  <2>2. CASE Release(o)
    <3>1. pc' \in [Openers -> OpenerPcs]
      BY <2>2 DEF Release, TypeOK, OpenerPcs
    <3>2. opened' \in BOOLEAN /\ closing' \subseteq Openers /\ wants' \subseteq Openers
      BY <2>2 DEF Release, TypeOK
    <3>3. UNCHANGED <<stopping, flags, portVars, usbVars, hubVars, requestVars, conns>>
      BY <2>2 DEF Release
    <3> QED BY <3>1, <3>2, <3>3 DEF TypeOK
  <2>3. CASE WriteFrame(o)
    BY <2>3 DEF WriteFrame, TypeOK
  <2>4. CASE \E c \in Calls : Ioctl(o, c)
    BY <2>4 DEF Ioctl, TypeOK, OpenerPcs, Calls
  <2>5. CASE \E p \in Profiles : SetProfile(o, p)
    BY <2>5 DEF SetProfile, Return, TypeOK, OpenerPcs
  <2>6. CASE ConnectionTooLate(o)
    BY <2>6 DEF ConnectionTooLate, Return, TypeOK, OpenerPcs
  <2>7. CASE Connect(o)
    BY <2>7 DEF Connect, TypeOK, OpenerPcs, Flags
  <2>8. CASE Disconnect(o)
    BY <2>8 DEF Disconnect, TypeOK, OpenerPcs
  <2>9. CASE ResetState(o)
    BY <2>9 DEF ResetState, TypeOK, OpenerPcs
  <2>10. CASE PollRootHub(o)
    BY <2>10 DEF PollRootHub, StatusData, Return, TypeOK, OpenerPcs
  <2> QED BY <1>1, <2>1, <2>2, <2>3, <2>4, <2>5, <2>6, <2>7, <2>8, <2>9, <2>10
      DEF OpenerStep
<1>2. ASSUME HubStep PROVE TypeOK'
  <2>1. CASE HubEvent
    BY <2>1, HubMoveType DEF HubEvent, HubPcs, TypeOK
  <2>2. CASE PortStatus
    <3>1. hub' \in HubPcs /\ notified' \in BOOLEAN
      BY <2>2 DEF PortStatus, GetPortStatus, StatusData, HubPcs
    <3>2. enable' \in BOOLEAN /\ cConnection' \in BOOLEAN /\ cReset' \in BOOLEAN
      BY <2>2 DEF PortStatus, GetPortStatus, TypeOK
    <3> QED BY <2>2, <3>1, <3>2, HubMoveType DEF PortStatus, GetPortStatus
  <2>3. CASE ClearConnection
    <3>1. hub' \in HubPcs /\ notified' \in BOOLEAN
      BY <2>3 DEF ClearConnection, StatusData, HubPcs
    <3>2. enable' \in BOOLEAN /\ cConnection' \in BOOLEAN /\ cReset' \in BOOLEAN
      BY <2>3 DEF ClearConnection, TypeOK
    <3> QED BY <2>3, <3>1, <3>2, HubMoveType DEF ClearConnection
  <2>4. CASE Debounce
    BY <1>0, <2>4 DEF Debounce, GetPortStatus, StatusData, TypeOK, HubPcs
  <2>5. CASE PortReset
    <3>1. hub' \in HubPcs /\ notified' \in BOOLEAN
      BY <2>5 DEF PortReset, StatusData, HubPcs
    <3>2. enable' \in BOOLEAN /\ cConnection' \in BOOLEAN /\ cReset' \in BOOLEAN
      BY <2>5 DEF PortReset, TypeOK
    <3> QED BY <2>5, <3>1, <3>2, HubMoveType DEF PortReset
  <2>6. CASE WaitReset
    <3>1. hub' \in HubPcs /\ notified' \in BOOLEAN
      BY <2>6 DEF WaitReset, GetPortStatus, StatusData, HubPcs
    <3>2. enable' \in BOOLEAN /\ cConnection' \in BOOLEAN /\ cReset' \in BOOLEAN
      BY <2>6 DEF WaitReset, GetPortStatus, TypeOK
    <3> QED BY <2>6, <3>1, <3>2, HubMoveType DEF WaitReset, GetPortStatus
  <2>7. CASE ClearReset \/ ClearStaleReset
    <3>1. hub' \in HubPcs /\ notified' \in BOOLEAN
      BY <2>7 DEF ClearReset, ClearStaleReset, ClearResetChange, StatusData, HubPcs
    <3>2. enable' \in BOOLEAN /\ cConnection' \in BOOLEAN /\ cReset' \in BOOLEAN
      BY <2>7 DEF ClearReset, ClearStaleReset, ClearResetChange, TypeOK
    <3> QED BY <2>7, <3>1, <3>2, HubMoveType DEF ClearReset, ClearStaleReset, ClearResetChange
  <2>8. CASE Enumerate
    BY <2>8 DEF Enumerate, TypeOK, HubPcs
  <2> QED BY <1>2, <2>1, <2>2, <2>3, <2>4, <2>5, <2>6, <2>7, <2>8 DEF HubStep
<1>3. ASSUME RequestStep PROVE TypeOK'
  <2>1. ASSUME NEW v \in {0, 1}, SetConfiguration(v) PROVE TypeOK'
    BY <1>0, <2>1 DEF SetConfiguration, TypeOK, RequestPcs
  <2>2. ASSUME NEW v \in {0, 1}, SetInterface(v) PROVE TypeOK'
    BY <2>2 DEF SetInterface, TypeOK, RequestPcs
  <2>3. CASE SetStatus
    BY <2>3 DEF SetStatus, TypeOK, RequestPcs, Flags
  <2> QED BY <1>3, <2>1, <2>2, <2>3 DEF RequestStep
<1>4. ASSUME FillUrb \/ LoopStep PROVE TypeOK'
  BY <1>4 DEF FillUrb, LoopStep, TypeOK
<1>5. ASSUME Stop PROVE TypeOK'
  BY <1>5 DEF Stop, TypeOK
<1>6. ASSUME UNCHANGED vars PROVE TypeOK'
  BY <1>6 DEF vars, TypeOK
<1> QED BY <1>1, <1>2, <1>3, <1>4, <1>5, <1>6 DEF Next
-----------------------------------------------------------------------------
(* The inductive invariant.                                                *)

(* Initially the port is unplugged and nobody has it open.                 *)
LEMMA InitInv ==
    ASSUME PortConstants, Init
    PROVE  PortInv /\ AudioInv
<1>1. AudioInv
  <2>1. AudioTypeOK /\ heard <= written /\ flushed <= written /\ lock # "write"
    BY DEF Init, AudioInit, AudioTypeOK
  <2>2. packets = <<>> /\ queued = 0 /\ Len(packets) = 0
    BY DEF Init, AudioInit
  <2>3. Ordered(packets, written, heard, flushed) /\ Backlog(packets, written) = 0
    BY <2>2, OrderedEmpty
  <2> QED BY <2>1, <2>2, <2>3, AudioInvIs DEF AudioParts
<1>2. TypeOK
  BY <1>1 DEF Init, TypeOK, PastTypeOK, AudioInv, OpenerPcs, HubPcs, RequestPcs
<1>3. ConnectionsNumbered /\ HubHasDevice /\ FlagIsBit /\ RequestKnows
  BY DEF Init, ConnectionsNumbered, HubHasDevice, FlagIsBit, RequestKnows
<1>4. StateCovered /\ ChangeReachesHub /\ HostKnowsProfile
  BY DEF Init, StateCovered, ChangeReachesHub, Plugged, HostKnowsProfile
<1> QED BY <1>1, <1>2, <1>3, <1>4 DEF PortInv

(* Every step keeps it.                                                    *)
LEMMA StepInv ==
    ASSUME SizesNat, PortConstants, PortInv, AudioInv, [Next]_vars
    PROVE  PortInv' /\ AudioInv'
<1>1. AudioInv'
  BY AudioNext
<1>2. TypeOK'
  <2>1. PastTypeOK'
    BY PastNext DEF PortInv, TypeOK
  <2> QED BY <1>1, <2>1, TypeNext DEF PortInv, AudioInv
<1>3. ASSUME NEW o \in Openers, OpenerStep(o) PROVE PortInv'
  <2>1. CASE Open(o)
    BY <1>2, <2>1, OpenKeeps
  <2>2. CASE Release(o)
    BY <1>2, <2>2, ReleaseKeeps
  <2>3. CASE WriteFrame(o)
    BY <1>2, <2>3, AudioOnlyKeeps DEF WriteFrame
  <2>4. CASE \E c \in Calls : Ioctl(o, c)
    BY <1>2, <2>4, IoctlKeeps
  <2>5. CASE \E p \in Profiles : SetProfile(o, p)
    BY <1>2, <2>5, SetProfileKeeps
  <2>6. CASE ConnectionTooLate(o)
    BY <1>2, <2>6, ConnectionTooLateKeeps
  <2>7. CASE Connect(o)
    BY <1>2, <2>7, ConnectKeeps
  <2>8. CASE Disconnect(o)
    BY <1>2, <2>8, DisconnectKeeps
  <2>9. CASE ResetState(o)
    BY <1>2, <2>9, ResetStateKeeps
  <2>10. CASE PollRootHub(o)
    BY <1>2, <2>10, PollRootHubKeeps
  <2> QED BY <1>3, <2>1, <2>2, <2>3, <2>4, <2>5, <2>6, <2>7, <2>8, <2>9, <2>10
      DEF OpenerStep
<1>4. ASSUME HubStep PROVE PortInv'
  BY <1>2, <1>4, HubEventKeeps, PortStatusKeeps, ClearConnectionKeeps, DebounceKeeps,
     PortResetKeeps, WaitResetKeeps, ClearResetKeeps, ClearStaleResetKeeps, EnumerateKeeps
     DEF HubStep
<1>5. ASSUME RequestStep PROVE PortInv'
  BY <1>2, <1>5, SetConfigurationKeeps, SetInterfaceKeeps, SetStatusKeeps DEF RequestStep
<1>6. ASSUME FillUrb \/ LoopStep PROVE PortInv'
  BY <1>2, <1>6, AudioOnlyKeeps DEF FillUrb, LoopStep
<1>7. ASSUME Stop PROVE PortInv'
  BY <1>2, <1>7, StopKeeps
<1>8. ASSUME UNCHANGED vars PROVE PortInv'
  BY <1>2, <1>8, AudioOnlyKeeps DEF vars
<1> QED BY <1>1, <1>3, <1>4, <1>5, <1>6, <1>7, <1>8 DEF Next

(* The port's and the microphone's invariant hold in every state.          *)
THEOREM PortInvariant == Spec => [](PortInv /\ AudioInv)
<1>1. Init => PortInv /\ AudioInv
  BY InitInv, PortConstants
<1>2. PortInv /\ AudioInv /\ [Next]_vars => (PortInv /\ AudioInv)'
  BY StepInv, SizesNat, PortConstants
<1> QED BY <1>1, <1>2, PTL DEF Spec

(* Typing: every variable of the port, the hub and the microphone keeps    *)
(* its type.                                                               *)
THEOREM PortTyping == Spec => []TypeOK
<1>1. PortInv /\ AudioInv => TypeOK
  BY DEF PortInv
<1> QED BY <1>1, PortInvariant, PTL

(* No hot-plug event is lost: a change of the connection that the host     *)
(* does not know is latched in port_status or about to be read, and a      *)
(* latched change is on its way to the hub driver, however the openers'    *)
(* calls, their closes and the hub's requests interleave.                  *)
THEOREM HotPlugSeen == Spec => []ChangeReachesHub
<1>1. PortInv /\ AudioInv => ChangeReachesHub
  BY DEF PortInv
<1> QED BY <1>1, PortInvariant, PTL

(* The host never goes by a profile the port does not have any more:       *)
(* VDS_IOC_SET_PROFILE is refused as long as the device is plugged in, and *)
(* a device that is plugged in again is enumerated again.                  *)
THEOREM ProfileKnown == Spec => []HostKnowsProfile
<1>1. PortInv /\ AudioInv => HostKnowsProfile
  BY DEF PortInv
<1> QED BY <1>1, PortInvariant, PTL

(* What the host knows of the port is what the port is, or is about to be  *)
(* corrected.                                                              *)
THEOREM HostCurrent == Spec => []HostInformed
BY HotPlugSeen, ProfileKnown, PTL DEF HostInformed

(* What GET_STATUS reports covers what the device does, although           *)
(* vds_usb_core.c and the port change the two under different locks.       *)
THEOREM StatusHonest == Spec => []StatusCoversDevice
<1>1. PortInv /\ AudioInv => StatusCoversDevice
  BY DEF PortInv, StateCovered, ResetPending, StatusCoversDevice
<1> QED BY <1>1, PortInvariant, PTL

(* The byte count of the microphone queue is exact whenever dev->lock is   *)
(* free, and more than one frame is kept only within                       *)
(* VDS_AUDIO_IN_QUEUE_MAX_BYTES.                                           *)
THEOREM MicBounded == Spec => []MicBacklog
<1>1. PortInv /\ AudioInv => MicBacklog
  BY DEF AudioInv, MicBacklog
<1> QED BY <1>1, PortInvariant, PTL

(* The host hears the microphone in order, without a repetition, and no    *)
(* sound that was written before a disconnect.                             *)
THEOREM MicOrdered == Spec => []MicInOrder
<1>1. PortInv /\ AudioInv => MicInOrder
  BY DEF AudioInv
<1> QED BY <1>1, PortInvariant, PTL

(* The microphone queue neither lags nor garbles.                          *)
THEOREM MicRight == Spec => []MicFaithful
BY MicBounded, MicOrdered, PTL DEF MicFaithful

-----------------------------------------------------------------------------
(* The hand-over of the port from one file to the next.                    *)

(* Every step keeps the account of the files: vds_open is refused as long  *)
(* as another file is open, and vds_release lets go of the port only with  *)
(* its disconnect to come.                                                 *)
LEMMA FilesStep ==
    ASSUME PortInv, FilesHeld, [Next]_vars
    PROVE  FilesHeld'
<1>1. ASSUME NEW o \in Openers, Open(o) PROVE FilesHeld'
  BY <1>1 DEF PortInv, TypeOK, FilesHeld, Open
<1>2. ASSUME NEW o \in Openers, Release(o) PROVE FilesHeld'
  BY <1>2 DEF PortInv, TypeOK, FlagIsBit, FilesHeld, Release
<1>3. ASSUME NEW o \in Openers, NEW c \in Calls, Ioctl(o, c) PROVE FilesHeld'
  BY <1>3 DEF PortInv, TypeOK, FilesHeld, Ioctl, Calls
<1>4. ASSUME NEW o \in Openers, NEW p \in Profiles, SetProfile(o, p) PROVE FilesHeld'
  BY <1>4 DEF PortInv, TypeOK, FilesHeld, SetProfile, Return
<1>5. ASSUME NEW o \in Openers, ConnectionTooLate(o) PROVE FilesHeld'
  BY <1>5 DEF PortInv, TypeOK, FilesHeld, ConnectionTooLate, Return
<1>6. ASSUME NEW o \in Openers, Connect(o) PROVE FilesHeld'
  BY <1>6 DEF PortInv, TypeOK, FilesHeld, Connect
<1>7. ASSUME NEW o \in Openers, Disconnect(o) PROVE FilesHeld'
  BY <1>7 DEF PortInv, TypeOK, FilesHeld, Disconnect
<1>8. ASSUME NEW o \in Openers, ResetState(o) PROVE FilesHeld'
  BY <1>8 DEF PortInv, TypeOK, FilesHeld, ResetState
<1>9. ASSUME NEW o \in Openers, PollRootHub(o) PROVE FilesHeld'
  BY <1>9 DEF PortInv, TypeOK, FilesHeld, PollRootHub, Return
<1>10. ASSUME UNCHANGED <<opened, openerVars, connection>>, ~stopping' => ~stopping
       PROVE  FilesHeld'
  BY <1>10 DEF FilesHeld, openerVars
<1>11. ASSUME \/ HubStep \/ RequestStep \/ FillUrb \/ LoopStep \/ Stop \/ UNCHANGED vars
              \/ \E o \in Openers : WriteFrame(o)
       PROVE  UNCHANGED <<opened, openerVars, connection>> /\ (~stopping' => ~stopping)
  BY <1>11 DEF HubStep, HubEvent, PortStatus, ClearConnection, Debounce, PortReset,
               WaitReset, ClearReset, ClearStaleReset, Enumerate, GetPortStatus,
               ClearResetChange, RequestStep, SetConfiguration, SetInterface, SetStatus,
               FillUrb, LoopStep, Stop, WriteFrame, vars, devVars, portVars
<1> QED BY <1>1, <1>2, <1>3, <1>4, <1>5, <1>6, <1>7, <1>8, <1>9, <1>10, <1>11
    DEF Next, OpenerStep

(* vds_open, when no file is in vds_release: whoever had the port before   *)
(* has left the driver, and nothing is plugged in.                         *)
LEMMA OpenHandsOver ==
    ASSUME PortInv, FilesHeld, NEW o \in Openers, Open(o), ~overlap'
    PROVE  HandedOver'
<1>1. closing = {} /\ ~opened /\ ~stopping
  BY DEF Open
<1>2. wants = {} /\ ~connection /\ \A p \in Openers : pc[p] = "closed"
  BY <1>1 DEF PortInv, TypeOK, FilesHeld
<1>3. UNCHANGED <<connection, wants, stopping>>
  BY DEF Open, portVars
<1>4. OneOpener'
  BY <1>2 DEF PortInv, TypeOK, Open, OneOpener
<1>5. WantedIsPlugged' /\ ResetIsUnplugged' /\ ConfigurationKept'
  BY <1>2, <1>3 DEF WantedIsPlugged, ResetIsUnplugged, ConfigurationKept
<1> QED BY <1>4, <1>5 DEF HandedOver

(* vds_ioctl.                                                              *)
LEMMA IoctlHandsOver ==
    ASSUME PortInv, HandedOver, NEW o \in Openers, NEW c \in Calls,
           Ioctl(o, c)
    PROVE  HandedOver'
<1>1. OneOpener'
  BY DEF PortInv, HandedOver, TypeOK, Ioctl, OneOpener, Calls
<1>2. WantedIsPlugged'
  BY DEF PortInv, HandedOver, TypeOK, Ioctl, WantedIsPlugged
<1>3. ResetIsUnplugged'
  BY DEF PortInv, HandedOver, TypeOK, Ioctl, Calls, ResetIsUnplugged,
         ResetPending
<1>4. ConfigurationKept'
  BY DEF PortInv, HandedOver, TypeOK, Ioctl, ConfigurationKept, Plugged
<1> QED BY <1>1, <1>2, <1>3, <1>4 DEF HandedOver

(* VDS_IOC_SET_PROFILE is refused while the device is plugged in.          *)
LEMMA SetProfileHandsOver ==
    ASSUME PortInv, HandedOver, NEW o \in Openers, NEW p \in Profiles,
           SetProfile(o, p)
    PROVE  HandedOver'
<1>1. OneOpener'
  BY DEF PortInv, HandedOver, TypeOK, SetProfile, Return, OneOpener
<1>2. WantedIsPlugged'
  BY DEF PortInv, HandedOver, TypeOK, SetProfile, Return, WantedIsPlugged
<1>3. ResetIsUnplugged'
  BY DEF PortInv, HandedOver, TypeOK, SetProfile, Return, ResetIsUnplugged,
         ResetPending
<1>4. ConfigurationKept'
  BY DEF PortInv, HandedOver, TypeOK, SetProfile, Return, ConfigurationKept, Plugged,
         FlagIsBit
<1> QED BY <1>1, <1>2, <1>3, <1>4 DEF HandedOver

(* vds_set_connection after the stop.                                      *)
LEMMA ConnectionTooLateHandsOver ==
    ASSUME PortInv, HandedOver, NEW o \in Openers,
           ConnectionTooLate(o)
    PROVE  HandedOver'
<1>1. OneOpener'
  BY DEF PortInv, HandedOver, TypeOK, ConnectionTooLate, Return, OneOpener
<1>2. WantedIsPlugged'
  BY DEF PortInv, HandedOver, TypeOK, ConnectionTooLate, Return, WantedIsPlugged
<1>3. ResetIsUnplugged'
  BY DEF PortInv, HandedOver, TypeOK, ConnectionTooLate, Return, ResetIsUnplugged,
         ResetPending
<1>4. ConfigurationKept'
  BY DEF PortInv, HandedOver, TypeOK, ConnectionTooLate, Return, ConfigurationKept,
         Plugged
<1> QED BY <1>1, <1>2, <1>3, <1>4 DEF HandedOver

(* vds_set_connection(true): no reset is under way.                        *)
LEMMA ConnectHandsOver ==
    ASSUME PortInv, HandedOver, NEW o \in Openers,
           Connect(o)
    PROVE  HandedOver'
<1>1. OneOpener'
  BY DEF PortInv, HandedOver, TypeOK, Connect, OneOpener
<1>2. WantedIsPlugged'
  BY DEF PortInv, HandedOver, TypeOK, Connect, WantedIsPlugged
<1>3. ResetIsUnplugged'
  BY DEF PortInv, HandedOver, TypeOK, Connect, ResetIsUnplugged, ResetPending,
         OneOpener
<1>4. ConfigurationKept'
  BY DEF PortInv, HandedOver, TypeOK, Connect, ConfigurationKept, Plugged,
         ConnectionsNumbered
<1> QED BY <1>1, <1>2, <1>3, <1>4 DEF HandedOver

(* vds_set_connection(false): the only opener takes its own device away.   *)
LEMMA DisconnectHandsOver ==
    ASSUME PortInv, FilesHeld, HandedOver, NEW o \in Openers,
           Disconnect(o)
    PROVE  HandedOver'
<1>1. OneOpener'
  BY DEF PortInv, HandedOver, TypeOK, Disconnect, OneOpener
<1>2. WantedIsPlugged'
  BY DEF PortInv, HandedOver, TypeOK, Disconnect, WantedIsPlugged, OneOpener,
         FilesHeld
<1>3. ResetIsUnplugged'
  BY DEF PortInv, HandedOver, TypeOK, Disconnect, ResetIsUnplugged, ResetPending
<1>4. ConfigurationKept'
  BY DEF PortInv, HandedOver, TypeOK, Disconnect, ConfigurationKept, Plugged
<1> QED BY <1>1, <1>2, <1>3, <1>4 DEF HandedOver

(* vds_usb_device_reset_state: the device it resets is unplugged.          *)
LEMMA ResetStateHandsOver ==
    ASSUME PortInv, HandedOver, NEW o \in Openers,
           ResetState(o)
    PROVE  HandedOver'
<1>1. OneOpener'
  BY DEF PortInv, HandedOver, TypeOK, ResetState, OneOpener
<1>2. WantedIsPlugged'
  BY DEF PortInv, HandedOver, TypeOK, ResetState, WantedIsPlugged
<1>3. ResetIsUnplugged'
  BY DEF PortInv, HandedOver, TypeOK, ResetState, ResetIsUnplugged, ResetPending
<1>4. ConfigurationKept'
  <2>1. ResetPending /\ UNCHANGED <<stopping, connection>>
    BY DEF ResetState, ResetPending
  <2>2. ~stopping' => ~connection'
    BY <2>1 DEF HandedOver, ResetIsUnplugged
  <2> QED BY <2>2 DEF ConfigurationKept
<1> QED BY <1>1, <1>2, <1>3, <1>4 DEF HandedOver

(* The end of vds_set_connection.                                          *)
LEMMA PollRootHubHandsOver ==
    ASSUME PortInv, HandedOver, NEW o \in Openers,
           PollRootHub(o)
    PROVE  HandedOver'
<1>1. OneOpener'
  BY DEF PortInv, HandedOver, TypeOK, PollRootHub, Return, OneOpener
<1>2. WantedIsPlugged'
  BY DEF PortInv, HandedOver, TypeOK, PollRootHub, Return, WantedIsPlugged
<1>3. ResetIsUnplugged'
  BY DEF PortInv, HandedOver, TypeOK, PollRootHub, Return, ResetIsUnplugged,
         ResetPending
<1>4. ConfigurationKept'
  BY DEF PortInv, HandedOver, TypeOK, PollRootHub, Return, ConfigurationKept, Plugged
<1> QED BY <1>1, <1>2, <1>3, <1>4 DEF HandedOver

(* vds_release, by the only opener.                                        *)
LEMMA ReleaseHandsOver ==
    ASSUME PortInv, HandedOver, NEW o \in Openers,
           Release(o)
    PROVE  HandedOver'
<1>1. OneOpener'
  BY DEF PortInv, HandedOver, TypeOK, Release, OneOpener
<1>2. WantedIsPlugged'
  BY DEF PortInv, HandedOver, TypeOK, Release, WantedIsPlugged
<1>3. ResetIsUnplugged'
  BY DEF PortInv, HandedOver, TypeOK, Release, ResetIsUnplugged, ResetPending
<1>4. ConfigurationKept'
  BY DEF PortInv, HandedOver, TypeOK, Release, ConfigurationKept, Plugged
<1> QED BY <1>1, <1>2, <1>3, <1>4 DEF HandedOver

(* The other steps change neither the openers nor the connection.          *)
LEMMA OthersHandOver ==
    ASSUME PortInv, HandedOver,
           UNCHANGED <<opened, openerVars, connection, conns>>,
           ~stopping' => ~stopping,
           \/ UNCHANGED <<configuration, asked>>
           \/ configuration' = asked'.value
    PROVE  HandedOver'
<1>1. OneOpener' /\ WantedIsPlugged' /\ ResetIsUnplugged'
  BY DEF HandedOver, OneOpener, WantedIsPlugged, ResetIsUnplugged, ResetPending
<1>2. ConfigurationKept'
  BY DEF HandedOver, ConfigurationKept, Plugged
<1> QED BY <1>1, <1>2 DEF HandedOver

(* Every step but an open keeps what stands without overlap.               *)
LEMMA HandOverStep ==
    ASSUME PortInv, FilesHeld, HandedOver, [Next]_vars, ~\E o \in Openers : Open(o)
    PROVE  HandedOver'
<1>1. ASSUME NEW o \in Openers, OpenerStep(o) PROVE HandedOver'
  <2>2. CASE Release(o)
    BY <2>2, ReleaseHandsOver
  <2>3. CASE WriteFrame(o)
    BY <2>3, OthersHandOver DEF WriteFrame
  <2>4. CASE \E c \in Calls : Ioctl(o, c)
    BY <2>4, IoctlHandsOver
  <2>5. CASE \E p \in Profiles : SetProfile(o, p)
    BY <2>5, SetProfileHandsOver
  <2>6. CASE ConnectionTooLate(o)
    BY <2>6, ConnectionTooLateHandsOver
  <2>7. CASE Connect(o)
    BY <2>7, ConnectHandsOver
  <2>8. CASE Disconnect(o)
    BY <2>8, DisconnectHandsOver
  <2>9. CASE ResetState(o)
    BY <2>9, ResetStateHandsOver
  <2>10. CASE PollRootHub(o)
    BY <2>10, PollRootHubHandsOver
  <2> QED BY <1>1, <2>2, <2>3, <2>4, <2>5, <2>6, <2>7, <2>8, <2>9, <2>10
      DEF OpenerStep
<1>2. ASSUME HubStep PROVE HandedOver'
  <2>1. UNCHANGED <<opened, openerVars, connection, conns, stopping, configuration, asked>>
    BY <1>2 DEF HubStep, HubEvent, PortStatus, ClearConnection, Debounce, PortReset,
                WaitReset, ClearReset, ClearStaleReset, Enumerate, GetPortStatus,
                ClearResetChange
  <2> QED BY <2>1, OthersHandOver
<1>3. ASSUME RequestStep PROVE HandedOver'
  <2>1. UNCHANGED <<opened, openerVars, connection, conns, stopping>>
    BY <1>3 DEF RequestStep, SetConfiguration, SetInterface, SetStatus
  <2>2. UNCHANGED <<configuration, asked>> \/ configuration' = asked'.value
    BY <1>3 DEF RequestStep, SetConfiguration, SetInterface, SetStatus
  <2> QED BY <2>1, <2>2, OthersHandOver
<1>4. ASSUME FillUrb \/ LoopStep \/ Stop \/ UNCHANGED vars PROVE HandedOver'
  BY <1>4, OthersHandOver DEF FillUrb, LoopStep, Stop, vars
<1> QED BY <1>1, <1>2, <1>3, <1>4 DEF Next

(* One file is open at a time, and what is plugged in is held or about to  *)
(* be unplugged.  A file that was opened when no other was in vds_release  *)
(* is alone in the driver; its connection stands until it takes it down,   *)
(* and a reset finds the device unplugged.                                 *)
THEOREM HandOver == Spec => []HandOverInv
<1>1. Init => HandOverInv
  BY DEF Init, HandOverInv, FilesHeld, HandedOver, OneOpener, WantedIsPlugged,
         ResetIsUnplugged, ResetPending, ConfigurationKept
<1>2. ASSUME PortInv, HandOverInv, [Next]_vars PROVE HandOverInv'
  <2>1. FilesHeld'
    BY <1>2, FilesStep DEF HandOverInv
  <2>2. ASSUME NEW o \in Openers, Open(o), ~overlap' PROVE HandedOver'
    BY <1>2, <2>2, OpenHandsOver DEF HandOverInv
  <2>3. ASSUME ~\E o \in Openers : Open(o), ~overlap' PROVE HandedOver'
    BY <1>2, <2>3, PastNext, HandOverStep DEF HandOverInv, PortInv, TypeOK
  <2> QED BY <2>1, <2>2, <2>3 DEF HandOverInv
<1>3. Spec => []PortInv
  BY PortInvariant, PTL
<1> QED BY <1>1, <1>2, <1>3, PTL DEF Spec

(* A process that has opened the port when no close of another file was    *)
(* under way keeps the device it plugs in until it takes it away itself,   *)
(* with the configuration the host has set, whatever overlapped before.    *)
THEOREM DeviceStands == Spec => []DeviceKept
<1>1. PortInv /\ HandOverInv => DeviceKept
  BY DEF PortInv, HandOverInv, HandedOver, FlagIsBit, WantedIsPlugged, OpenerKeepsPort,
         DeviceKept
<1>2. Spec => []PortInv
  BY PortInvariant, PTL
<1> QED BY <1>1, <1>2, HandOver, PTL
=============================================================================
