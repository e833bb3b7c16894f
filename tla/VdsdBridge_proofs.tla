------------------------- MODULE VdsdBridge_proofs -------------------------
(***************************************************************************)
(* Theorems about the bridge of the Linux daemon, VdsdBridge, for every    *)
(* set of host states and feature reports, every size of the socket and of *)
(* the queues, and every number of sessions.                               *)
(***************************************************************************)
EXTENDS VdsdBridge, Lists_proofs

-----------------------------------------------------------------------------
(* The reports a handler sends.                                            *)

(* What a handler works on (Handler).                                      *)
Work == [p: PortType, tx: 0 .. Room, ctrl: DsStates, asks: Seq(Features),
         replies: SUBSET Features, threw: BOOLEAN]

(* The parts of the port that sending a report leaves alone.               *)
SameSound(p, q) ==
  /\ q.chunks = p.chunks /\ q.partial = p.partial /\ q.stream = p.stream
  /\ q.asked = p.asked /\ q.cached = p.cached

SamePlay(p, q) ==
  /\ q.audio_out = p.audio_out /\ q.wave = p.wave
  /\ q.headset = p.headset /\ q.path = p.path

SameAsks(w, r) == r.asks = w.asks /\ r.replies = w.replies

(* The host's part of the state the controller was sent last.              *)
Told(w) == w.p.last # None => w.ctrl.host = w.p.last.host

(* NewestStateKept in the midst of a handler.                              *)
HostTold(w) ==
  (IF w.p.pending = None THEN w.ctrl ELSE w.p.pending).host = w.p.state.host

(* The last full state the controller was or will be told, the path sound  *)
(* must take, and RouteFollowsHeadset in the midst of a handler: what the  *)
(* port remembers, and what the controller hears of it.                    *)
Latest(p) == IF p.pending = None THEN p.last ELSE p.pending

Way(p) == IF p.headset THEN "headphones" ELSE "speaker"

Routed(p) == p.audio_out \/ p.wave => p.path = Way(p) /\ p.state.route = Way(p)

Heard(p) == p.audio_out \/ p.wave => Latest(p).route = Way(p)

(* try_write_packet changes the socket and the controller, nothing else.   *)
LEMMA TrySend ==
  ASSUME NEW w \in Work, NEW c \in DsStates
  PROVE  LET r == try_send_output_report(w, c)
         IN  /\ r \in Work /\ r.p = w.p /\ SameAsks(w, r)
             /\ r.ctrl = (IF Sendable(w) THEN c ELSE w.ctrl)
             /\ Sendable(w) => ~r.threw
             /\ w.threw => r.threw
<1> USE BridgeAssumption
<1>1. CASE w.threw
  BY <1>1 DEF try_send_output_report, SameAsks, Sendable
<1>2. CASE ~w.threw /\ lost
  BY <1>2 DEF try_send_output_report, SameAsks, Sendable, Work
<1>3. CASE ~w.threw /\ ~lost /\ w.tx = 0
  BY <1>3 DEF try_send_output_report, SameAsks, Sendable, Work
<1>4. CASE ~w.threw /\ ~lost /\ w.tx # 0
  <2>1. w.tx > 0 /\ w.tx - 1 \in 0 .. Room
    BY <1>4 DEF Work
  <2> QED BY <1>4, <2>1 DEF try_send_output_report, SameAsks, Sendable, Work
<1> QED BY <1>1, <1>2, <1>3, <1>4

(* What is known of a handler after it sent, or tried to send, a state.    *)
Forwarded(w, r) ==
  /\ r \in Work /\ SameAsks(w, r)
  /\ SameSound(w.p, r.p) /\ SamePlay(w.p, r.p)
  /\ r.p.state = w.p.state
  /\ Told(r)

(* The pending state is sent, or stays pending.                            *)
LEMMA FlushState ==
  ASSUME NEW w \in Work, Told(w)
  PROVE  LET r == flush_pending_bt_state_report(w)
         IN  /\ Forwarded(w, r)
             /\ HostTold(w) => HostTold(r)
             /\ Latest(r.p) = Latest(w.p)
             /\ w.threw => r.threw
<1> DEFINE s == w.p.pending
           t == try_send_output_report(w, s)
           r == flush_pending_bt_state_report(w)
<1>1. CASE w.threw \/ s = None
  <2>1. r = w
    BY <1>1 DEF flush_pending_bt_state_report
  <2> QED BY <2>1 DEF Forwarded, SameAsks, SameSound, SamePlay
<1>2. CASE ~w.threw /\ s # None
  <2>0. w.p \in PortType /\ s \in DsStates /\ w.ctrl \in DsStates
    BY <1>2 DEF Work, PortType
  <2>2. /\ t \in Work /\ t.p = w.p /\ SameAsks(w, t)
        /\ t.ctrl = (IF Sendable(w) THEN s ELSE w.ctrl)
    BY <2>0, TrySend
  <2> HIDE DEF t
  <2>3. CASE Sendable(w)
    <3> DEFINE q == [w.p EXCEPT !.last = s, !.pending = None]
    <3>1. /\ q \in PortType /\ SameSound(w.p, q) /\ SamePlay(w.p, q)
          /\ q.state = w.p.state /\ q.last = s /\ q.pending = None
      BY <2>0 DEF PortType, SameSound, SamePlay
    <3> HIDE DEF q
    <3>2. r = [t EXCEPT !.p = q]
      BY <1>2, <2>2, <2>3 DEF flush_pending_bt_state_report, Work, q, t
    <3>3. /\ r \in Work /\ r.p = q /\ SameAsks(w, r)
          /\ r.ctrl = s
      BY <2>2, <2>3, <3>1, <3>2 DEF Work, SameAsks
    <3> HIDE DEF r
    <3> QED BY <1>2, <3>1, <3>3 DEF Forwarded, Told, HostTold, Latest, r
  <2>4. CASE ~Sendable(w)
    <3>1. r = t
      BY <1>2, <2>4 DEF flush_pending_bt_state_report, t
    <3> HIDE DEF r
    <3> QED BY <1>2, <2>2, <2>4, <3>1 DEF Forwarded, Told, HostTold, SameSound,
          SamePlay, Latest, r
  <2> QED BY <2>3, <2>4
<1> QED BY <1>1, <1>2

(* forward_bt_state_if_changed leaves no older state pending: unless the   *)
(* link is gone, the newest one is sent or pending.                        *)
LEMMA Forwards ==
  ASSUME NEW w0 \in Work, Told(w0)
  PROVE  LET r == forward_bt_state_if_changed(w0)
         IN  /\ Forwarded(w0, r)
             /\ ~r.threw => HostTold(r) /\ Latest(r.p) = r.p.state
<1> DEFINE w == flush_pending_bt_state_report(w0)
           s == w.p.state
           t == try_send_output_report(w, s)
           r == forward_bt_state_if_changed(w0)
<1>1. Forwarded(w0, w)
  BY FlushState
<1>2. r = IF w.threw THEN w
          ELSE IF w.p.last = s THEN [w EXCEPT !.p.pending = None]
          ELSE IF w.p.pending = s THEN w
          ELSE IF Sendable(w) THEN [t EXCEPT !.p.last = s, !.p.pending = None]
          ELSE IF t.threw THEN t
          ELSE [t EXCEPT !.p.pending = s]
  BY DEF forward_bt_state_if_changed
<1> HIDE DEF w, r
<1>3. /\ w \in Work /\ Told(w) /\ w.p \in PortType /\ s \in DsStates
      /\ w.ctrl \in DsStates /\ s # None
  BY <1>1, BridgeAssumption DEF Forwarded, Work, PortType
<1>5. /\ t \in Work /\ t.p = w.p /\ SameAsks(w, t)
      /\ t.ctrl = (IF Sendable(w) THEN s ELSE w.ctrl)
  BY <1>3, TrySend
<1> HIDE DEF t
<1>6. Forwarded(w, r) /\ (~r.threw => HostTold(r) /\ Latest(r.p) = r.p.state)
  <2>1. CASE w.threw
    BY <1>2, <1>3, <2>1 DEF Forwarded, SameAsks, SameSound, SamePlay
  <2>2. CASE ~w.threw /\ w.p.last = s
    <3> DEFINE q == [w.p EXCEPT !.pending = None]
    <3>1. /\ q \in PortType /\ SameSound(w.p, q) /\ SamePlay(w.p, q)
          /\ q.state = w.p.state /\ q.last = s /\ q.pending = None
      BY <1>3, <2>2 DEF PortType, SameSound, SamePlay
    <3>2. r = [w EXCEPT !.p = q]
      BY <1>2, <2>2
    <3> HIDE DEF q
    <3>3. r \in Work /\ r.p = q /\ SameAsks(w, r) /\ r.ctrl = w.ctrl
      BY <1>3, <3>1, <3>2 DEF Work, SameAsks
    <3> QED BY <1>3, <2>2, <3>1, <3>3 DEF Forwarded, Told, HostTold, Latest
  <2>3. CASE ~w.threw /\ w.p.last # s /\ w.p.pending = s
    <3>1. r = w
      BY <1>2, <2>3
    <3> QED BY <1>3, <2>3, <3>1 DEF Forwarded, SameAsks, SameSound, SamePlay, HostTold,
          Latest
  <2>4. CASE ~w.threw /\ w.p.last # s /\ w.p.pending # s /\ Sendable(w)
    <3> DEFINE q == [w.p EXCEPT !.last = s, !.pending = None]
    <3>1. /\ q \in PortType /\ SameSound(w.p, q) /\ SamePlay(w.p, q)
          /\ q.state = w.p.state /\ q.last = s /\ q.pending = None
      BY <1>3 DEF PortType, SameSound, SamePlay
    <3>2. r = [t EXCEPT !.p = q]
      BY <1>2, <1>5, <2>4
    <3> HIDE DEF q
    <3>3. /\ r \in Work /\ r.p = q /\ SameAsks(w, r)
          /\ r.ctrl = s
      BY <1>5, <2>4, <3>1, <3>2 DEF Work, SameAsks
    <3> QED BY <3>1, <3>3 DEF Forwarded, Told, HostTold, Latest
  <2>5. CASE ~w.threw /\ w.p.last # s /\ w.p.pending # s /\ ~Sendable(w) /\ t.threw
    <3>1. r = t
      BY <1>2, <2>5
    <3> QED BY <1>3, <1>5, <2>5, <3>1 DEF Forwarded, SameSound, SamePlay, Told
  <2>6. CASE ~w.threw /\ w.p.last # s /\ w.p.pending # s /\ ~Sendable(w) /\ ~t.threw
    <3> DEFINE q == [w.p EXCEPT !.pending = s]
    <3>1. /\ q \in PortType /\ SameSound(w.p, q) /\ SamePlay(w.p, q)
          /\ q.state = w.p.state /\ q.last = w.p.last /\ q.pending = s
      BY <1>3 DEF PortType, SameSound, SamePlay
    <3>2. r = [t EXCEPT !.p = q]
      BY <1>2, <1>5, <2>6
    <3> HIDE DEF q
    <3>3. r \in Work /\ r.p = q /\ SameAsks(w, r) /\ r.ctrl = w.ctrl
      BY <1>5, <2>6, <3>1, <3>2 DEF Work, SameAsks
    <3> QED BY <1>3, <3>1, <3>3 DEF Forwarded, Told, HostTold, Latest
  <2> QED BY <2>1, <2>2, <2>3, <2>4, <2>5, <2>6
<1> QED BY <1>1, <1>6 DEF Forwarded, SameAsks, SameSound, SamePlay, r

-----------------------------------------------------------------------------
(* The frames of the driver.                                               *)

(* What every handler keeps, unless its exception ends the session.        *)
Sane(w) ==
  w \in Work /\ Told(w) /\ Routed(w.p) /\ (~w.threw => HostTold(w) /\ Heard(w.p))

(* set_audio_out_stream_active puts one path into the state and remembers  *)
(* it.                                                                     *)
LEMMA StreamActive ==
  ASSUME NEW p \in PortType, NEW active \in BOOLEAN
  PROVE  LET q == set_audio_out_stream_active(p, active)
         IN  /\ q \in PortType /\ SameSound(p, q)
             /\ q.path = (IF active /\ ~p.headset THEN "speaker" ELSE "headphones")
             /\ q.audio_out = p.audio_out /\ q.wave = p.wave /\ q.headset = p.headset
             /\ q.last = p.last /\ q.pending = p.pending /\ q.state.host = p.state.host
             /\ q.state.route = q.path
<1> DEFINE path == IF active /\ ~p.headset THEN "speaker" ELSE "headphones"
           t == [p.state EXCEPT !.route = path]
           q == [p EXCEPT !.path = path, !.state = t]
<1>1. path \in Routes
  BY DEF Routes
<1>2. set_audio_out_stream_active(p, active) = q
  BY DEF set_audio_out_stream_active
<1> HIDE DEF path
<1>3. t \in DsStates /\ t.host = p.state.host /\ t.route = path
  BY <1>1 DEF PortType, DsStates
<1> HIDE DEF t
<1>4. /\ q \in PortType /\ SameSound(p, q) /\ q.path = path
      /\ q.audio_out = p.audio_out /\ q.wave = p.wave /\ q.headset = p.headset
      /\ q.last = p.last /\ q.pending = p.pending /\ q.state = t
  BY <1>1, <1>3 DEF PortType, SameSound
<1> HIDE DEF q
<1> QED BY <1>2, <1>3, <1>4 DEF path

(* A new port for the handler, the rest of its work untouched.             *)
LEMMA Replaced ==
  ASSUME NEW w \in Work, NEW q \in PortType
  PROVE  LET r == [w EXCEPT !.p = q]
         IN  /\ r \in Work /\ r.p = q /\ SameAsks(w, r)
             /\ r.ctrl = w.ctrl /\ r.threw = w.threw /\ r.tx = w.tx
BY DEF Work, SameAsks

(* A port whose last and pending states are those of w keeps what the      *)
(* controller was told; one whose host part is too keeps HostTold.         *)
LEMMA ReplacedTold ==
  ASSUME NEW w \in Work, NEW q \in PortType, q.last = w.p.last, Told(w)
  PROVE  LET r == [w EXCEPT !.p = q]
         IN  /\ Told(r)
             /\ q.pending = w.p.pending /\ q.state.host = w.p.state.host
                /\ HostTold(w) => HostTold(r)
<1> DEFINE r == [w EXCEPT !.p = q]
<1>1. r.p = q /\ r.ctrl = w.ctrl
  BY Replaced
<1> HIDE DEF r
<1>2. Told(r) /\ (q.pending = w.p.pending /\ q.state.host = w.p.state.host
                  /\ HostTold(w) => HostTold(r))
  BY <1>1 DEF Told, HostTold
<1> QED BY <1>2 DEF r

(* Forward after a change of the port: the route is the one of the changed *)
(* port.                                                                   *)
LEMMA ForwardChanged ==
  ASSUME NEW w \in Work, on, NEW q \in PortType, q.last = w.p.last, Told(w), Routed(q)
  PROVE  LET r == Forward([w EXCEPT !.p = q])
         IN  Sane(r) /\ SameAsks(w, r) /\ SameSound(q, r.p)
<1> DEFINE u == [w EXCEPT !.p = q]
           r == forward_bt_state_if_changed(u)
<1>1. u \in Work /\ Told(u) /\ u.p = q /\ SameAsks(w, u)
  BY Replaced, ReplacedTold
<1> HIDE DEF u
<1>2. Forwarded(u, r) /\ (~r.threw => HostTold(r) /\ Latest(r.p) = r.p.state)
  BY <1>1, Forwards
<1> HIDE DEF r
<1>3. Sane(r) /\ SameAsks(w, r) /\ SameSound(q, r.p)
  BY <1>1, <1>2 DEF Forwarded, Sane, SamePlay, SameAsks, Routed, Heard, Way
<1> QED BY <1>3 DEF Forward, r, u

(* The audio-out interface: closing empties the queue and the extractor.   *)
LEMMA InterfaceOut ==
  ASSUME NEW w \in Work, on, Sane(w), ~w.threw,
         NEW f \in [type: {"interface_out"}, alt: {0, 1}, stream: Nat]
  PROVE  LET r == AudioOutInterface(w, f)
         IN  /\ Sane(r) /\ SameAsks(w, r)
             /\ r.p.asked = w.p.asked /\ r.p.cached = w.p.cached
             /\ r.p.stream = f.stream
             /\ f.alt = 0 => r.p.chunks = << >> /\ r.p.partial = 0
             /\ f.alt # 0 => r.p.chunks = w.p.chunks /\ r.p.partial = w.p.partial
<1> DEFINE p == [w.p EXCEPT !.audio_out = f.alt # 0, !.stream = f.stream]
           r == AudioOutInterface(w, f)
<1>0. w.p \in PortType /\ f.stream \in Nat /\ f.alt \in {0, 1}
  BY DEF Work
<1>1. /\ p \in PortType /\ p.last = w.p.last /\ p.pending = w.p.pending
      /\ p.state = w.p.state /\ p.audio_out = (f.alt # 0) /\ p.wave = w.p.wave
      /\ p.headset = w.p.headset /\ p.path = w.p.path
      /\ p.asked = w.p.asked /\ p.cached = w.p.cached /\ p.stream = f.stream
      /\ p.chunks = w.p.chunks /\ p.partial = w.p.partial
  BY <1>0 DEF PortType
<1>2. CASE f.alt = 0
  <2> DEFINE none == << >>
             q == [p EXCEPT !.chunks = none, !.partial = 0]
  <2>1. r = [w EXCEPT !.p = q]
    BY <1>2 DEF AudioOutInterface
  <2>5. none \in Seq(Nat) /\ none = << >>
    OBVIOUS
  <2> HIDE DEF p, r, none
  <2>2. /\ q \in PortType /\ q.last = p.last /\ q.pending = p.pending
        /\ q.state = p.state /\ q.audio_out = p.audio_out /\ q.wave = p.wave
        /\ q.headset = p.headset /\ q.path = p.path
        /\ q.asked = p.asked /\ q.cached = p.cached /\ q.stream = p.stream
        /\ q.chunks = none /\ q.partial = 0
    BY <1>1, <2>5 DEF PortType
  <2> HIDE DEF q
  <2>3. r \in Work /\ Told(r) /\ r.p = q /\ SameAsks(w, r) /\ HostTold(r)
    BY <1>1, <2>1, <2>2, Replaced, ReplacedTold DEF Sane
  <2>4. Routed(q) /\ Heard(q)
    BY <1>1, <1>2, <2>2 DEF Routed, Heard, Latest, Way, Sane
  <2> QED BY <1>1, <1>2, <2>2, <2>3, <2>4, <2>5 DEF Sane, r
<1>3. CASE f.alt # 0
  <2> DEFINE q == set_audio_out_stream_active(p, TRUE)
  <2>1. r = Forward([w EXCEPT !.p = q])
    BY <1>3 DEF AudioOutInterface
  <2> HIDE DEF p, r
  <2>4. /\ q \in PortType /\ SameSound(p, q) /\ q.last = p.last
        /\ q.path = (IF p.headset THEN "headphones" ELSE "speaker")
        /\ q.headset = p.headset /\ q.state.route = q.path
    BY <1>1, StreamActive
  <2> HIDE DEF q
  <2>2. Routed(q)
    BY <2>4 DEF Routed, Way
  <2>3. Sane(r) /\ SameAsks(w, r) /\ SameSound(q, r.p)
    BY <1>1, <2>1, <2>2, <2>4, ForwardChanged DEF Sane
  <2> QED BY <1>1, <1>3, <2>3, <2>4 DEF SameSound, r
<1> QED BY <1>2, <1>3

(* The microphone reports carry nothing of the host's part.                *)
LEMMA MicSent ==
  ASSUME NEW w \in Work, Told(w), HostTold(w)
  PROVE  LET r == SendMicState(w)
         IN  /\ Forwarded([w EXCEPT !.p = build_bt_mic_state_report(w.p)], r)
             /\ SameAsks(w, r) /\ SameSound(w.p, r.p) /\ SamePlay(w.p, r.p)
             /\ HostTold(r) /\ Latest(r.p) = Latest(w.p)
             /\ Routed(w.p) => Routed(r.p)
<1> DEFINE m == MicState(w.p.audio_in, w.p.muted)
           t == [w.p.state EXCEPT !.mic = m, !.route = w.p.path]
           q == [w.p EXCEPT !.state = t]
           u == [w EXCEPT !.p = q]
           c == [w.ctrl EXCEPT !.mic = m, !.route = w.p.path]
           r == try_send_output_report(u, c)
<1>0. w.p \in PortType /\ w.ctrl \in DsStates
  BY DEF Work
<1>1. m \in Mics
  BY DEF MicState, Mics
<1> HIDE DEF m
<1>2. t \in DsStates /\ t.host = w.p.state.host /\ t.mic = m /\ t.route = w.p.path
  BY <1>0, <1>1 DEF PortType, DsStates
<1>3. c \in DsStates /\ c.host = w.ctrl.host
  BY <1>0, <1>1 DEF PortType, DsStates
<1>4. build_bt_mic_state_report(w.p) = q
  BY <1>0 DEF build_bt_mic_state_report, m
<1> HIDE DEF t
<1>5. /\ q \in PortType /\ q.state = t /\ q.last = w.p.last /\ q.pending = w.p.pending
      /\ q.path = w.p.path /\ SameSound(w.p, q) /\ SamePlay(w.p, q)
  BY <1>0, <1>2 DEF PortType, SameSound, SamePlay
<1>6. SendMicState(w) = r
  BY <1>2, <1>4, <1>5 DEF SendMicState
<1> HIDE DEF q, c
<1>7. u \in Work /\ u.p = q /\ SameAsks(w, u) /\ u.ctrl = w.ctrl /\ Told(u)
  BY <1>5, Replaced, ReplacedTold
<1> HIDE DEF u
<1>8. /\ r \in Work /\ r.p = q /\ SameAsks(u, r)
      /\ r.ctrl = (IF Sendable(u) THEN c ELSE w.ctrl)
  BY <1>3, <1>7, TrySend
<1> HIDE DEF r
<1>9. Told(r) /\ HostTold(r)
  BY <1>2, <1>3, <1>5, <1>8 DEF Told, HostTold
<1>10. Forwarded(u, r)
  BY <1>7, <1>8, <1>9 DEF Forwarded, SameSound, SamePlay
<1>11. Latest(q) = Latest(w.p) /\ (Routed(w.p) => Routed(q))
  BY <1>2, <1>5 DEF Latest, Routed, Way, SamePlay
<1> QED BY <1>4, <1>5, <1>6, <1>7, <1>8, <1>9, <1>10, <1>11 DEF SameAsks, u

(* The audio-in interface: two reports, neither kept if it is blocked.     *)
LEMMA InterfaceIn ==
  ASSUME NEW w \in Work, on, Sane(w), ~w.threw,
         NEW f \in [type: {"interface_in"}, alt: {0, 1}]
  PROVE  LET r == AudioInInterface(w, f)
         IN  Sane(r) /\ SameAsks(w, r) /\ SameSound(w.p, r.p)
<1> DEFINE q == [w.p EXCEPT !.audio_in = f.alt # 0]
           u == [w EXCEPT !.p = q]
           v == SendMicState(u)
           r == SendMicOpen(v)
<1>1. AudioInInterface(w, f) = r
  BY DEF AudioInInterface
<1>2. /\ q \in PortType /\ q.state = w.p.state /\ q.last = w.p.last
      /\ q.pending = w.p.pending /\ SameSound(w.p, q) /\ SamePlay(w.p, q)
  BY DEF Work, PortType, SameSound, SamePlay
<1> HIDE DEF q
<1>3. u \in Work /\ u.p = q /\ SameAsks(w, u) /\ Told(u) /\ HostTold(u)
  BY <1>2, Replaced, ReplacedTold DEF Sane
<1> HIDE DEF u
<1>4. /\ v \in Work /\ Told(v) /\ HostTold(v) /\ Latest(v.p) = Latest(q)
      /\ SameAsks(u, v) /\ SameSound(q, v.p) /\ SamePlay(q, v.p)
      /\ Routed(q) => Routed(v.p)
  BY <1>3, MicSent DEF Forwarded
<1> HIDE DEF v
<1>5. r \in Work /\ r.p = v.p /\ SameAsks(v, r) /\ r.ctrl = v.ctrl
  <2>1. v.ctrl \in DsStates
    BY <1>4 DEF Work
  <2> QED BY <1>4, <2>1, TrySend DEF SendMicOpen
<1> HIDE DEF r
<1>6. Told(r) /\ HostTold(r)
  BY <1>4, <1>5 DEF Told, HostTold
<1>7. Routed(q) /\ Heard(q) /\ Latest(q) = Latest(w.p)
  BY <1>2 DEF Routed, Heard, Latest, Way, SamePlay, Sane
<1>8. Routed(r.p) /\ Heard(r.p)
  BY <1>4, <1>5, <1>7 DEF Heard, Way, SamePlay
<1> QED BY <1>1, <1>2, <1>3, <1>4, <1>5, <1>6, <1>8 DEF Sane, SameAsks, SameSound

(* A HID output report: the host's part is taken, the path of a stream     *)
(* that plays is put back.                                                 *)
LEMMA Hid ==
  ASSUME NEW w \in Work, on, Sane(w), ~w.threw, NEW f \in HostReports
  PROVE  LET r == HidOut(w, f)
         IN  Sane(r) /\ SameAsks(w, r) /\ SameSound(w.p, r.p)
<1> DEFINE p == apply_usb_output_report(w.p, f)
           q == IF p.audio_out \/ p.wave THEN set_audio_out_stream_active(p, TRUE) ELSE p
           r == Forward([w EXCEPT !.p = q])
<1>1. HidOut(w, f) = r
  BY DEF HidOut
<1>2. /\ p \in PortType /\ p.last = w.p.last /\ SameSound(w.p, p)
  <2> DEFINE path == IF f.control = "none" THEN w.p.path ELSE f.control
             kept == IF f.control = "none" THEN w.p.state.route ELSE path
             mic == IF f.mic THEN "host" ELSE w.p.state.mic
             t == [w.p.state EXCEPT !.host = f.host, !.mic = mic,
                                    !.route = IF f.volume THEN "speaker" ELSE kept]
             u == [w.p EXCEPT !.path = path, !.state = t]
  <2>1. w.p \in PortType /\ f.host \in Hosts /\ f.control \in Routes \union {"none"}
    BY BridgeAssumption DEF Work, AllReports
  <2>2. path \in Routes /\ kept \in Routes /\ mic \in Mics
    BY <2>1 DEF PortType, DsStates, Mics
  <2>3. p = u
    BY <2>1 DEF apply_usb_output_report
  <2> HIDE DEF path, kept, mic, p
  <2>4. t \in DsStates
    BY <2>1, <2>2 DEF PortType, DsStates, Routes
  <2> HIDE DEF t
  <2> QED BY <2>1, <2>2, <2>3, <2>4 DEF PortType, SameSound
<1> HIDE DEF p
<1>3. q \in PortType /\ q.last = w.p.last /\ SameSound(w.p, q) /\ Routed(q)
  <2>1. CASE p.audio_out \/ p.wave
    <3> DEFINE a == set_audio_out_stream_active(p, TRUE)
    <3>1. /\ a \in PortType /\ SameSound(p, a) /\ a.last = p.last
          /\ a.path = (IF p.headset THEN "headphones" ELSE "speaker")
          /\ a.headset = p.headset /\ a.state.route = a.path
      BY <1>2, StreamActive
    <3> HIDE DEF a
    <3> QED BY <1>2, <2>1, <3>1 DEF SameSound, Routed, Way, a
  <2>2. CASE ~(p.audio_out \/ p.wave)
    BY <1>2, <2>2 DEF Routed
  <2> QED BY <2>1, <2>2
<1> HIDE DEF q
<1>4. Sane(r) /\ SameAsks(w, r) /\ SameSound(q, r.p)
  BY <1>3, ForwardChanged DEF Sane
<1> HIDE DEF r
<1> QED BY <1>1, <1>3, <1>4 DEF SameSound

(* A feature request of the host is answered from the cache, or remembered *)
(* and asked of the controller, or the link is gone.                       *)
LEMMA Get ==
  ASSUME NEW w \in Work, on, Sane(w), ~w.threw,
         NEW f \in [type: {"feature_get"}, id: Features]
  PROVE  LET r == FeatureGet(w, f)
         IN  /\ Sane(r)
             /\ r.p.chunks = w.p.chunks /\ r.p.partial = w.p.partial
             /\ r.p.stream = w.p.stream
             /\ \/ /\ r.replies = w.replies \union {f.id}
                   /\ r.asks = w.asks /\ r.p.asked = w.p.asked
                \/ r.threw
                \/ /\ r.p.asked = Append(w.p.asked, f.id)
                   /\ r.asks = Append(w.asks, f.id) /\ r.replies = w.replies
<1> DEFINE r == FeatureGet(w, f)
<1>0. w.p \in PortType /\ f.id \in Features /\ w.asks \in Seq(Features)
  BY DEF Work
<1>1. CASE f.id \in w.p.cached
  <2>1. r = [w EXCEPT !.replies = @ \union {f.id}]
    BY <1>1 DEF FeatureGet
  <2> HIDE DEF r
  <2>2. /\ r \in Work /\ r.p = w.p /\ r.ctrl = w.ctrl /\ r.asks = w.asks
        /\ r.replies = w.replies \union {f.id}
    BY <1>0, <2>1 DEF Work
  <2>3. Told(r) /\ HostTold(r)
    BY <2>2 DEF Told, HostTold, Sane
  <2> QED BY <2>2, <2>3 DEF Sane, r
<1>2. CASE f.id \notin w.p.cached
  <2> DEFINE n == Append(w.p.asked, f.id)
             q == [w.p EXCEPT !.asked = n]
             u == [w EXCEPT !.p = q]
             a == Append(w.asks, f.id)
  <2>1. r = send_feature_get(u, f.id)
    BY <1>2 DEF FeatureGet
  <2>2. n \in Seq(Features) /\ a \in Seq(Features)
    BY <1>0 DEF PortType
  <2> HIDE DEF n, a, r
  <2>3. /\ q \in PortType /\ q.asked = n /\ q.last = w.p.last
        /\ q.pending = w.p.pending /\ q.state = w.p.state /\ SamePlay(w.p, q)
        /\ q.chunks = w.p.chunks /\ q.partial = w.p.partial /\ q.stream = w.p.stream
    BY <1>0, <2>2 DEF PortType, SamePlay
  <2> HIDE DEF q
  <2>4. /\ u \in Work /\ u.p = q /\ SameAsks(w, u) /\ Told(u) /\ HostTold(u)
        /\ u.ctrl = w.ctrl /\ ~u.threw
    BY <2>3, Replaced, ReplacedTold DEF Sane
  <2> HIDE DEF u
  <2>5. /\ r \in Work /\ r.p = q /\ r.ctrl = w.ctrl
        /\ r.threw \/ (r.asks = a /\ r.replies = w.replies)
    <3>1. CASE lost
      <4>1. r = [u EXCEPT !.threw = TRUE]
        BY <2>1, <2>4, <3>1 DEF send_feature_get
      <4> QED BY <2>4, <4>1 DEF Work
    <3>2. CASE ~lost
      <4>1. r = [u EXCEPT !.asks = a]
        BY <2>1, <2>4, <3>2 DEF send_feature_get, SameAsks, a
      <4> QED BY <2>2, <2>4, <4>1 DEF Work, SameAsks
    <3> QED BY <3>1, <3>2
  <2>6. Told(r) /\ HostTold(r) /\ Routed(r.p) /\ Heard(r.p)
    BY <2>3, <2>4, <2>5 DEF Told, HostTold, Routed, Heard, Latest, Way, SamePlay, Sane
  <2> QED BY <2>3, <2>5, <2>6 DEF Sane, n, a, r
<1> QED BY <1>1, <1>2

(* A WebHID test command: the result report is cached, the sine starts or  *)
(* stops the stream.                                                       *)
LEMMA Set ==
  ASSUME NEW w \in Work, on, Sane(w), ~w.threw,
         NEW f \in [type: {"feature_set"}, command: TestCommands]
  PROVE  LET r == FeatureSet(w, f)
         IN  /\ Sane(r) /\ r.asks = w.asks /\ w.replies \subseteq r.replies
             /\ r.p.asked = w.p.asked
             /\ r.p.chunks \in {w.p.chunks, << >>} /\ r.p.partial = w.p.partial
             /\ r.p.stream = w.p.stream
<1> DEFINE none == << >>
           k == w.p.cached \union {TestResult}
           cp == [w.p EXCEPT !.cached = k]
           c == cache_feature_report(w, TestResult)
           wave == f.command = "on" /\ w.p.wave_selected
           g == [c.p EXCEPT !.wave = wave]
           p == set_audio_out_stream_active(g, wave)
           h == IF wave THEN p.chunks ELSE none
           q == [p EXCEPT !.audio_out = wave, !.chunks = h]
           e == [c.p EXCEPT !.wave_selected = f.command = "speaker"]
           d == CASE f.command \in {"speaker", "headphone"} -> [c EXCEPT !.p = e]
                  [] f.command \in {"on", "off"} -> Forward([c EXCEPT !.p = q])
                  [] OTHER -> c
           r == FeatureSet(w, f)
<1>0. w.p \in PortType /\ f.command \in TestCommands /\ TestResult \in Features
  BY BridgeAssumption DEF Work
<1>1. /\ cp \in PortType /\ cp.last = w.p.last /\ cp.pending = w.p.pending
      /\ cp.state = w.p.state /\ SamePlay(w.p, cp) /\ cp.asked = w.p.asked
      /\ cp.chunks = w.p.chunks /\ cp.partial = w.p.partial /\ cp.stream = w.p.stream
  BY <1>0 DEF PortType, SamePlay
<1>2. c = [w EXCEPT !.p = cp, !.replies = w.replies \union {TestResult}]
  BY DEF cache_feature_report
<1>d. r = (IF d.threw THEN d ELSE send_feature_set(d))
  BY DEF FeatureSet
<1>w. wave \in BOOLEAN
  OBVIOUS
<1> HIDE DEF c, cp, r, d, wave
<1>3. /\ c \in Work /\ c.p = cp /\ c.ctrl = w.ctrl /\ c.asks = w.asks /\ ~c.threw
      /\ c.replies = w.replies \union {TestResult}
  BY <1>0, <1>1, <1>2 DEF Work
<1>4. Told(c) /\ HostTold(c) /\ Routed(cp) /\ Heard(cp)
  BY <1>1, <1>3 DEF Told, HostTold, Routed, Heard, Latest, Way, SamePlay, Sane
<1>5. /\ Sane(d) /\ SameAsks(c, d) /\ d.p.asked = cp.asked
      /\ d.p.chunks \in {cp.chunks, none} /\ d.p.partial = cp.partial
      /\ d.p.stream = cp.stream
  <2>1. CASE f.command \in {"speaker", "headphone"}
    <3>1. d = [c EXCEPT !.p = e]
      BY <2>1 DEF d
    <3>2. /\ e \in PortType /\ e.last = cp.last /\ e.pending = cp.pending
          /\ e.state = cp.state /\ SamePlay(cp, e) /\ SameSound(cp, e)
      BY <1>1, <1>3 DEF PortType, SamePlay, SameSound
    <3> HIDE DEF e
    <3>3. d \in Work /\ d.p = e /\ SameAsks(c, d) /\ Told(d) /\ HostTold(d)
      BY <1>3, <1>4, <3>1, <3>2, Replaced, ReplacedTold
    <3> QED BY <1>4, <3>2, <3>3 DEF Sane, Routed, Heard, Latest, Way, SamePlay, SameSound
  <2>2. CASE f.command \in {"on", "off"}
    <3>1. d = Forward([c EXCEPT !.p = q])
      BY <2>2 DEF d
    <3>2. /\ g \in PortType /\ g.last = cp.last /\ g.wave = wave
          /\ g.headset = cp.headset /\ SameSound(cp, g)
      BY <1>1, <1>3, <1>w DEF PortType, SameSound
    <3> HIDE DEF g
    <3>3. /\ p \in PortType /\ SameSound(g, p) /\ p.last = g.last
          /\ p.path = (IF wave /\ ~g.headset THEN "speaker" ELSE "headphones")
          /\ p.wave = wave /\ p.headset = g.headset /\ p.state.route = p.path
      BY <1>w, <3>2, StreamActive
    <3> HIDE DEF p
    <3>4. h \in Seq(Nat) /\ h \in {p.chunks, none}
      BY <3>3 DEF PortType
    <3> HIDE DEF h
    <3>5. /\ q \in PortType /\ q.last = p.last /\ q.path = p.path /\ q.state = p.state
          /\ q.audio_out = wave /\ q.wave = p.wave /\ q.headset = p.headset
          /\ q.chunks = h /\ q.partial = p.partial /\ q.stream = p.stream
          /\ q.asked = p.asked
      BY <1>w, <3>3, <3>4 DEF PortType
    <3> HIDE DEF q, none
    <3>6. Routed(q)
      BY <3>3, <3>5 DEF Routed, Way
    <3>7. Sane(d) /\ SameAsks(c, d) /\ SameSound(q, d.p)
      BY <1>3, <1>4, <3>1, <3>2, <3>3, <3>5, <3>6, ForwardChanged
    <3> QED BY <3>2, <3>3, <3>4, <3>5, <3>7 DEF SameSound
  <2>3. CASE f.command \notin {"speaker", "headphone", "on", "off"}
    <3>1. d = c
      BY <2>3 DEF d
    <3> QED BY <1>3, <1>4, <3>1 DEF Sane, SameAsks
  <2> QED BY <2>1, <2>2, <2>3
<1>6. /\ r \in Work /\ r.p = d.p /\ r.ctrl = d.ctrl /\ SameAsks(d, r)
      /\ d.threw => r.threw
  BY <1>5, <1>d DEF send_feature_set, Sane, Work, SameAsks
<1>7. Sane(r)
  BY <1>5, <1>6 DEF Sane, Told, HostTold, Routed
<1>8. /\ r.asks = w.asks /\ w.replies \subseteq r.replies
      /\ r.p.asked = w.p.asked
      /\ r.p.chunks \in {w.p.chunks, none} /\ r.p.partial = w.p.partial
      /\ r.p.stream = w.p.stream
  BY <1>1, <1>3, <1>5, <1>6 DEF SameAsks
<1> QED BY <1>7, <1>8 DEF r

(* Newest keeps the end of the queue, as much of it as there is room for.  *)
LEMMA NewestPart ==
  ASSUME NEW S, NEW q \in Seq(S), NEW n \in Nat
  PROVE  /\ Newest(q, n) \in Seq(S)
         /\ Len(Newest(q, n)) = (IF Len(q) > n THEN n ELSE Len(q))
<1> DEFINE l == Len(q)
           m == IF l > n THEN l - n + 1 ELSE 1
           r == SubSeq(q, m, l)
<1>1. l \in Nat /\ \A i \in 1 .. l : q[i] \in S
  BY LenProperties, ElementOfSeq
<1>2. Newest(q, n) = r
  BY DEF Newest
<1>3. (IF l > n THEN n ELSE l) = (IF Len(q) > n THEN n ELSE Len(q))
  OBVIOUS
<1> HIDE DEF l
<1>4. m \in Int /\ m >= 1 /\ (IF m <= l THEN l - m + 1 ELSE 0) = (IF l > n THEN n ELSE l)
  BY <1>1
<1> HIDE DEF m
<1>5. \A i \in m .. l : q[i] \in S
  BY <1>1, <1>4
<1>6. r \in Seq(S) /\ Len(r) = IF m <= l THEN l - m + 1 ELSE 0
  BY <1>1, <1>4, <1>5, SubSeqProperties
<1> HIDE DEF r
<1> QED BY <1>2, <1>3, <1>4, <1>6

(* push_usb_audio makes chunks of what it is given and of the half it has. *)
LEMMA Pushed ==
  ASSUME NEW S \in SUBSET Nat, NEW part \in S \union {0},
         NEW f \in [type: {"audio_out"}, stream: S, size: Nat]
  PROVE  LET x == push_usb_audio(part, f)
         IN  x.chunks \in Seq(S) /\ x.partial \in S \union {0}
<1> DEFINE a == IF part = 0 THEN << >> ELSE <<part>>
           b == [i \in 1 .. f.size |-> f.stream]
           halves == a \o b
           n == Len(halves)
<1>1. a \in Seq(S)
  OBVIOUS
<1>2. b \in Seq(S)
  BY IsASeq
<1>3. halves \in Seq(S)
  BY <1>1, <1>2, ConcatProperties
<1> HIDE DEF halves
<1>4. n \in Nat /\ \A i \in 1 .. n : halves[i] \in S
  BY <1>3, LenProperties, ElementOfSeq
<1> HIDE DEF n
<1>5. n \div 2 \in Nat /\ 2 * (n \div 2) <= n
  BY <1>4
<1>6. \A i \in 1 .. n \div 2 : 2 * i - 1 \in 1 .. n
  BY <1>4, <1>5
<1>7. [i \in 1 .. n \div 2 |-> halves[2 * i - 1]] \in Seq(S)
  <2> DEFINE m == n \div 2
  <2>1. m \in Nat /\ \A i \in 1 .. m : halves[2 * i - 1] \in S
    BY <1>4, <1>5, <1>6
  <2> HIDE DEF m
  <2>2. [i \in 1 .. m |-> halves[2 * i - 1]] \in Seq(S)
    BY <2>1, IsASeq
  <2> QED BY <2>2 DEF m
<1>8. (IF n % 2 = 1 THEN halves[n] ELSE 0) \in S \union {0}
  <2>1. CASE n % 2 = 1
    <3>1. n \in 1 .. n
      BY <1>4, <2>1
    <3> QED BY <1>4, <2>1, <3>1
  <2>2. CASE n % 2 # 1
    BY <2>2
  <2> QED BY <2>1, <2>2
<1> QED BY <1>7, <1>8 DEF push_usb_audio, n, halves

(* The sound a port holds is of the streams in S, or the test sine (0).    *)
SoundOf(p, S) == p.chunks \in Seq(S \union {0}) /\ p.partial \in S \union {0}

Bounded(p) == Len(p.chunks) <= MaxChunks

(* Audio data: the chunks of the frame's stream join the queue, the oldest *)
(* leave it.                                                               *)
LEMMA Audio ==
  ASSUME NEW w \in Work, on, Sane(w), ~w.threw,
         NEW S \in SUBSET Nat, SoundOf(w.p, S),
         NEW f \in [type: {"audio_out"}, stream: S, size: Nat]
  PROVE  LET r == AudioOut(w, f)
         IN  /\ Sane(r) /\ SameAsks(w, r) /\ SoundOf(r.p, S) /\ Bounded(r.p)
             /\ r.p.stream = w.p.stream /\ r.p.asked = w.p.asked
<1> DEFINE x == push_usb_audio(w.p.partial, f)
           Z == S \union {0}
           c == Newest(w.p.chunks \o x.chunks, MaxChunks)
           l == x.partial
           q == [w.p EXCEPT !.chunks = c, !.partial = l]
           r == [w EXCEPT !.p = q]
<1>1. AudioOut(w, f) = r
  BY DEF AudioOut
<1>2. w.p.chunks \in Seq(Z) /\ x.chunks \in Seq(S) /\ l \in Z
  BY Pushed DEF SoundOf
<1>z. S \subseteq Z /\ Z \subseteq Nat
  OBVIOUS
<1> HIDE DEF Z, x, l
<1>3. w.p.chunks \o x.chunks \in Seq(Z)
  <2>1. x.chunks \in Seq(Z)
    BY <1>2, <1>z, SeqMonotonic
  <2> QED BY <1>2, <2>1, ConcatProperties
<1>4. c \in Seq(Z) /\ Len(c) <= MaxChunks
  <2> DEFINE b == w.p.chunks \o x.chunks
  <2>1. MaxChunks \in Nat /\ b \in Seq(Z) /\ Len(b) \in Nat
    BY <1>3, BridgeAssumption, LenProperties
  <2> HIDE DEF b
  <2>2. Newest(b, MaxChunks) \in Seq(Z) /\ Len(Newest(b, MaxChunks)) <= MaxChunks
    BY <2>1, NewestPart
  <2> QED BY <2>2 DEF b
<1> HIDE DEF c
<1>5. c \in Seq(Nat) /\ l \in Nat
  BY <1>2, <1>z, <1>4, SeqMonotonic
<1>6. /\ q \in PortType /\ q.chunks = c /\ q.partial = l /\ q.stream = w.p.stream
      /\ q.asked = w.p.asked /\ q.last = w.p.last /\ q.pending = w.p.pending
      /\ q.state = w.p.state /\ SamePlay(w.p, q)
  BY <1>5 DEF Work, PortType, SamePlay
<1> HIDE DEF q
<1>7. r \in Work /\ r.p = q /\ SameAsks(w, r) /\ Told(r) /\ HostTold(r)
  BY <1>6, Replaced, ReplacedTold DEF Sane
<1> HIDE DEF r
<1>8. Routed(q) /\ Heard(q)
  BY <1>6 DEF Routed, Heard, Latest, Way, SamePlay, Sane
<1> QED BY <1>1, <1>2, <1>4, <1>6, <1>7, <1>8 DEF Sane, SoundOf, Bounded, Z

-----------------------------------------------------------------------------
(* The packets of the controller.                                          *)

(* An input packet: the mute button and the jack change what is played and *)
(* where, never what the host asked for.                                   *)
LEMMA Input ==
  ASSUME NEW w \in Work, Sane(w), ~w.threw, NEW k \in Packets
  PROVE  LET r == handle_bt_input(w, k)
         IN  Sane(r) /\ SameAsks(w, r) /\ SameSound(w.p, r.p)
<1> DEFINE r == handle_bt_input(w, k)
<1>1. CASE k.type = "audio"
  <2>1. r = w
    BY <1>1 DEF handle_bt_input
  <2> QED BY <2>1 DEF SameAsks, SameSound
<1>2. CASE k.type # "audio"
  <2> DEFINE pressed == k.mute /\ ~w.p.mute_down
             mic_changed == k.headset_mic # w.p.headset_mic
             muted == IF pressed THEN ~w.p.muted ELSE w.p.muted
             q == [w.p EXCEPT !.muted = muted, !.mute_down = k.mute,
                              !.headset_mic = k.headset_mic]
             w1 == [w EXCEPT !.p = q]
             w2 == IF pressed \/ (mic_changed /\ w.p.audio_in) THEN SendMicState(w1) ELSE w1
             q3 == [w2.p EXCEPT !.headset = k.headset]
             w3 == [w2 EXCEPT !.p = q3]
             plugged == k.headset # w2.p.headset
             routed == q3.audio_out \/ q3.wave
             a == set_audio_out_stream_active(q3, TRUE)
             w4 == [w3 EXCEPT !.p = a]
             w5 == forward_bt_state_if_changed(w4)
  <2>0. k.mute \in BOOLEAN /\ k.headset \in BOOLEAN /\ k.headset_mic \in BOOLEAN
    BY <1>2 DEF Packets
  <2>1. /\ q \in PortType /\ q.last = w.p.last /\ q.pending = w.p.pending
        /\ q.state = w.p.state /\ SamePlay(w.p, q) /\ SameSound(w.p, q)
    <3>1. w.p \in PortType /\ muted \in BOOLEAN
      BY DEF Work, PortType
    <3> HIDE DEF muted
    <3> QED BY <2>0, <3>1 DEF PortType, SamePlay, SameSound
  <2>2. r = IF w2.threw THEN w2 ELSE IF plugged /\ (w3.p.audio_out \/ w3.p.wave)
            THEN forward_bt_state_if_changed(
                   [w3 EXCEPT !.p = set_audio_out_stream_active(w3.p, TRUE)])
            ELSE w3
    <3> DEFINE v1 == [w EXCEPT !.p.muted = IF pressed THEN ~@ ELSE @,
                               !.p.mute_down = k.mute, !.p.headset_mic = k.headset_mic]
               v2 == IF pressed \/ (mic_changed /\ w.p.audio_in) THEN SendMicState(v1) ELSE v1
               v3 == [v2 EXCEPT !.p.headset = k.headset]
    <3>1. r = IF v2.threw THEN v2
              ELSE IF k.headset # v2.p.headset /\ (v3.p.audio_out \/ v3.p.wave)
              THEN forward_bt_state_if_changed(
                     [v3 EXCEPT !.p = set_audio_out_stream_active(v3.p, TRUE)])
              ELSE v3
      BY <1>2 DEF handle_bt_input
    <3>2. v1 = w1
      <4> HIDE DEF pressed
      <4> QED BY DEF Work, PortType
    <3> HIDE DEF v1, w1
    <3>3. v2 = w2
      BY <3>2
    <3> HIDE DEF v2, w2
    <3>4. v3 = w3
      BY <3>3
    <3> HIDE DEF v3, w3
    <3> QED BY <3>1, <3>3, <3>4
  <2> HIDE DEF q, r
  <2>3. w1 \in Work /\ w1.p = q /\ SameAsks(w, w1) /\ Told(w1) /\ HostTold(w1)
    BY <2>1, Replaced, ReplacedTold DEF Sane
  <2>q. Routed(q) /\ Heard(q)
    BY <2>1 DEF Routed, Heard, Latest, Way, SamePlay, Sane
  <2> HIDE DEF w1
  <2>4. /\ w2 \in Work /\ Told(w2) /\ HostTold(w2) /\ Routed(w2.p) /\ Heard(w2.p)
        /\ SameAsks(w, w2) /\ SameSound(w.p, w2.p) /\ SamePlay(w.p, w2.p)
    <3> DEFINE v == SendMicState(w1)
    <3>1. /\ v \in Work /\ Told(v) /\ HostTold(v) /\ Routed(v.p)
          /\ Latest(v.p) = Latest(q)
          /\ SameAsks(w1, v) /\ SameSound(q, v.p) /\ SamePlay(q, v.p)
      BY <2>3, <2>q, MicSent DEF Forwarded
    <3> HIDE DEF v
    <3>4. Heard(v.p)
      BY <2>q, <3>1 DEF Heard, Way, SamePlay
    <3>2. /\ SameAsks(w, v) /\ SameSound(w.p, v.p) /\ SamePlay(w.p, v.p)
          /\ SameSound(w.p, w1.p) /\ SamePlay(w.p, w1.p)
      BY <2>1, <2>3, <3>1 DEF SameAsks, SameSound, SamePlay
    <3>3. w2 = v \/ w2 = w1
      BY DEF v
    <3> HIDE DEF w2
    <3> QED BY <2>3, <2>q, <3>1, <3>2, <3>3, <3>4
  <2> HIDE DEF w2
  <2>5. /\ q3 \in PortType /\ q3.last = w2.p.last /\ q3.pending = w2.p.pending
        /\ q3.state = w2.p.state /\ SameSound(w2.p, q3) /\ q3.path = w2.p.path
        /\ q3.headset = k.headset /\ q3.audio_out = w2.p.audio_out /\ q3.wave = w2.p.wave
    BY <2>0, <2>4 DEF Work, PortType, SameSound
  <2> HIDE DEF q3
  <2>6. /\ w3 \in Work /\ w3.p = q3 /\ SameAsks(w2, w3) /\ Told(w3) /\ HostTold(w3)
    BY <2>4, <2>5, Replaced, ReplacedTold
  <2>7. r = IF w2.threw THEN w2 ELSE IF plugged /\ routed THEN w5 ELSE w3
    BY <2>2, <2>6
  <2> HIDE DEF w3
  <2>8. CASE w2.threw
    BY <2>4, <2>7, <2>8 DEF Sane, r
  <2>9. CASE ~w2.threw /\ plugged /\ routed
    <3>0. /\ a \in PortType /\ SameSound(q3, a) /\ a.last = q3.last
          /\ a.path = (IF q3.headset THEN "headphones" ELSE "speaker")
          /\ a.headset = q3.headset /\ a.state.route = a.path
      BY <2>5, StreamActive
    <3> HIDE DEF a
    <3>1. /\ a \in PortType /\ SameSound(q3, a) /\ a.last = q3.last /\ Routed(a)
      BY <3>0 DEF Routed, Way
    <3>2. w4 \in Work /\ w4.p = a /\ SameAsks(w3, w4) /\ Told(w4)
      BY <2>5, <2>6, <3>1, Replaced, ReplacedTold
    <3> HIDE DEF w4
    <3>3. Forwarded(w4, w5) /\ (~w5.threw => HostTold(w5) /\ Latest(w5.p) = w5.p.state)
      BY <3>2, Forwards
    <3>4. r = w5
      BY <2>7, <2>9
    <3> HIDE DEF w5
    <3>5. Routed(w5.p) /\ (~w5.threw => Heard(w5.p))
      BY <3>1, <3>2, <3>3 DEF Forwarded, SamePlay, Routed, Heard, Way
    <3>6. SameAsks(w, w5) /\ SameSound(w.p, w5.p)
      BY <2>4, <2>5, <2>6, <3>1, <3>2, <3>3 DEF Forwarded, SameAsks, SameSound
    <3> QED BY <3>3, <3>4, <3>5, <3>6 DEF Forwarded, Sane, r
  <2>10. CASE ~w2.threw /\ ~(plugged /\ routed)
    <3>1. r = w3
      BY <2>7, <2>10
    <3>2. Routed(q3) /\ Heard(q3)
      <4>1. CASE ~routed
        BY <4>1 DEF Routed, Heard
      <4>2. CASE ~plugged
        BY <2>4, <2>5, <4>2 DEF Routed, Heard, Latest, Way
      <4> QED BY <2>10, <4>1, <4>2
    <3>3. SameAsks(w, w3) /\ SameSound(w.p, q3)
      BY <2>4, <2>5, <2>6 DEF SameAsks, SameSound
    <3> QED BY <2>6, <3>1, <3>2, <3>3 DEF Sane, r
  <2> QED BY <2>8, <2>9, <2>10
<1> QED BY <1>1, <1>2

(* A packet of the control channel: a report that was asked for answers    *)
(* its request; the other requests stay.                                   *)
LEMMA Control ==
  ASSUME NEW w \in Work, Sane(w), ~w.threw, NEW k \in Answers
  PROVE  LET r == handle_bt_control(w, k)
         IN  /\ Sane(r) /\ ~r.threw /\ r.asks = w.asks /\ w.replies \subseteq r.replies
             /\ r.p.chunks = w.p.chunks /\ r.p.partial = w.p.partial
             /\ r.p.stream = w.p.stream
             /\ \A id : Contains(w.p.asked, id) /\ id \notin r.replies =>
                   Contains(r.p.asked, id) /\ (k.type = "feature" => k.id # id)
<1> DEFINE r == handle_bt_control(w, k)
<1>1. CASE k.type = "handshake"
  <2>1. r = w
    BY <1>1 DEF handle_bt_control
  <2> QED BY <1>1, <2>1 DEF SameAsks, SameSound
<1>2. CASE k.type # "handshake"
  <2> DEFINE has == Contains(w.p.asked, k.id)
             cs == w.p.cached \union {k.id}
             n == IF has THEN RemoveFirst(w.p.asked, k.id) ELSE w.p.asked
             q == [w.p EXCEPT !.cached = cs, !.asked = n]
             a == IF has THEN w.replies \union {k.id} ELSE w.replies
  <2>0. /\ k.id \in Features /\ w.p \in PortType /\ w.p.asked \in Seq(Features)
        /\ w.replies \subseteq Features
    BY <1>2 DEF Answers, Work, PortType
  <2>1. cs \subseteq Features /\ a \subseteq Features
    BY <2>0 DEF PortType
  <2>2. /\ n \in Seq(Features)
        /\ \A id : id # k.id /\ Contains(w.p.asked, id) => Contains(n, id)
    BY <2>0, RemoveFirstElements
  <2>3. r = [w EXCEPT !.p = q, !.replies = a]
    BY <1>2, <2>0 DEF handle_bt_control, Work, PortType
  <2>4. \A id : Contains(w.p.asked, id) /\ id \notin a => id # k.id
    OBVIOUS
  <2>5. w.replies \subseteq a
    OBVIOUS
  <2> HIDE DEF has, cs, n, a, r
  <2>6. /\ q \in PortType /\ q.asked = n /\ q.last = w.p.last
        /\ q.pending = w.p.pending /\ q.state = w.p.state /\ SamePlay(w.p, q)
        /\ q.chunks = w.p.chunks /\ q.partial = w.p.partial /\ q.stream = w.p.stream
    BY <2>0, <2>1, <2>2 DEF PortType, SamePlay
  <2> HIDE DEF q
  <2>7. /\ r \in Work /\ r.p = q /\ r.ctrl = w.ctrl /\ r.asks = w.asks
        /\ r.replies = a /\ r.threw = w.threw
    BY <2>1, <2>3, <2>6 DEF Work
  <2>8. Told(r) /\ HostTold(r) /\ Routed(q) /\ Heard(q)
    BY <2>6, <2>7 DEF Told, HostTold, Routed, Heard, Latest, Way, SamePlay, Sane
  <2> QED BY <2>2, <2>4, <2>5, <2>6, <2>7, <2>8 DEF Sane, r
<1> QED BY <1>1, <1>2

-----------------------------------------------------------------------------
(* flush_pending_outputs.                                                  *)

(* An audio chunk carries the newest state; it is sent when no other state *)
(* is pending.                                                             *)
LEMMA FlushChunk ==
  ASSUME NEW w \in Work, Sane(w), NEW S \in SUBSET Nat, SoundOf(w.p, S), Bounded(w.p),
         w.p.pending = None
  PROVE  LET r == flush_pending_audio_chunk(w)
         IN  /\ Sane(r) /\ SameAsks(w, r) /\ SoundOf(r.p, S) /\ Bounded(r.p)
             /\ r.p.stream = w.p.stream /\ r.p.asked = w.p.asked
<1> DEFINE r == flush_pending_audio_chunk(w)
           s == w.p.state
           t == try_send_output_report(w, s)
           Z == S \union {0}
           c == Tail(Newest(w.p.chunks, FreshChunks))
<1>1. CASE w.threw \/ w.p.chunks = << >> \/ w.p.next = "future"
  <2>1. r = w
    BY <1>1 DEF flush_pending_audio_chunk
  <2> QED BY <2>1 DEF SameAsks
<1>2. CASE ~(w.threw \/ w.p.chunks = << >> \/ w.p.next = "future")
  <2>1. r = IF t.threw THEN t
            ELSE IF Sendable(w)
            THEN [t EXCEPT !.p.chunks = c, !.p.last = s, !.p.next = "future",
                           !.p.pending = IF @ = s THEN None ELSE @]
            ELSE [t EXCEPT !.p.chunks = c, !.p.next = "future"]
    BY <1>2 DEF flush_pending_audio_chunk
  <2>2. w.p \in PortType /\ s \in DsStates /\ w.ctrl \in DsStates
    BY DEF Work, PortType
  <2>4. /\ t \in Work /\ t.p = w.p /\ SameAsks(w, t)
        /\ t.ctrl = (IF Sendable(w) THEN s ELSE w.ctrl)
        /\ Sendable(w) => ~t.threw
    BY <2>2, TrySend
  <2> HIDE DEF t, r
  <2>5. c \in Seq(Z) /\ c \in Seq(Nat) /\ Len(c) <= MaxChunks
    <3> DEFINE b == w.p.chunks
               n == Newest(b, FreshChunks)
    <3>1. b \in Seq(Z) /\ b # << >> /\ Z \subseteq Nat /\ Len(b) <= MaxChunks
      BY <1>2 DEF SoundOf, Bounded
    <3>2. FreshChunks \in Nat /\ FreshChunks # 0 /\ MaxChunks \in Nat
      BY BridgeAssumption
    <3> HIDE DEF b, Z
    <3>3. Len(b) \in Nat /\ Len(b) # 0
      BY <3>1, EmptySeq
    <3>4. n \in Seq(Z) /\ Len(n) = (IF Len(b) > FreshChunks THEN FreshChunks ELSE Len(b))
      BY <3>1, <3>2, NewestPart
    <3> HIDE DEF n
    <3>5. n # << >> /\ Len(n) <= Len(b) /\ Len(n) \in Nat
      BY <3>2, <3>3, <3>4
    <3>6. Tail(n) \in Seq(Z) /\ Len(Tail(n)) = Len(n) - 1
      BY <3>4, <3>5, HeadTailProperties
    <3>7. c = Tail(n)
      BY DEF n, b
    <3>8. c \in Seq(Nat)
      BY <3>1, <3>6, <3>7, SeqMonotonic
    <3>9. Len(c) <= MaxChunks
      <4> HIDE DEF c
      <4>1. Len(c) = Len(n) - 1
        BY <3>6, <3>7
      <4> QED BY <4>1, <3>1, <3>2, <3>3, <3>5
    <3> QED BY <3>6, <3>7, <3>8, <3>9 DEF Z
  <2> HIDE DEF c
  <2>6. CASE t.threw
    <3>1. r = t
      BY <2>1, <2>6
    <3>2. Told(t)
      BY <2>4, <2>6 DEF Told, Sane
    <3> QED BY <2>4, <2>6, <3>1, <3>2 DEF Sane, SoundOf, Bounded, r
  <2>7. CASE ~t.threw /\ Sendable(w)
    <3> DEFINE q == [w.p EXCEPT !.chunks = c, !.last = s, !.next = "future",
                                !.pending = IF @ = s THEN None ELSE @]
    <3>1. /\ q \in PortType /\ q.chunks = c /\ q.last = s /\ q.state = s
          /\ q.partial = w.p.partial /\ q.stream = w.p.stream /\ q.asked = w.p.asked
          /\ SamePlay(w.p, q) /\ q.pending = None
      BY <2>2, <2>5 DEF PortType, SamePlay
    <3>2. r = [t EXCEPT !.p = q]
      BY <2>1, <2>4, <2>7
    <3> HIDE DEF q
    <3>3. /\ r \in Work /\ r.p = q /\ SameAsks(w, r)
          /\ r.ctrl = s
      BY <2>4, <2>7, <3>1, <3>2 DEF Work, SameAsks
    <3>4. Told(r) /\ HostTold(r) /\ Routed(q) /\ Heard(q)
      BY <3>1, <3>3 DEF Told, HostTold, Routed, Heard, Latest, Way, SamePlay, Sane
    <3> QED BY <2>5, <3>1, <3>3, <3>4 DEF Sane, SoundOf, Bounded, r
  <2>8. CASE ~t.threw /\ ~Sendable(w)
    <3> DEFINE q == [w.p EXCEPT !.chunks = c, !.next = "future"]
    <3>1. /\ q \in PortType /\ q.chunks = c /\ q.last = w.p.last /\ q.state = s
          /\ q.partial = w.p.partial /\ q.stream = w.p.stream /\ q.asked = w.p.asked
          /\ SamePlay(w.p, q) /\ q.pending = w.p.pending
      BY <2>2, <2>5 DEF PortType, SamePlay
    <3>2. r = [t EXCEPT !.p = q]
      BY <2>1, <2>4, <2>8
    <3> HIDE DEF q
    <3>3. r \in Work /\ r.p = q /\ SameAsks(w, r) /\ r.ctrl = w.ctrl
      BY <2>4, <2>8, <3>1, <3>2 DEF Work, SameAsks
    <3>4. Told(r) /\ HostTold(r) /\ Routed(q) /\ Heard(q)
      BY <1>2, <3>1, <3>3 DEF Told, HostTold, Routed, Heard, Latest, Way, SamePlay, Sane
    <3> QED BY <2>5, <3>1, <3>3, <3>4 DEF Sane, SoundOf, Bounded, r
  <2> QED BY <2>6, <2>7, <2>8
<1> QED BY <1>1, <1>2

(* flush_pending_outputs never lets a chunk overtake a pending state.      *)
LEMMA FlushOutputs ==
  ASSUME NEW w \in Work, Sane(w), NEW S \in SUBSET Nat, SoundOf(w.p, S), Bounded(w.p)
  PROVE  LET r == flush_pending_outputs(w)
         IN  /\ Sane(r) /\ SameAsks(w, r) /\ SoundOf(r.p, S) /\ Bounded(r.p)
             /\ r.p.stream = w.p.stream /\ r.p.asked = w.p.asked
<1> DEFINE f == flush_pending_bt_state_report(w)
           q == enqueue_speaker_waveout_chunk(f.p)
           u == [f EXCEPT !.p = q]
           v == flush_pending_audio_chunk(u)
           r == flush_pending_outputs(w)
<1>1. r = IF ~on \/ f.threw \/ f.p.pending # None THEN f ELSE v
  BY DEF flush_pending_outputs
<1>2. /\ Forwarded(w, f) /\ (HostTold(w) => HostTold(f)) /\ (w.threw => f.threw)
      /\ Latest(f.p) = Latest(w.p)
  BY FlushState DEF Sane
<1> HIDE DEF f, r
<1>3. Sane(f)
  BY <1>2 DEF Forwarded, Sane, Routed, Heard, Way, SamePlay
<1>4. SoundOf(f.p, S) /\ Bounded(f.p)
  BY <1>2 DEF Forwarded, SameSound, SoundOf, Bounded
<1>5. CASE ~on \/ f.threw \/ f.p.pending # None
  <2>1. r = f
    BY <1>1, <1>5
  <2> QED BY <1>2, <1>3, <1>4, <2>1 DEF Forwarded, SameSound, r
<1>6. CASE ~(~on \/ f.threw \/ f.p.pending # None)
  <2>1. r = v
    BY <1>1, <1>6
  <2>2. /\ q \in PortType /\ SoundOf(q, S) /\ Bounded(q) /\ q.last = f.p.last
        /\ q.pending = f.p.pending /\ q.state = f.p.state /\ SamePlay(f.p, q)
        /\ q.stream = f.p.stream /\ q.asked = f.p.asked
    <3>1. CASE ~(f.p.wave /\ f.p.chunks = << >>)
      <4>1. q = f.p
        BY <3>1 DEF enqueue_speaker_waveout_chunk
      <4> QED BY <1>3, <1>4, <4>1 DEF Sane, Work, SamePlay
    <3>2. CASE f.p.wave /\ f.p.chunks = << >>
      <4> DEFINE one == <<0>>
      <4>1. q = [f.p EXCEPT !.chunks = one]
        BY <3>2 DEF enqueue_speaker_waveout_chunk
      <4>2. one \in Seq(Nat) /\ one \in Seq(S \union {0}) /\ Len(one) = 1
        OBVIOUS
      <4>3. 1 <= MaxChunks
        BY BridgeAssumption
      <4> HIDE DEF one, q
      <4>4. f.p \in PortType
        BY <1>3 DEF Sane, Work
      <4>5. /\ q \in PortType /\ q.chunks = one /\ q.partial = f.p.partial
            /\ q.last = f.p.last /\ q.pending = f.p.pending /\ q.state = f.p.state
            /\ SamePlay(f.p, q) /\ q.stream = f.p.stream /\ q.asked = f.p.asked
        BY <4>1, <4>2, <4>4 DEF PortType, SamePlay
      <4> QED BY <1>4, <4>2, <4>3, <4>5 DEF SoundOf, Bounded
    <3> QED BY <3>1, <3>2
  <2> HIDE DEF q
  <2>3. u \in Work /\ u.p = q /\ SameAsks(f, u) /\ Told(u) /\ HostTold(u)
    BY <1>3, <1>6, <2>2, Replaced, ReplacedTold DEF Sane
  <2>4. Sane(u)
    BY <1>3, <2>2, <2>3 DEF Sane, Routed, Heard, Latest, Way, SamePlay, Work
  <2>5. u.p.pending = None
    BY <1>6, <2>2, <2>3
  <2> HIDE DEF u
  <2>6. /\ Sane(v) /\ SameAsks(u, v) /\ SoundOf(v.p, S) /\ Bounded(v.p)
        /\ v.p.stream = u.p.stream /\ v.p.asked = u.p.asked
    BY <2>2, <2>3, <2>4, <2>5, FlushChunk
  <2> HIDE DEF v
  <2> QED BY <1>2, <2>1, <2>2, <2>3, <2>6 DEF Forwarded, SameAsks, SameSound, r
<1> QED BY <1>5, <1>6

-----------------------------------------------------------------------------
(* The host's stream, as the frames on their way tell of it.               *)

(* An interval of the host's stream: its number, and whether it is open.   *)
Epochs == [s: Nat, open: BOOLEAN]

(* The host's stream before and after it sent frame f.                     *)
Follows(a, f, b) ==
  CASE f.type = "interface_out" ->
         /\ b = [s |-> f.stream, open |-> f.alt = 1]
         /\ f.alt = 1 => ~a.open \/ a.s = f.stream
    [] f.type = "audio_out" -> b = a /\ a.open /\ f.stream = a.s
    [] OTHER -> b = a

(* The daemon's knowledge of the stream a: a port that knows of no open    *)
(* stream holds no sound but the test sine.                                *)
Knows(p, a) ==
  p.stream = a.s /\ SoundOf(p, {a.s}) /\ (a.open \/ SoundOf(p, {}))

(* The frames F on their way lead from the stream the port p knows of to   *)
(* the one the host h has: e[i] is the stream as of the i-th frame.        *)
Story(e, F, p, h) ==
  /\ Knows(p, e[0])
  /\ \A i \in 1 .. Len(F) : Follows(e[i - 1], F[i], e[i])
  /\ e[Len(F)].open = (h.alt = 1)
  /\ h.alt = 1 => e[Len(F)].s = h.stream

TellsOf(F, p, h) == \E e \in [0 .. Len(F) -> Epochs] : Story(e, F, p, h)

(* The host sends a frame.                                                 *)
LEMMA StoryAppend ==
  ASSUME NEW F \in Seq(Frames), NEW f \in Frames, NEW p, NEW h, NEW g,
         NEW e \in [0 .. Len(F) -> Epochs], Story(e, F, p, h),
         NEW b \in Epochs, Follows(e[Len(F)], f, b),
         b.open = (g.alt = 1), g.alt = 1 => b.s = g.stream
  PROVE  TellsOf(Append(F, f), p, g)
<1> DEFINE n == Len(F)
           G == Append(F, f)
           d == [i \in 0 .. n + 1 |-> IF i = n + 1 THEN b ELSE e[i]]
<1>1. /\ n \in Nat /\ Len(G) = n + 1 /\ G[n + 1] = f
      /\ \A i \in 1 .. n : G[i] = F[i]
  BY AppendProperties, LenProperties
<1> HIDE DEF n, G
<1>2. e \in [0 .. n -> Epochs] /\ Follows(e[n], f, b)
  BY DEF n
<1>3. d \in [0 .. n + 1 -> Epochs]
  BY <1>1, <1>2
<1>4. d[n + 1] = b /\ \A i \in 0 .. n : d[i] = e[i]
  BY <1>1
<1> HIDE DEF d
<1>5. /\ Knows(p, e[0]) /\ \A i \in 1 .. n : Follows(e[i - 1], F[i], e[i])
  BY DEF Story, n
<1>6. ASSUME NEW i \in 1 .. n + 1 PROVE Follows(d[i - 1], G[i], d[i])
  <2>1. CASE i = n + 1
    <3>1. i - 1 = n /\ n \in 0 .. n
      BY <1>1, <2>1
    <3> QED BY <1>1, <1>2, <1>4, <2>1, <3>1
  <2>2. CASE i # n + 1
    <3>1. i \in 1 .. n /\ i - 1 \in 0 .. n /\ i \in 0 .. n
      BY <1>1, <2>2
    <3>2. d[i - 1] = e[i - 1] /\ d[i] = e[i] /\ G[i] = F[i]
      BY <1>1, <1>4, <3>1
    <3> QED BY <1>5, <3>1, <3>2
  <2> QED BY <2>1, <2>2
<1>7. d[0] = e[0]
  BY <1>1, <1>4
<1>8. Story(d, G, p, g)
  BY <1>1, <1>4, <1>5, <1>6, <1>7 DEF Story
<1>9. d \in [0 .. Len(G) -> Epochs]
  BY <1>1, <1>3
<1>10. TellsOf(G, p, g)
  BY <1>8, <1>9 DEF TellsOf
<1> QED BY <1>10 DEF G

(* The daemon takes a frame.                                               *)
LEMMA StoryTail ==
  ASSUME NEW F \in Seq(Frames), F # << >>, NEW p, NEW q, NEW h, NEW g,
         NEW e \in [0 .. Len(F) -> Epochs], Story(e, F, p, h),
         Knows(q, e[1]), g.alt = h.alt, g.stream = h.stream
  PROVE  TellsOf(Tail(F), q, g)
<1> DEFINE n == Len(F) - 1
           G == Tail(F)
           d == [i \in 0 .. n |-> e[i + 1]]
<1>1. n \in Nat /\ Len(F) = n + 1
  BY EmptySeq
<1>2. Len(G) = n /\ \A i \in 1 .. n : G[i] = F[i + 1]
  BY HeadTailProperties
<1>3. /\ \A i \in 1 .. n + 1 : Follows(e[i - 1], F[i], e[i])
      /\ e[n + 1].open = (h.alt = 1)
      /\ h.alt = 1 => e[n + 1].s = h.stream
      /\ e \in [0 .. n + 1 -> Epochs]
  BY <1>1 DEF Story
<1> HIDE DEF n, G
<1>4. d \in [0 .. n -> Epochs]
  BY <1>1, <1>3
<1>5. d[0] = e[1] /\ \A i \in 0 .. n : d[i] = e[i + 1]
  BY <1>1
<1> HIDE DEF d
<1>6. ASSUME NEW i \in 1 .. n PROVE Follows(d[i - 1], G[i], d[i])
  <2>1. i + 1 \in 1 .. n + 1 /\ i - 1 \in 0 .. n /\ i \in 0 .. n /\ (i + 1) - 1 = i /\ (i - 1) + 1 = i
    BY <1>1
  <2>2. d[i - 1] = e[i] /\ d[i] = e[i + 1] /\ G[i] = F[i + 1]
    BY <1>2, <1>5, <2>1
  <2>3. Follows(e[(i + 1) - 1], F[i + 1], e[i + 1])
    BY <1>3, <2>1
  <2> QED BY <2>1, <2>2, <2>3
<1>7. d[n] = e[n + 1]
  BY <1>1, <1>5
<1>8. Story(d, G, q, g)
  BY <1>2, <1>3, <1>5, <1>6, <1>7 DEF Story
<1>9. TellsOf(G, q, g)
  BY <1>2, <1>4, <1>8 DEF TellsOf
<1> QED BY <1>9 DEF G

(* Nothing that concerns the story changes.                                *)
LEMMA StoryKept ==
  ASSUME NEW F \in Seq(Frames), NEW p, NEW q, NEW h, NEW g, TellsOf(F, p, h),
         q.stream = p.stream,
         \A S \in SUBSET Nat : SoundOf(p, S) => SoundOf(q, S),
         g.alt = h.alt, g.stream = h.stream
  PROVE  TellsOf(F, q, g)
<1>1. PICK e \in [0 .. Len(F) -> Epochs] : Story(e, F, p, h)
  BY DEF TellsOf
<1>2. e[0].s \in Nat
  <2>1. 0 \in 0 .. Len(F)
    BY LenProperties
  <2> QED BY <2>1 DEF Epochs
<1>3. Knows(q, e[0])
  BY <1>1, <1>2 DEF Story, Knows
<1> QED BY <1>1, <1>3 DEF Story, TellsOf

(* What handle_frame does to the story and to the requests.                *)
Ask(id) == [type |-> "feature_get", id |-> id]
Answer(id) == [type |-> "feature", id |-> id]

Memory(w, r, f) ==
  /\ w.replies \subseteq r.replies
  /\ \A id \in Features :
       /\ Contains(w.p.asked, id) => Contains(r.p.asked, id)
       /\ Contains(w.asks, id) => Contains(r.asks, id)
       /\ f = Ask(id) =>
            id \in r.replies \/ (Contains(r.p.asked, id) /\ Contains(r.asks, id))

(* A request at the end of a list is on it.                                *)
LEMMA AppendContains ==
  ASSUME NEW S, NEW q \in Seq(S), NEW a \in S
  PROVE  /\ Append(q, a) \in Seq(S) /\ Contains(Append(q, a), a)
         /\ \A b : Contains(q, b) => Contains(Append(q, a), b)
<1>1. /\ Append(q, a) \in Seq(S) /\ Len(Append(q, a)) = Len(q) + 1 /\ Len(q) \in Nat
      /\ \A i \in 1 .. Len(q) : Append(q, a)[i] = q[i]
      /\ Append(q, a)[Len(q) + 1] = a
  BY AppendProperties, LenProperties
<1>2. Len(q) + 1 \in 1 .. Len(Append(q, a))
  BY <1>1
<1>3. \A i \in 1 .. Len(q) : i \in 1 .. Len(Append(q, a))
  BY <1>1
<1> QED BY <1>1, <1>2, <1>3 DEF Contains

(* Taking the head off leaves the rest.                                    *)
LEMMA TailContains ==
  ASSUME NEW S, NEW q \in Seq(S), q # << >>
  PROVE  /\ Tail(q) \in Seq(S) /\ Head(q) \in S
         /\ \A b : Contains(q, b) => b = Head(q) \/ Contains(Tail(q), b)
<1>1. /\ Tail(q) \in Seq(S) /\ Head(q) \in S /\ Len(Tail(q)) = Len(q) - 1
      /\ \A i \in 1 .. Len(Tail(q)) : Tail(q)[i] = q[i + 1]
  BY HeadTailProperties
<1>2. Head(q) = q[1] /\ Len(q) \in Nat
  OBVIOUS
<1>3. ASSUME NEW b, NEW i \in 1 .. Len(q), q[i] = b
      PROVE  b = Head(q) \/ Contains(Tail(q), b)
  <2>1. CASE i = 1
    BY <1>2, <1>3, <2>1
  <2>2. CASE i # 1
    <3>1. i - 1 \in 1 .. Len(Tail(q)) /\ (i - 1) + 1 = i
      BY <1>1, <1>2, <2>2
    <3>2. Tail(q)[i - 1] = b
      BY <1>1, <1>3, <3>1
    <3> QED BY <3>1, <3>2 DEF Contains
  <2> QED BY <2>1, <2>2
<1> QED BY <1>1, <1>3 DEF Contains

(* One frame of the driver: what the port holds is of the stream as of     *)
(* that frame, and a request is answered or remembered.                    *)
LEMMA FrameHandled ==
  ASSUME NEW w \in Work, on, Sane(w), ~w.threw, Bounded(w.p), NEW f \in Frames
  PROVE  LET r == handle_frame(w, f)
         IN  /\ Sane(r) /\ Bounded(r.p)
             /\ r.threw \/ Memory(w, r, f)
             /\ \A a, b \in Epochs : Knows(w.p, a) /\ Follows(a, f, b) => Knows(r.p, b)
<1> DEFINE r == handle_frame(w, f)
           Same(q) == /\ q.stream = w.p.stream /\ q.chunks = w.p.chunks
                      /\ q.partial = w.p.partial
<1>0. w.p \in PortType /\ w.asks \in Seq(Features) /\ w.p.asked \in Seq(Features)
  BY DEF Work, PortType
<1>1. CASE f \in [type: {"interface_out"}, alt: {0, 1}, stream: Nat]
  <2>1. r = AudioOutInterface(w, f)
    BY <1>1 DEF handle_frame
  <2> HIDE DEF r
  <2>2. /\ Sane(r) /\ SameAsks(w, r)
        /\ r.p.asked = w.p.asked /\ r.p.stream = f.stream
        /\ f.alt = 0 => r.p.chunks = << >> /\ r.p.partial = 0
        /\ f.alt # 0 => r.p.chunks = w.p.chunks /\ r.p.partial = w.p.partial
    BY <1>1, <2>1, InterfaceOut
  <2>3. Bounded(r.p)
    <3>1. Len(<< >>) = 0 /\ 0 <= MaxChunks
      BY BridgeAssumption
    <3> QED BY <1>1, <2>2, <3>1 DEF Bounded
  <2>4. Memory(w, r, f)
    BY <1>1, <2>2 DEF Memory, SameAsks, Ask
  <2>5. ASSUME NEW a \in Epochs, NEW b \in Epochs, Knows(w.p, a), Follows(a, f, b)
        PROVE  Knows(r.p, b)
    <3>1. /\ b = [s |-> f.stream, open |-> f.alt = 1]
          /\ f.alt = 1 => ~a.open \/ a.s = f.stream
      BY <1>1, <2>5 DEF Follows
    <3>2. b.s = f.stream /\ b.open = (f.alt = 1) /\ f.alt \in {0, 1}
      BY <1>1, <3>1
    <3>3. CASE f.alt = 0
      <4>1. << >> \in Seq({b.s} \union {0}) /\ << >> \in Seq({} \union {0})
        OBVIOUS
      <4> QED BY <2>2, <3>2, <3>3, <4>1 DEF Knows, SoundOf
    <3>4. CASE f.alt = 1
      <4>1. SoundOf(r.p, {b.s})
        <5>1. CASE ~a.open
          <6>1. w.p.chunks \in Seq({} \union {0}) /\ w.p.partial = 0
            BY <2>5, <5>1 DEF Knows, SoundOf
          <6>2. w.p.chunks \in Seq({b.s} \union {0})
            BY <6>1, SeqMonotonic
          <6> QED BY <2>2, <3>4, <6>1, <6>2 DEF SoundOf
        <5>2. CASE a.s = f.stream
          BY <2>2, <2>5, <3>2, <3>4, <5>2 DEF Knows, SoundOf
        <5> QED BY <3>1, <3>4, <5>1, <5>2
      <4> QED BY <2>2, <3>2, <3>4, <4>1 DEF Knows
    <3> QED BY <3>2, <3>3, <3>4
  <2> QED BY <2>2, <2>3, <2>4, <2>5 DEF r
<1>same. ASSUME Same(r.p), f.type \notin {"interface_out", "audio_out"}
         PROVE  /\ Bounded(r.p)
                /\ \A a, b \in Epochs : Knows(w.p, a) /\ Follows(a, f, b) => Knows(r.p, b)
  <2> HIDE DEF r
  <2>1. \A a, b : Follows(a, f, b) => b = a
    BY <1>same DEF Follows
  <2> QED BY <1>same, <2>1 DEF Bounded, Knows, SoundOf
<1>2. CASE f \in [type: {"interface_in"}, alt: {0, 1}]
  <2>1. r = AudioInInterface(w, f)
    BY <1>2 DEF handle_frame
  <2>2. Sane(r) /\ SameAsks(w, r) /\ SameSound(w.p, r.p)
    <3> HIDE DEF r
    <3> QED BY <1>2, <2>1, InterfaceIn
  <2>3. Memory(w, r, f)
    <3> HIDE DEF r
    <3> QED BY <1>2, <2>2 DEF Memory, SameAsks, SameSound, Ask
  <2>4. Same(r.p) /\ f.type \notin {"interface_out", "audio_out"}
    <3> HIDE DEF r
    <3> QED BY <1>2, <2>2 DEF SameSound
  <2> QED BY <1>same, <2>2, <2>3, <2>4
<1>3. CASE f \in HostReports
  <2>1. r = HidOut(w, f) /\ f.type = "hid_out"
    BY <1>3, BridgeAssumption DEF handle_frame, AllReports
  <2>2. Sane(r) /\ SameAsks(w, r) /\ SameSound(w.p, r.p)
    <3> HIDE DEF r
    <3> QED BY <1>3, <2>1, Hid
  <2>3. Memory(w, r, f)
    <3> HIDE DEF r
    <3> QED BY <2>1, <2>2 DEF Memory, SameAsks, SameSound, Ask
  <2>4. Same(r.p) /\ f.type \notin {"interface_out", "audio_out"}
    <3> HIDE DEF r
    <3> QED BY <2>1, <2>2 DEF SameSound
  <2> QED BY <1>same, <2>2, <2>3, <2>4
<1>4. CASE f \in [type: {"feature_get"}, id: Features]
  <2>1. r = FeatureGet(w, f)
    BY <1>4 DEF handle_frame
  <2> HIDE DEF r
  <2>2. /\ Sane(r) /\ Same(r.p)
        /\ \/ /\ r.replies = w.replies \union {f.id}
              /\ r.asks = w.asks /\ r.p.asked = w.p.asked
           \/ r.threw
           \/ /\ r.p.asked = Append(w.p.asked, f.id)
              /\ r.asks = Append(w.asks, f.id) /\ r.replies = w.replies
    BY <1>4, <2>1, Get
  <2>3. \A id : f = Ask(id) => f.id = id
    BY DEF Ask
  <2>4. r.threw \/ Memory(w, r, f)
    <3>1. CASE /\ r.replies = w.replies \union {f.id}
               /\ r.asks = w.asks /\ r.p.asked = w.p.asked
      BY <2>3, <3>1 DEF Memory
    <3>2. CASE /\ r.p.asked = Append(w.p.asked, f.id)
               /\ r.asks = Append(w.asks, f.id) /\ r.replies = w.replies
      BY <1>0, <1>4, <2>3, <3>2, AppendContains DEF Memory
    <3> QED BY <2>2, <3>1, <3>2
  <2>5. f.type \notin {"interface_out", "audio_out"}
    BY <1>4
  <2> QED BY <1>same, <2>2, <2>4, <2>5 DEF r
<1>5. CASE f \in [type: {"feature_set"}, command: TestCommands]
  <2>1. r = FeatureSet(w, f)
    BY <1>5 DEF handle_frame
  <2> HIDE DEF r
  <2>2. /\ Sane(r) /\ r.asks = w.asks /\ w.replies \subseteq r.replies
        /\ r.p.asked = w.p.asked
        /\ r.p.chunks \in {w.p.chunks, << >>} /\ r.p.partial = w.p.partial
        /\ r.p.stream = w.p.stream
    BY <1>5, <2>1, Set
  <2>3. Memory(w, r, f)
    BY <1>5, <2>2 DEF Memory, Ask
  <2>4. Bounded(r.p)
    <3>1. Len(<< >>) = 0 /\ 0 <= MaxChunks
      BY BridgeAssumption
    <3> QED BY <2>2, <3>1 DEF Bounded
  <2>5. \A S : SoundOf(w.p, S) => SoundOf(r.p, S)
    <3>1. \A S : << >> \in Seq(S \union {0})
      BY EmptySeq
    <3> QED BY <2>2, <3>1 DEF SoundOf
  <2>6. \A a, b : Follows(a, f, b) => b = a
    BY <1>5 DEF Follows
  <2> QED BY <2>2, <2>3, <2>4, <2>5, <2>6 DEF Knows, r
<1>6. CASE f \in [type: {"audio_out"}, stream: Nat, size: Nat]
  <2>1. r = AudioOut(w, f)
    BY <1>6 DEF handle_frame
  <2> HIDE DEF r
  <2>2. ASSUME NEW S \in SUBSET Nat, SoundOf(w.p, S), f.stream \in S
        PROVE  /\ Sane(r) /\ SameAsks(w, r) /\ SoundOf(r.p, S) /\ Bounded(r.p)
               /\ r.p.stream = w.p.stream /\ r.p.asked = w.p.asked
    <3>1. f \in [type: {"audio_out"}, stream: S, size: Nat]
      BY <1>6, <2>2
    <3> QED BY <2>1, <2>2, <3>1, Audio
  <2>3. Nat \in SUBSET Nat /\ SoundOf(w.p, Nat) /\ f.stream \in Nat
    <3>1. Nat \union {0} = Nat
      OBVIOUS
    <3> QED BY <1>0, <1>6, <3>1 DEF SoundOf, PortType
  <2>4. /\ Sane(r) /\ SameAsks(w, r) /\ Bounded(r.p)
        /\ r.p.stream = w.p.stream /\ r.p.asked = w.p.asked
    BY <2>2, <2>3
  <2>5. Memory(w, r, f)
    BY <1>6, <2>4 DEF Memory, SameAsks, Ask
  <2>6. ASSUME NEW a \in Epochs, NEW b \in Epochs, Knows(w.p, a), Follows(a, f, b)
        PROVE  Knows(r.p, b)
    <3>1. b = a /\ a.open /\ f.stream = a.s /\ a.s \in Nat
      BY <1>6, <2>6 DEF Follows, Epochs
    <3>2. SoundOf(r.p, {a.s})
      BY <2>2, <2>6, <3>1 DEF Knows
    <3> QED BY <2>4, <2>6, <3>1, <3>2 DEF Knows
  <2> QED BY <2>4, <2>5, <2>6 DEF r
<1> QED BY <1>1, <1>2, <1>3, <1>4, <1>5, <1>6 DEF Frames

-----------------------------------------------------------------------------
(* The inductive invariant.                                                *)

(* Where a request of the host can be: in a frame on its way (F), or       *)
(* remembered (asked) and with the controller (sent) or answered (B).      *)
Remembered(id, F, asked, sent, B) ==
  \/ Contains(F, Ask(id))
  \/ Contains(asked, id) /\ (Contains(sent, id) \/ Contains(B, Answer(id)))

RequestInv ==
  \A id \in host.want \ refused : Remembered(id, frames, port.asked, asks, btctl)

SessionInv ==
  /\ Told(Handler) /\ HostTold(Handler) /\ Routed(port) /\ Heard(port)
  /\ host.untold \/ TellsOf(frames, port, host)

(* What is left when the backend is dropped.                               *)
Dropped ==
  /\ ctrl = InitialDsState /\ ~lost /\ port.pending = None /\ frames = << >>
  /\ host.alt = 0 /\ host.want = {}

CoreInv == RequestInv /\ (on => SessionInv) /\ (~on => Dropped)

BridgeInv == TypeOK /\ CoreInv

(* The handler starts from what the variables hold.                        *)
LEMMA HandlerIs ==
  ASSUME LinkTypes
  PROVE  /\ Handler \in Work /\ Handler.p = port /\ Handler.tx = tx
         /\ Handler.ctrl = ctrl /\ Handler.asks = asks /\ Handler.replies = {}
         /\ ~Handler.threw /\ Bounded(Handler.p)
BY DEF LinkTypes, Handler, Work, Bounded

(* Initially there is no backend.                                          *)
LEMMA StateZero ==
  InitialDsState \in DsStates /\ InitialDsState.host = Host0
BY BridgeAssumption DEF InitialDsState, DsStates, Routes, Mics

(* A port after reset_virtual_port.                                        *)
LEMMA FreshType ==
  /\ FreshPort \in PortType /\ FreshPort.pending = None /\ FreshPort.last = None
  /\ FreshPort.state = InitialDsState /\ FreshPort.chunks = << >>
  /\ FreshPort.partial = 0 /\ FreshPort.stream = 0 /\ FreshPort.asked = << >>
  /\ ~FreshPort.audio_out /\ ~FreshPort.wave
<1> DEFINE none == << >>
           d == InitialDsState
           fp == [state |-> d, path |-> "headphones", last |-> None, pending |-> None,
                  chunks |-> none, partial |-> 0, next |-> "unset",
                  audio_out |-> FALSE, audio_in |-> FALSE,
                  muted |-> FALSE, mute_down |-> FALSE,
                  headset |-> FALSE, headset_mic |-> FALSE,
                  wave_selected |-> TRUE, wave |-> FALSE,
                  cached |-> {}, asked |-> none, stream |-> 0]
<1>1. none \in Seq(Nat) /\ none \in Seq(Features) /\ d \in DsStates
  BY StateZero
<1>2. FreshPort = fp
  BY DEF FreshPort
<1>3. "headphones" \in Routes
  BY DEF Routes
<1> HIDE DEF none, d
<1>4. /\ fp \in PortType /\ fp.pending = None /\ fp.last = None
      /\ fp.state = d /\ fp.chunks = none /\ fp.partial = 0 /\ fp.stream = 0
      /\ fp.asked = none /\ ~fp.audio_out /\ ~fp.wave
  BY <1>1, <1>3 DEF PortType
<1> HIDE DEF fp
<1> QED BY <1>2, <1>4 DEF none, d

(* Dropping the backend ends the session.                                  *)
LEMMA DropStep ==
  ASSUME LinkTypes, NEW w \in Work, drop_bt_backend(w)
  PROVE  LinkTypes' /\ QueueTypes' /\ CoreInv'
<1> DEFINE none == << >>
           p == [w.p EXCEPT !.pending = None]
           q == [p EXCEPT !.chunks = none, !.next = "unset", !.audio_out = FALSE,
                          !.audio_in = FALSE, !.muted = FALSE, !.mute_down = FALSE,
                          !.wave = FALSE]
           g == [NoHost EXCEPT !.stream = host.stream]
<1>1. none \in Seq(Nat) /\ Len(none) = 0 /\ none \in Seq(Features)
  OBVIOUS
<1>2. port' = q
  BY DEF drop_bt_backend, disconnect_virtual_port
<1>3. p \in PortType /\ p.pending = None
  BY DEF Work, PortType
<1> HIDE DEF none, p
<1>4. q \in PortType /\ q.chunks = none /\ q.pending = None
  BY <1>1, <1>3, ZenonT(30) DEF PortType
<1> HIDE DEF q
<1>5. g \in HostType /\ g.alt = 0 /\ g.want = {}
  BY DEF NoHost, LinkTypes, HostType
<1>6. host' = g /\ ~on' /\ on' \in BOOLEAN /\ ~lost' /\ lost' \in BOOLEAN
      /\ tx' = Room /\ ctrl' = InitialDsState /\ frames' = none /\ btin' = << >>
      /\ btctl' = << >> /\ asks' = none /\ refused' = {}
  BY DEF drop_bt_backend, none
<1> HIDE DEF g
<1>7. Room \in 0 .. Room /\ MaxChunks >= 0
  BY BridgeAssumption
<1>8. LinkTypes'
  BY <1>1, <1>2, <1>4, <1>5, <1>6, <1>7, StateZero DEF LinkTypes
<1>9. QueueTypes'
  BY <1>6 DEF QueueTypes, none
<1>10. RequestInv' /\ Dropped'
  BY <1>2, <1>4, <1>5, <1>6 DEF RequestInv, Dropped, none
<1> QED BY <1>6, <1>8, <1>9, <1>10 DEF CoreInv

(* A handler that returns keeps the session.                               *)
LEMMA KeepStep ==
  ASSUME LinkTypes, NEW w, Sane(w), ~w.threw, Bounded(w.p), Keep(w), on
  PROVE  /\ LinkTypes' /\ on' /\ port' = w.p /\ asks' = w.asks
         /\ Told(Handler)' /\ HostTold(Handler)' /\ Routed(port)' /\ Heard(port)'
         /\ host'.alt = host.alt /\ host'.stream = host.stream /\ host'.untold = host.untold
         /\ host'.want = host.want \ w.replies /\ refused' = refused
<1>1. /\ w.p \in PortType /\ w.tx \in 0 .. Room /\ w.ctrl \in DsStates
      /\ w.asks \in Seq(Features) /\ w \in Work
  BY DEF Sane, Work
<1>2. /\ host' = [host EXCEPT !.want = host.want \ w.replies]
      /\ port' = w.p /\ tx' = w.tx /\ ctrl' = w.ctrl /\ asks' = w.asks
      /\ on' = on /\ lost' = lost /\ refused' = refused
  BY DEF Keep
<1>3. /\ host' \in HostType
      /\ host'.alt = host.alt /\ host'.stream = host.stream /\ host'.untold = host.untold
      /\ host'.want = host.want \ w.replies
  BY <1>2 DEF LinkTypes, HostType
<1>4. LinkTypes'
  BY <1>1, <1>2, <1>3 DEF LinkTypes, Bounded
<1>5. Told(Handler)' /\ HostTold(Handler)' /\ Routed(port)' /\ Heard(port)'
  BY <1>2 DEF Sane, Handler, Told, HostTold
<1> QED BY <1>2, <1>3, <1>4, <1>5

(* The session's handler is sane.                                          *)
LEMMA HandlerSane ==
  ASSUME LinkTypes, CoreInv, on
  PROVE  Sane(Handler)
BY HandlerIs DEF CoreInv, SessionInv, Sane

(* A step that touches nothing of the link.                                *)
LEMMA LinkKept ==
  ASSUME BridgeInv, UNCHANGED linkVars
  PROVE  LinkTypes' /\ QueueTypes' /\ CoreInv'
<1>1. /\ UNCHANGED <<on, port, tx, ctrl, lost, frames, btin>>
      /\ UNCHANGED <<btctl, asks, host, refused>>
  BY DEF linkVars
<1>2. LinkTypes'
  BY <1>1 DEF BridgeInv, TypeOK, LinkTypes
<1>3. QueueTypes'
  BY <1>1 DEF BridgeInv, TypeOK, QueueTypes
<1>4. RequestInv' /\ (~on => Dropped)'
  BY <1>1 DEF BridgeInv, CoreInv, RequestInv, Dropped
<1>5. (on => SessionInv)'
  BY <1>1 DEF BridgeInv, CoreInv, SessionInv, Handler
<1> QED BY <1>2, <1>3, <1>4, <1>5 DEF CoreInv

-----------------------------------------------------------------------------
(* The steps of the daemon.                                                *)

(* The outputs are flushed.                                                *)
Flushing ==
  LET w == flush_pending_outputs(Handler)
  IN  \/ w.threw /\ drop_bt_backend(w)
      \/ ~w.threw /\ Keep(w) /\ UNCHANGED <<frames, btin, btctl>>

(* The flushes at the end of a wake-up keep the invariant.                 *)
LEMMA FlushStep ==
  ASSUME BridgeInv, Flushing
  PROVE  LinkTypes' /\ QueueTypes' /\ CoreInv'
<1> DEFINE h == Handler
           w == flush_pending_outputs(h)
<1>0. LinkTypes /\ QueueTypes /\ CoreInv
  BY DEF BridgeInv, TypeOK
<1>1. /\ h \in Work /\ h.p = port /\ h.ctrl = ctrl /\ h.asks = asks /\ h.replies = {}
      /\ h.tx = tx /\ ~h.threw /\ Bounded(h.p)
  BY <1>0, HandlerIs
<1>2. \/ w.threw /\ drop_bt_backend(w)
      \/ ~w.threw /\ Keep(w) /\ UNCHANGED <<frames, btin, btctl>>
  BY DEF Flushing
<1>3. CASE ~on
  <2>1. w = h
    BY <1>0, <1>1, <1>3 DEF CoreInv, Dropped, flush_pending_outputs,
       flush_pending_bt_state_report
  <2> HIDE DEF w
  <2>2. Keep(w) /\ UNCHANGED <<frames, btin, btctl>>
    BY <1>1, <1>2, <2>1
  <2>3. UNCHANGED <<on, port, tx, ctrl, lost, asks, refused>>
    BY <1>1, <2>1, <2>2 DEF Keep
  <2>4. UNCHANGED host
    <3>1. host' = [host EXCEPT !.want = host.want \ {}]
      BY <1>1, <2>1, <2>2 DEF Keep
    <3> QED BY <1>0, <3>1 DEF LinkTypes, HostType
  <2> QED BY <2>2, <2>3, <2>4, LinkKept DEF linkVars
<1>4. CASE on
  <2>1. Sane(h)
    BY <1>0, <1>4, HandlerSane
  <2> HIDE DEF h
  <2>2. ASSUME NEW S \in SUBSET Nat, SoundOf(port, S)
        PROVE  /\ Sane(w) /\ SameAsks(h, w) /\ SoundOf(w.p, S) /\ Bounded(w.p)
               /\ w.p.stream = port.stream /\ w.p.asked = port.asked
    BY <1>1, <2>1, <2>2, FlushOutputs
  <2> HIDE DEF w
  <2>3. Nat \in SUBSET Nat /\ SoundOf(port, Nat)
    <3>1. Nat \union {0} = Nat
      OBVIOUS
    <3> QED BY <1>0, <3>1 DEF LinkTypes, PortType, SoundOf
  <2>4. /\ Sane(w) /\ SameAsks(h, w) /\ Bounded(w.p)
        /\ w.p.stream = port.stream /\ w.p.asked = port.asked
    BY <2>2, <2>3
  <2>5. CASE w.threw /\ drop_bt_backend(w)
    BY <1>0, <2>4, <2>5, DropStep DEF Sane
  <2>6. CASE ~w.threw /\ Keep(w) /\ UNCHANGED <<frames, btin, btctl>>
    <3>1. /\ LinkTypes' /\ on' /\ port' = w.p /\ asks' = w.asks
          /\ Told(Handler)' /\ HostTold(Handler)' /\ Routed(port)' /\ Heard(port)'
          /\ host'.alt = host.alt /\ host'.stream = host.stream /\ host'.untold = host.untold
          /\ host'.want = host.want \ w.replies /\ refused' = refused
      BY <1>0, <1>4, <2>4, <2>6, KeepStep
    <3>2. QueueTypes'
      BY <1>0, <2>6 DEF QueueTypes
    <3>3. host.untold \/ TellsOf(frames, port', host')
      <4> DEFINE q == port'
                 g == host'
      <4>1. /\ q.stream = port.stream /\ g.alt = host.alt /\ g.stream = host.stream
            /\ \A S \in SUBSET Nat : SoundOf(port, S) => SoundOf(q, S)
        BY <2>2, <2>4, <3>1
      <4>2. frames \in Seq(Frames) /\ (host.untold \/ TellsOf(frames, port, host))
        BY <1>0, <1>4 DEF CoreInv, SessionInv, QueueTypes
      <4> HIDE DEF q, g
      <4>3. host.untold \/ TellsOf(frames, q, g)
        BY <4>1, <4>2, StoryKept
      <4> QED BY <4>3 DEF q, g
    <3>4. SessionInv'
      BY <2>6, <3>1, <3>3 DEF SessionInv
    <3>5. RequestInv'
      BY <1>0, <1>1, <2>4, <2>6, <3>1 DEF RequestInv, CoreInv, SameAsks
    <3> QED BY <3>1, <3>2, <3>4, <3>5 DEF CoreInv
  <2> QED BY <1>2, <2>5, <2>6
<1> QED BY <1>3, <1>4

(* handle_vds_frame.                                                       *)
LEMMA PortStep ==
  ASSUME BridgeInv, PortEvent
  PROVE  LinkTypes' /\ QueueTypes' /\ CoreInv'
<1> DEFINE h == Handler
           f == Head(frames)
           w == handle_frame(h, f)
<1>0. LinkTypes /\ QueueTypes /\ CoreInv
  BY DEF BridgeInv, TypeOK
<1>1. CASE frames = << >>
  BY <1>1, LinkKept DEF PortEvent
<1>2. CASE frames # << >>
  <2>1. \/ w.threw /\ drop_bt_backend(w)
        \/ ~w.threw /\ Keep(w) /\ frames' = Tail(frames) /\ UNCHANGED <<btin, btctl>>
    BY <1>2 DEF PortEvent
  <2>2. on
    BY <1>0, <1>2 DEF CoreInv, Dropped
  <2>3. /\ h \in Work /\ h.p = port /\ h.asks = asks /\ h.replies = {}
        /\ ~h.threw /\ Bounded(h.p) /\ Sane(h)
    BY <1>0, <2>2, HandlerIs, HandlerSane
  <2>4. /\ frames \in Seq(Frames) /\ f \in Frames /\ Tail(frames) \in Seq(Frames)
        /\ f = frames[1]
    <3>1. frames \in Seq(Frames)
      BY <1>0 DEF QueueTypes
    <3> QED BY <1>2, <3>1, HeadTailProperties
  <2> HIDE DEF h, f
  <2>5. /\ Sane(w) /\ Bounded(w.p) /\ (w.threw \/ Memory(h, w, f))
        /\ \A a, b \in Epochs : Knows(port, a) /\ Follows(a, f, b) => Knows(w.p, b)
    BY <2>2, <2>3, <2>4, FrameHandled
  <2> HIDE DEF w
  <2>6. CASE w.threw /\ drop_bt_backend(w)
    BY <1>0, <2>5, <2>6, DropStep DEF Sane
  <2>7. CASE ~w.threw /\ Keep(w) /\ frames' = Tail(frames) /\ UNCHANGED <<btin, btctl>>
    <3>1. /\ LinkTypes' /\ on' /\ port' = w.p /\ asks' = w.asks
          /\ Told(Handler)' /\ HostTold(Handler)' /\ Routed(port)' /\ Heard(port)'
          /\ host'.alt = host.alt /\ host'.stream = host.stream /\ host'.untold = host.untold
          /\ host'.want = host.want \ w.replies /\ refused' = refused
      BY <1>0, <2>2, <2>5, <2>7, KeepStep
    <3>2. QueueTypes'
      BY <1>0, <2>4, <2>7 DEF QueueTypes
    <3>3. ASSUME ~host.untold PROVE TellsOf(Tail(frames), port', host')
      <4> DEFINE q == port'
                 g == host'
      <4>1. PICK e \in [0 .. Len(frames) -> Epochs] : Story(e, frames, port, host)
        BY <1>0, <2>2, <3>3 DEF CoreInv, SessionInv, TellsOf
      <4>2. 1 \in 1 .. Len(frames) /\ 0 \in 0 .. Len(frames) /\ 1 \in 0 .. Len(frames)
            /\ 1 - 1 = 0
        BY <1>2, <2>4, EmptySeq
      <4>3. Knows(port, e[0]) /\ Follows(e[0], f, e[1])
        BY <2>4, <4>1, <4>2 DEF Story
      <4>4. Knows(q, e[1])
        BY <2>5, <3>1, <4>2, <4>3
      <4>5. g.alt = host.alt /\ g.stream = host.stream
        BY <3>1
      <4> HIDE DEF q, g
      <4>6. TellsOf(Tail(frames), q, g)
        BY <1>2, <2>4, <4>1, <4>4, <4>5, StoryTail
      <4> QED BY <4>6 DEF q, g
    <3>4. SessionInv'
      BY <2>7, <3>1, <3>3 DEF SessionInv
    <3>5. Memory(h, w, f)
      BY <2>5, <2>7
    <3>6. ASSUME NEW id \in host'.want \ refused'
          PROVE  Remembered(id, frames', port'.asked, asks', btctl')
      <4>1. /\ id \in Features /\ id \in host.want \ refused /\ id \notin w.replies
        BY <1>0, <3>1 DEF LinkTypes, HostType
      <4>2. Remembered(id, frames, port.asked, asks, btctl)
        BY <1>0, <4>1 DEF CoreInv, RequestInv
      <4>3. CASE Contains(frames, Ask(id))
        <5>1. f = Ask(id) \/ Contains(Tail(frames), Ask(id))
          BY <1>2, <2>4, <4>3, TailContains DEF f
        <5>2. CASE f = Ask(id)
          BY <3>1, <3>5, <4>1, <5>2 DEF Memory, Remembered
        <5>3. CASE Contains(Tail(frames), Ask(id))
          BY <2>7, <5>3 DEF Remembered
        <5> QED BY <5>1, <5>2, <5>3
      <4>4. CASE /\ Contains(port.asked, id)
                 /\ Contains(asks, id) \/ Contains(btctl, Answer(id))
        BY <2>3, <2>7, <3>1, <3>5, <4>1, <4>4 DEF Memory, Remembered
      <4> QED BY <4>2, <4>3, <4>4 DEF Remembered
    <3>7. RequestInv'
      BY <3>6 DEF RequestInv
    <3> QED BY <3>1, <3>2, <3>4, <3>7 DEF CoreInv
  <2> QED BY <2>1, <2>6, <2>7
<1> QED BY <1>1, <1>2

(* The end of a channel.                                                   *)
LEMMA EndStep ==
  ASSUME BridgeInv, NEW e, ChannelEnd(e)
  PROVE  LinkTypes' /\ QueueTypes' /\ CoreInv'
<1>1. CASE on /\ (lost \/ e.hup)
  <2>1. LinkTypes /\ Handler \in Work
    BY HandlerIs DEF BridgeInv, TypeOK
  <2>2. drop_bt_backend(Handler)
    BY <1>1 DEF ChannelEnd
  <2> QED BY <2>1, <2>2, DropStep
<1>2. CASE ~(on /\ (lost \/ e.hup))
  BY <1>2, LinkKept DEF ChannelEnd
<1> QED BY <1>1, <1>2

(* What the handlers of the controller's packets leave of the sound.       *)
LEMMA SoundKept ==
  ASSUME NEW F \in Seq(Frames), NEW p, NEW q, NEW h, NEW g, TellsOf(F, p, h),
         q.stream = p.stream, q.chunks = p.chunks, q.partial = p.partial,
         g.alt = h.alt, g.stream = h.stream
  PROVE  TellsOf(F, q, g)
<1>1. \A S : SoundOf(p, S) => SoundOf(q, S)
  BY DEF SoundOf
<1> QED BY <1>1, StoryKept

(* handle_bt_control on a packet.                                          *)
LEMMA ControlStep ==
  ASSUME BridgeInv, ControlEvent
  PROVE  LinkTypes' /\ QueueTypes' /\ CoreInv'
<1> DEFINE h == Handler
           k == Head(btctl)
           w == handle_bt_control(h, k)
<1>0. LinkTypes /\ QueueTypes /\ CoreInv
  BY DEF BridgeInv, TypeOK
<1>1. CASE ~(on /\ btctl # << >>)
  BY <1>1, EndStep DEF ControlEvent
<1>2. CASE on /\ btctl # << >>
  <2>1. Keep(w) /\ btctl' = Tail(btctl) /\ UNCHANGED <<frames, btin>>
    BY <1>2 DEF ControlEvent
  <2>2. /\ h \in Work /\ h.p = port /\ h.asks = asks /\ h.replies = {}
        /\ ~h.threw /\ Bounded(h.p) /\ Sane(h)
    BY <1>0, <1>2, HandlerIs, HandlerSane
  <2>3. btctl \in Seq(Answers) /\ k \in Answers /\ Tail(btctl) \in Seq(Answers)
    <3>1. btctl \in Seq(Answers)
      BY <1>0 DEF QueueTypes
    <3> QED BY <1>2, <3>1, HeadTailProperties
  <2> HIDE DEF h, k
  <2>4. /\ Sane(w) /\ ~w.threw /\ w.asks = asks
        /\ w.p.chunks = port.chunks /\ w.p.partial = port.partial
        /\ w.p.stream = port.stream
        /\ \A id : Contains(port.asked, id) /\ id \notin w.replies =>
              Contains(w.p.asked, id) /\ (k.type = "feature" => k.id # id)
    BY <2>2, <2>3, Control
  <2> HIDE DEF w
  <2>5. Bounded(w.p)
    BY <2>2, <2>4 DEF Bounded
  <2>6. /\ LinkTypes' /\ on' /\ port' = w.p /\ asks' = w.asks
        /\ Told(Handler)' /\ HostTold(Handler)' /\ Routed(port)' /\ Heard(port)'
        /\ host'.alt = host.alt /\ host'.stream = host.stream /\ host'.untold = host.untold
        /\ host'.want = host.want \ w.replies /\ refused' = refused
    BY <1>0, <1>2, <2>1, <2>4, <2>5, KeepStep
  <2>7. QueueTypes'
    BY <1>0, <2>1, <2>3 DEF QueueTypes
  <2>8. host.untold \/ TellsOf(frames, port', host')
    <3> DEFINE q == port'
               g == host'
    <3>1. /\ q.stream = port.stream /\ q.chunks = port.chunks /\ q.partial = port.partial
          /\ g.alt = host.alt /\ g.stream = host.stream
      BY <2>4, <2>6
    <3>2. frames \in Seq(Frames) /\ (host.untold \/ TellsOf(frames, port, host))
      BY <1>0, <1>2 DEF CoreInv, SessionInv, QueueTypes
    <3> HIDE DEF q, g
    <3>3. host.untold \/ TellsOf(frames, q, g)
      BY <3>1, <3>2, SoundKept
    <3> QED BY <3>3 DEF q, g
  <2>9. SessionInv'
    BY <2>1, <2>6, <2>8 DEF SessionInv
  <2>10. ASSUME NEW id \in host'.want \ refused'
         PROVE  Remembered(id, frames', port'.asked, asks', btctl')
    <3>1. id \in host.want \ refused /\ id \notin w.replies
      BY <2>6
    <3>2. Remembered(id, frames, port.asked, asks, btctl)
      BY <1>0, <3>1 DEF CoreInv, RequestInv
    <3>3. CASE Contains(frames, Ask(id))
      BY <2>1, <3>3 DEF Remembered
    <3>4. CASE /\ Contains(port.asked, id)
               /\ Contains(asks, id) \/ Contains(btctl, Answer(id))
      <4>1. Contains(w.p.asked, id) /\ (k.type = "feature" => k.id # id)
        BY <2>4, <3>1, <3>4
      <4>2. k # Answer(id)
        BY <4>1 DEF Answer
      <4>3. Contains(btctl, Answer(id)) => Contains(Tail(btctl), Answer(id))
        BY <1>2, <2>3, <4>2, TailContains DEF k
      <4> QED BY <2>1, <2>4, <2>6, <3>4, <4>1, <4>3 DEF Remembered
    <3> QED BY <3>2, <3>3, <3>4 DEF Remembered
  <2> QED BY <2>6, <2>7, <2>9, <2>10 DEF CoreInv, RequestInv
<1> QED BY <1>1, <1>2

(* handle_bt_input on a packet.                                            *)
LEMMA InterruptStep ==
  ASSUME BridgeInv, InterruptEvent
  PROVE  LinkTypes' /\ QueueTypes' /\ CoreInv'
<1> DEFINE h == Handler
           k == Head(btin)
           w == handle_bt_input(h, k)
<1>0. LinkTypes /\ QueueTypes /\ CoreInv
  BY DEF BridgeInv, TypeOK
<1>1. CASE ~(on /\ btin # << >>)
  BY <1>1, EndStep DEF InterruptEvent
<1>2. CASE on /\ btin # << >>
  <2>1. \/ w.threw /\ drop_bt_backend(w)
        \/ ~w.threw /\ Keep(w) /\ btin' = Tail(btin) /\ UNCHANGED <<frames, btctl>>
    BY <1>2 DEF InterruptEvent
  <2>2. /\ h \in Work /\ h.p = port /\ h.asks = asks /\ h.replies = {}
        /\ ~h.threw /\ Bounded(h.p) /\ Sane(h)
    BY <1>0, <1>2, HandlerIs, HandlerSane
  <2>3. btin \in Seq(Packets) /\ k \in Packets /\ Tail(btin) \in Seq(Packets)
    <3>1. btin \in Seq(Packets)
      BY <1>0 DEF QueueTypes
    <3> QED BY <1>2, <3>1, HeadTailProperties
  <2> HIDE DEF h, k
  <2>4. Sane(w) /\ SameAsks(h, w) /\ SameSound(port, w.p)
    BY <2>2, <2>3, Input
  <2> HIDE DEF w
  <2>5. Bounded(w.p)
    BY <2>2, <2>4 DEF Bounded, SameSound
  <2>6. CASE w.threw /\ drop_bt_backend(w)
    BY <1>0, <2>4, <2>6, DropStep DEF Sane
  <2>7. CASE ~w.threw /\ Keep(w) /\ btin' = Tail(btin) /\ UNCHANGED <<frames, btctl>>
    <3>1. /\ LinkTypes' /\ on' /\ port' = w.p /\ asks' = w.asks
          /\ Told(Handler)' /\ HostTold(Handler)' /\ Routed(port)' /\ Heard(port)'
          /\ host'.alt = host.alt /\ host'.stream = host.stream /\ host'.untold = host.untold
          /\ host'.want = host.want \ w.replies /\ refused' = refused
      BY <1>0, <1>2, <2>4, <2>5, <2>7, KeepStep
    <3>2. QueueTypes'
      BY <1>0, <2>3, <2>7 DEF QueueTypes
    <3>3. host.untold \/ TellsOf(frames, port', host')
      <4> DEFINE q == port'
                 g == host'
      <4>1. /\ q.stream = port.stream /\ q.chunks = port.chunks /\ q.partial = port.partial
            /\ g.alt = host.alt /\ g.stream = host.stream
        BY <2>4, <3>1 DEF SameSound
      <4>2. frames \in Seq(Frames) /\ (host.untold \/ TellsOf(frames, port, host))
        BY <1>0, <1>2 DEF CoreInv, SessionInv, QueueTypes
      <4> HIDE DEF q, g
      <4>3. host.untold \/ TellsOf(frames, q, g)
        BY <4>1, <4>2, SoundKept
      <4> QED BY <4>3 DEF q, g
    <3>4. SessionInv'
      BY <2>7, <3>1, <3>3 DEF SessionInv
    <3>5. RequestInv'
      BY <1>0, <2>2, <2>4, <2>7, <3>1 DEF RequestInv, CoreInv, SameAsks, SameSound
    <3> QED BY <3>1, <3>2, <3>4, <3>5 DEF CoreInv
  <2> QED BY <2>1, <2>6, <2>7
<1> QED BY <1>1, <1>2

(* A port with nothing in it, no frame on its way and no stream.           *)
LEMMA StoryFresh ==
  ASSUME NEW F, F = << >>, NEW p, NEW h, p.stream = 0, p.chunks = << >>, p.partial = 0,
         h.alt = 0
  PROVE  TellsOf(F, p, h)
<1> DEFINE a == [s |-> 0, open |-> FALSE]
           e == [i \in 0 .. 0 |-> a]
<1>1. a \in Epochs /\ a.s = 0 /\ a.open = FALSE
  BY DEF Epochs
<1> HIDE DEF a
<1>2. e \in [0 .. 0 -> Epochs] /\ e[0] = a
  BY <1>1
<1> HIDE DEF e
<1>3. SoundOf(p, {}) /\ SoundOf(p, {0})
  BY EmptySeq DEF SoundOf
<1>4. Knows(p, a)
  BY <1>1, <1>3 DEF Knows
<1>5. Len(F) = 0 /\ 1 .. Len(F) = {}
  OBVIOUS
<1>6. Story(e, F, p, h)
  <2>1. Knows(p, e[0]) /\ \A i \in 1 .. Len(F) : Follows(e[i - 1], F[i], e[i])
    BY <1>2, <1>4, <1>5
  <2>2. e[Len(F)].open = FALSE /\ (h.alt = 1) = FALSE
    BY <1>1, <1>2, <1>5
  <2> QED BY <2>1, <2>2 DEF Story
<1> QED BY <1>2, <1>5, <1>6 DEF TellsOf

(* complete_pending_controller.                                            *)
LEMMA AcceptStep ==
  ASSUME BridgeInv, AcceptEvent
  PROVE  LinkTypes' /\ QueueTypes' /\ CoreInv'
<1>0. LinkTypes /\ QueueTypes /\ CoreInv
  BY DEF BridgeInv, TypeOK
<1>1. /\ UNCHANGED <<ctrl, lost, frames, btin>>
      /\ UNCHANGED <<btctl, asks, host, refused>>
  BY DEF AcceptEvent
<1>2. QueueTypes'
  BY <1>0, <1>1 DEF QueueTypes
<1>3. CASE on /\ UNCHANGED <<on, port, tx>>
  BY <1>1, <1>3, LinkKept DEF linkVars
<1>4. CASE /\ ~on /\ on' = TRUE
           /\ port' = [FreshPort EXCEPT !.last = InitialDsState, !.cached = InitialIds]
           /\ tx' = Room - 1
  <2> DEFINE z == InitialDsState
             q == [FreshPort EXCEPT !.last = z, !.cached = InitialIds]
  <2>1. z \in DsStates /\ InitialIds \in SUBSET Features
    BY StateZero, BridgeAssumption
  <2>2. FreshPort.state = z
    BY FreshType
  <2> HIDE DEF z
  <2>3. /\ q \in PortType /\ q.pending = None /\ q.last = z /\ q.state = z
        /\ q.chunks = << >> /\ q.partial = 0 /\ q.stream = 0
        /\ ~q.audio_out /\ ~q.wave
    BY <2>1, <2>2, FreshType DEF PortType
  <2>4. port' = q
    BY <1>4 DEF z
  <2> HIDE DEF q
  <2>5. Len(<< >>) = 0 /\ 0 <= MaxChunks /\ Room - 1 \in 0 .. Room
    BY BridgeAssumption
  <2>6. LinkTypes'
    BY <1>0, <1>1, <1>4, <2>3, <2>4, <2>5 DEF LinkTypes
  <2>7. ctrl = z /\ frames = << >> /\ host.alt = 0 /\ host.want = {}
    BY <1>0, <1>4 DEF CoreInv, Dropped, z
  <2>8. Told(Handler)' /\ HostTold(Handler)' /\ Routed(port)' /\ Heard(port)'
    BY <1>1, <2>3, <2>4, <2>7 DEF Told, HostTold, Routed, Heard, Handler
  <2>9. TellsOf(frames', port', host')
    BY <1>1, <2>3, <2>4, <2>7, StoryFresh
  <2>10. RequestInv'
    BY <1>1, <2>7 DEF RequestInv
  <2> QED BY <1>2, <1>4, <2>6, <2>8, <2>9, <2>10 DEF CoreInv, SessionInv
<1>5. CASE ~on /\ port' = FreshPort /\ UNCHANGED <<on, tx>>
  <2>1. LinkTypes'
    <3>1. Len(<< >>) = 0 /\ 0 <= MaxChunks
      BY BridgeAssumption
    <3> QED BY <1>0, <1>1, <1>5, <3>1, FreshType DEF LinkTypes
  <2>2. Dropped'
    BY <1>0, <1>1, <1>5, FreshType DEF CoreInv, Dropped
  <2>3. RequestInv'
    BY <2>2 DEF RequestInv, Dropped
  <2> QED BY <1>2, <1>5, <2>1, <2>2, <2>3 DEF CoreInv
<1> QED BY <1>3, <1>4, <1>5 DEF AcceptEvent

-----------------------------------------------------------------------------
(* The steps of the host and of the controller.                            *)

(* The host sends a frame: the next part of the story, or a request; or    *)
(* the driver drops it.                                                    *)
LEMMA SendStep ==
  ASSUME BridgeInv, NEW kind, NEW f \in Frames, SendFrame(kind, f),
         host' \in HostType, refused' \subseteq Features,
         host.untold => host'.untold,
         HasRoom \/ host'.untold \/ host' = host,
         \A a \in Epochs :
            a.open = (host.alt = 1) /\ (host.alt = 1 => a.s = host.stream) =>
              \E b \in Epochs : /\ Follows(a, f, b) /\ b.open = (host'.alt = 1)
                                /\ host'.alt = 1 => b.s = host'.stream,
         \A id \in host'.want \ refused' :
            id \in host.want \ refused \/ (HasRoom /\ f = Ask(id))
  PROVE  LinkTypes' /\ QueueTypes' /\ CoreInv'
<1>0. LinkTypes /\ QueueTypes /\ CoreInv
  BY DEF BridgeInv, TypeOK
<1>1. /\ on /\ frames' = (IF HasRoom THEN Append(frames, f) ELSE frames)
      /\ UNCHANGED <<on, port, tx, ctrl, lost>>
      /\ UNCHANGED <<btin, btctl, asks>>
  BY DEF SendFrame, envVars
<1>2. LinkTypes'
  BY <1>0, <1>1 DEF LinkTypes
<1>3. frames \in Seq(Frames) /\ frames' \in Seq(Frames)
  BY <1>0, <1>1, AppendProperties DEF QueueTypes
<1>4. QueueTypes'
  BY <1>0, <1>1, <1>3 DEF QueueTypes
<1>5. host'.untold \/ TellsOf(frames', port, host')
  <2> DEFINE g == host'
             n == Len(frames)
  <2>1. SUFFICES ASSUME ~g.untold PROVE TellsOf(frames', port, g)
    OBVIOUS
  <2>2. PICK e \in [0 .. n -> Epochs] : Story(e, frames, port, host)
    BY <1>0, <1>1, <2>1 DEF CoreInv, SessionInv, TellsOf
  <2>3. CASE ~HasRoom
    <3>1. g = host /\ frames' = frames
      BY <1>1, <2>1, <2>3
    <3> QED BY <2>2, <3>1 DEF TellsOf
  <2>4. CASE HasRoom
    <3>1. e[n] \in Epochs
      BY <1>3, LenProperties
    <3>2. e[n].open = (host.alt = 1) /\ (host.alt = 1 => e[n].s = host.stream)
      BY <2>2 DEF Story
    <3>3. PICK b \in Epochs : /\ Follows(e[n], f, b) /\ b.open = (g.alt = 1)
                              /\ g.alt = 1 => b.s = g.stream
      BY <3>1, <3>2
    <3> HIDE DEF g
    <3>4. TellsOf(Append(frames, f), port, g)
      BY <1>3, <2>2, <3>3, StoryAppend
    <3> QED BY <1>1, <2>4, <3>4
  <2> QED BY <2>3, <2>4
<1>6. SessionInv'
  BY <1>0, <1>1, <1>5 DEF CoreInv, SessionInv, Handler
<1>7. ASSUME NEW id \in host'.want \ refused'
      PROVE  Remembered(id, frames', port'.asked, asks', btctl')
  <2>1. CASE HasRoom /\ f = Ask(id)
    BY <1>1, <1>3, <2>1, AppendContains DEF Remembered
  <2>2. CASE id \in host.want \ refused
    <3>1. Remembered(id, frames, port.asked, asks, btctl)
      BY <1>0, <2>2 DEF CoreInv, RequestInv
    <3>2. Contains(frames, Ask(id)) => Contains(frames', Ask(id))
      BY <1>1, <1>3, AppendContains
    <3> QED BY <1>1, <3>1, <3>2 DEF Remembered
  <2> QED BY <2>1, <2>2
<1> QED BY <1>1, <1>2, <1>4, <1>6, <1>7 DEF CoreInv, RequestInv

(* A frame that is not of the stream, and that the host awaits no answer   *)
(* to.                                                                     *)
LEMMA SendOther ==
  ASSUME BridgeInv, NEW kind, NEW f \in Frames, SendFrame(kind, f),
         UNCHANGED <<host, refused>>, f.type \notin {"interface_out", "audio_out"}
  PROVE  LinkTypes' /\ QueueTypes' /\ CoreInv'
<1>1. \A a : Follows(a, f, a)
  BY DEF Follows
<1>2. host \in HostType /\ refused \subseteq Features
  BY DEF BridgeInv, TypeOK, LinkTypes
<1> QED BY <1>1, <1>2, SendStep

(* The host's frames.                                                      *)
LEMMA HostStep ==
  ASSUME BridgeInv,
         \/ \E alt \in {0, 1} : HostSetAudioOut(alt) \/ HostSetAudioIn(alt)
         \/ \E size \in {1, 4} : HostAudio(size)
         \/ HostHidOut \/ HostTest
         \/ \E id \in Features : HostFeatureGet(id)
  PROVE  LinkTypes' /\ QueueTypes' /\ CoreInv'
<1>0. host \in HostType /\ refused \subseteq Features
  BY DEF BridgeInv, TypeOK, LinkTypes
<1>1. ASSUME NEW alt \in {0, 1}, HostSetAudioOut(alt) PROVE LinkTypes' /\ QueueTypes' /\ CoreInv'
  <2> DEFINE n == IF alt = 1 /\ host.alt = 0 THEN host.stream + 1 ELSE host.stream
             f == [type |-> "interface_out", alt |-> alt, stream |-> n]
             b == [s |-> n, open |-> alt = 1]
  <2>1. /\ SendFrame("stream", f) /\ UNCHANGED refused
        /\ host' = [host EXCEPT !.alt = alt, !.stream = n, !.untold = @ \/ ~HasRoom]
    BY <1>1 DEF HostSetAudioOut
  <2>2. n \in Nat /\ (alt = 1 /\ host.alt = 1 => n = host.stream)
    BY <1>0 DEF HostType
  <2> HIDE DEF n
  <2>3. f \in Frames /\ f.type = "interface_out" /\ f.alt = alt /\ f.stream = n
    BY <2>2 DEF Frames
  <2>4. b \in Epochs /\ b.s = n /\ b.open = (alt = 1)
    BY <2>2 DEF Epochs
  <2>5. /\ host' \in HostType /\ host'.alt = alt /\ host'.stream = n
        /\ host'.want = host.want /\ host'.untold = (host.untold \/ ~HasRoom)
    BY <1>0, <2>1, <2>2 DEF HostType
  <2> HIDE DEF f
  <2>6. ASSUME NEW a \in Epochs, a.open = (host.alt = 1), host.alt = 1 => a.s = host.stream
        PROVE  Follows(a, f, b)
    <3>1. alt = 1 => ~a.open \/ a.s = n
      BY <1>0, <2>2, <2>6 DEF HostType
    <3> QED BY <2>3, <3>1 DEF Follows
  <2> HIDE DEF b
  <2>7. (host.untold => host'.untold) /\ (HasRoom \/ host'.untold)
    BY <2>5
  <2> QED BY <1>0, <2>1, <2>3, <2>4, <2>5, <2>6, <2>7, SendStep
<1>2. ASSUME NEW size \in {1, 4}, HostAudio(size) PROVE LinkTypes' /\ QueueTypes' /\ CoreInv'
  <2> DEFINE f == [type |-> "audio_out", stream |-> host.stream, size |-> size]
  <2>1. host.alt = 1 /\ SendFrame("stream", f) /\ UNCHANGED <<host, refused>>
    BY <1>2 DEF HostAudio
  <2>2. f \in Frames /\ f.type = "audio_out" /\ f.stream = host.stream
    BY <1>0 DEF Frames, HostType
  <2> HIDE DEF f
  <2>3. ASSUME NEW a \in Epochs, a.open = (host.alt = 1), host.alt = 1 => a.s = host.stream
        PROVE  Follows(a, f, a)
    BY <2>1, <2>2, <2>3 DEF Follows
  <2> QED BY <1>0, <2>1, <2>2, <2>3, SendStep
<1>3. ASSUME NEW alt \in {0, 1}, HostSetAudioIn(alt) PROVE LinkTypes' /\ QueueTypes' /\ CoreInv'
  <2> DEFINE f == [type |-> "interface_in", alt |-> alt]
  <2>1. f \in Frames /\ f.type = "interface_in"
    BY DEF Frames
  <2>2. SendFrame("mic", f) /\ UNCHANGED <<host, refused>>
    BY <1>3 DEF HostSetAudioIn
  <2> HIDE DEF f
  <2> QED BY <2>1, <2>2, SendOther
<1>4. CASE HostHidOut
  <2>1. PICK r \in HostReports : SendFrame("hid", r) /\ UNCHANGED <<host, refused>>
    BY <1>4 DEF HostHidOut
  <2>2. r \in Frames /\ r.type = "hid_out"
    BY BridgeAssumption DEF Frames, AllReports
  <2> QED BY <2>1, <2>2, SendOther
<1>5. CASE HostTest
  <2>1. PICK c \in TestCommands :
           /\ SendFrame("test", [type |-> "feature_set", command |-> c])
           /\ UNCHANGED <<host, refused>>
    BY <1>5 DEF HostTest
  <2> DEFINE f == [type |-> "feature_set", command |-> c]
  <2>2. f \in Frames /\ f.type = "feature_set"
    BY DEF Frames
  <2>3. SendFrame("test", f)
    BY <2>1
  <2> HIDE DEF f
  <2> QED BY <2>1, <2>2, <2>3, SendOther
<1>6. ASSUME NEW id \in Features, HostFeatureGet(id) PROVE LinkTypes' /\ QueueTypes' /\ CoreInv'
  <2> DEFINE f == [type |-> "feature_get", id |-> id]
  <2>1. host.want = {} /\ SendFrame("feature", f)
    BY <1>6 DEF HostFeatureGet
  <2>2. f \in Frames /\ f.type = "feature_get" /\ f = Ask(id)
    BY DEF Frames, Ask
  <2> HIDE DEF f
  <2>3. CASE ~HasRoom
    <3>1. UNCHANGED <<host, refused>>
      BY <1>6, <2>3 DEF HostFeatureGet
    <3> QED BY <2>1, <2>2, <3>1, SendOther
  <2>4. CASE HasRoom
    <3>1. host' = [host EXCEPT !.want = {id}] /\ refused' = refused \ {id}
      BY <1>6, <2>4 DEF HostFeatureGet
    <3>2. /\ host' \in HostType /\ host'.alt = host.alt /\ host'.stream = host.stream
          /\ host'.want = {id} /\ host'.untold = host.untold
      BY <1>0, <3>1 DEF HostType
    <3>3. \A a : Follows(a, f, a)
      BY <2>2 DEF Follows
    <3> QED BY <1>0, <2>1, <2>2, <2>4, <3>1, <3>2, <3>3, SendStep
  <2> QED BY <2>3, <2>4
<1> QED BY <1>1, <1>2, <1>3, <1>4, <1>5, <1>6

(* The controller answers a request, or refuses it.                        *)
LEMMA AnswerStep ==
  ASSUME BridgeInv, PeerAnswers
  PROVE  LinkTypes' /\ QueueTypes' /\ CoreInv'
<1> DEFINE k == Head(asks)
<1>0. LinkTypes /\ QueueTypes /\ CoreInv
  BY DEF BridgeInv, TypeOK
<1>1. /\ asks # << >> /\ asks' = Tail(asks)
      /\ UNCHANGED <<on, port, tx, ctrl, lost>>
      /\ UNCHANGED <<frames, btin, host>>
  BY DEF PeerAnswers, envVars
<1>2. \/ btctl' = Append(btctl, Answer(k)) /\ UNCHANGED refused
      \/ btctl' = Append(btctl, [type |-> "handshake"]) /\ refused' = refused \union {k}
  BY DEF PeerAnswers, Answer
<1>3. asks \in Seq(Features) /\ Tail(asks) \in Seq(Features) /\ k \in Features
  BY <1>0, <1>1, HeadTailProperties DEF LinkTypes
<1>4. \A id : Contains(asks, id) => id = k \/ Contains(asks', id)
  BY <1>1, <1>3, TailContains
<1> HIDE DEF k
<1>5. LinkTypes'
  BY <1>0, <1>1, <1>2, <1>3 DEF LinkTypes
<1>6. /\ btctl \in Seq(Answers) /\ Answer(k) \in Answers
      /\ [type |-> "handshake"] \in Answers
  BY <1>0, <1>3 DEF QueueTypes, Answers, Answer
<1>7. /\ btctl' \in Seq(Answers)
      /\ \A a : Contains(btctl, a) => Contains(btctl', a)
      /\ k \in refused' \/ Contains(btctl', Answer(k))
  <2>1. CASE btctl' = Append(btctl, Answer(k))
    BY <1>6, <2>1, AppendContains
  <2>2. CASE btctl' = Append(btctl, [type |-> "handshake"]) /\ refused' = refused \union {k}
    <3> DEFINE a == [type |-> "handshake"]
    <3>1. a \in Answers /\ btctl' = Append(btctl, a)
      BY <1>6, <2>2
    <3> HIDE DEF a
    <3> QED BY <1>6, <2>2, <3>1, AppendContains
  <2> QED BY <1>2, <2>1, <2>2
<1>8. QueueTypes'
  BY <1>0, <1>1, <1>7 DEF QueueTypes
<1>9. refused \subseteq refused'
  BY <1>2
<1>10. RequestInv'
  <2> SUFFICES ASSUME NEW id \in host'.want \ refused'
               PROVE  Remembered(id, frames', port'.asked, asks', btctl')
    BY DEF RequestInv
  <2>1. Remembered(id, frames, port.asked, asks, btctl)
    BY <1>0, <1>1, <1>9 DEF CoreInv, RequestInv
  <2> QED BY <1>1, <1>4, <1>7, <2>1 DEF Remembered
<1>11. (on => SessionInv)' /\ (~on => Dropped)'
  BY <1>0, <1>1 DEF CoreInv, SessionInv, Dropped, Handler, Told, HostTold
<1> QED BY <1>5, <1>8, <1>10, <1>11 DEF CoreInv

(* The other steps of the environment.                                     *)
LEMMA PeerStep ==
  ASSUME BridgeInv,
         \/ HostGivesUp \/ \E k \in Packets : PeerInput(k)
         \/ PeerTakes \/ PeerLost \/ PeerCalls \/ Tick
  PROVE  LinkTypes' /\ QueueTypes' /\ CoreInv'
<1>0. LinkTypes /\ QueueTypes /\ CoreInv
  BY DEF BridgeInv, TypeOK
<1>1. CASE HostGivesUp
  <2>1. /\ host' = [host EXCEPT !.want = {}]
        /\ UNCHANGED <<on, port, tx, ctrl, lost>>
        /\ UNCHANGED <<frames, btin, btctl, asks, refused>>
    BY <1>1 DEF HostGivesUp, envVars
  <2>2. /\ host' \in HostType
        /\ host'.alt = host.alt /\ host'.stream = host.stream /\ host'.want = {}
        /\ host'.untold = host.untold
    BY <1>0, <2>1 DEF LinkTypes, HostType
  <2>3. LinkTypes' /\ QueueTypes'
    BY <1>0, <2>1, <2>2 DEF LinkTypes, QueueTypes
  <2>4. RequestInv' /\ (~on => Dropped)'
    BY <1>0, <2>1, <2>2 DEF RequestInv, CoreInv, Dropped
  <2>5. (on => SessionInv)'
    <3> DEFINE g == host'
    <3>1. /\ g.alt = host.alt /\ g.stream = host.stream /\ g.untold = host.untold
          /\ frames \in Seq(Frames)
      BY <1>0, <2>2 DEF QueueTypes
    <3> HIDE DEF g
    <3>2. TellsOf(frames, port, host) => TellsOf(frames, port, g)
      BY <3>1, SoundKept
    <3> QED BY <1>0, <2>1, <3>1, <3>2 DEF CoreInv, SessionInv, Handler, g
  <2> QED BY <2>3, <2>4, <2>5 DEF CoreInv
<1>2. ASSUME NEW k \in Packets, PeerInput(k) PROVE LinkTypes' /\ QueueTypes' /\ CoreInv'
  <2>1. /\ btin' = Append(btin, k)
        /\ UNCHANGED <<on, port, tx, ctrl, lost>>
        /\ UNCHANGED <<frames, btctl, asks, host, refused>>
    BY <1>2 DEF PeerInput, envVars
  <2>2. btin' \in Seq(Packets)
    BY <1>0, <2>1, AppendProperties DEF QueueTypes
  <2>3. LinkTypes' /\ QueueTypes'
    BY <1>0, <2>1, <2>2 DEF LinkTypes, QueueTypes
  <2> QED BY <1>0, <2>1, <2>3
          DEF CoreInv, RequestInv, SessionInv, Dropped, Handler
<1>3. CASE PeerTakes
  <2>1. /\ tx < Room /\ tx' = tx + 1
        /\ UNCHANGED <<on, port, ctrl, lost, btin>>
        /\ UNCHANGED <<frames, btctl, asks, host, refused>>
    BY <1>3 DEF PeerTakes, envVars
  <2>2. tx' \in 0 .. Room
    BY <1>0, <2>1, BridgeAssumption DEF LinkTypes
  <2>3. LinkTypes' /\ QueueTypes'
    BY <1>0, <2>1, <2>2 DEF LinkTypes, QueueTypes
  <2>4. (on => SessionInv)'
    BY <1>0, <2>1 DEF CoreInv, SessionInv, Handler, Told, HostTold
  <2> QED BY <1>0, <2>1, <2>3, <2>4 DEF CoreInv, RequestInv, Dropped
<1>4. CASE PeerLost
  <2>1. /\ on /\ lost' = TRUE
        /\ UNCHANGED <<on, port, tx, ctrl, btin>>
        /\ UNCHANGED <<frames, btctl, asks, host, refused>>
    BY <1>4 DEF PeerLost, envVars
  <2>2. LinkTypes' /\ QueueTypes'
    BY <1>0, <2>1 DEF LinkTypes, QueueTypes
  <2> QED BY <1>0, <2>1, <2>2 DEF CoreInv, RequestInv, SessionInv, Handler
<1>5. CASE PeerCalls
  <2>1. UNCHANGED linkVars
    BY <1>5 DEF PeerCalls, linkVars
  <2> QED BY <2>1, LinkKept
<1>6. CASE Tick
  <2>1. /\ port' = [port EXCEPT !.next = "past"]
        /\ UNCHANGED <<on, tx, ctrl, lost, btin>>
        /\ UNCHANGED <<frames, btctl, asks, host, refused>>
    BY <1>6 DEF Tick
  <2>2. /\ port' \in PortType /\ SameSound(port, port') /\ SamePlay(port, port')
        /\ port'.last = port.last /\ port'.pending = port.pending
        /\ port'.state = port.state
    BY <1>0, <2>1 DEF LinkTypes, PortType, SameSound, SamePlay
  <2>3. LinkTypes' /\ QueueTypes'
    BY <1>0, <2>1, <2>2 DEF LinkTypes, QueueTypes, SameSound
  <2>4. on => host.untold \/ TellsOf(frames, port', host)
    <3> DEFINE q == port'
    <3>1. /\ q.stream = port.stream /\ q.chunks = port.chunks /\ q.partial = port.partial
          /\ frames \in Seq(Frames)
      BY <1>0, <2>2 DEF QueueTypes, SameSound
    <3> HIDE DEF q
    <3>2. TellsOf(frames, port, host) => TellsOf(frames, q, host)
      BY <3>1, SoundKept
    <3> QED BY <1>0, <3>2 DEF CoreInv, SessionInv, q
  <2>5. on => (Told(Handler) /\ HostTold(Handler) /\ Routed(port) /\ Heard(port))'
    BY <1>0, <2>1, <2>2 DEF CoreInv, SessionInv, Handler, Told, HostTold, Routed, Heard,
       Latest, Way, SamePlay
  <2>6. RequestInv' /\ (~on => Dropped)'
    BY <1>0, <2>1, <2>2 DEF CoreInv, RequestInv, Dropped, SameSound
  <2> QED BY <2>1, <2>3, <2>4, <2>5, <2>6 DEF CoreInv, SessionInv
<1> QED BY <1>1, <1>2, <1>3, <1>4, <1>5, <1>6

-----------------------------------------------------------------------------
(* The theorems.                                                           *)

(* The loop's own state, and the bounds.                                   *)
LEMMA LoopStep ==
  ASSUME TypeOK, Next
  PROVE  LoopTypes'
<1> USE BridgeAssumption
<1>0. LoopTypes /\ lost \in BOOLEAN
  BY DEF TypeOK, LinkTypes
<1>1. CASE Daemon
  <2>1. /\ kinds' = kinds /\ left' = left /\ sessions' = sessions
        /\ calling' \in BOOLEAN /\ pc' \in {"wait", "batch"}
    BY <1>0, <1>1 DEF Daemon, Wake, Timeout, EndBatch, PortEvent, ControlEvent,
       InterruptEvent, AcceptEvent, LoopTypes
  <2>2. batch' \subseteq [src: Sources, hup: BOOLEAN]
    <3>1. CASE Wake
      BY <1>0, <3>1 DEF Wake, Ready
    <3>2. CASE Timeout \/ EndBatch
      BY <1>0, <3>2 DEF Timeout, EndBatch, LoopTypes
    <3>3. CASE PortEvent \/ ControlEvent \/ InterruptEvent \/ AcceptEvent
      <4>1. batch' \subseteq batch
        BY <3>3 DEF PortEvent, ControlEvent, InterruptEvent, AcceptEvent, ChannelEnd
      <4> QED BY <1>0, <4>1 DEF LoopTypes
    <3> QED BY <1>1, <3>1, <3>2, <3>3 DEF Daemon
  <2> QED BY <1>0, <2>1, <2>2 DEF LoopTypes
<1>2. CASE Environment
  <2>1. UNCHANGED <<batch, pc, kinds>>
    BY <1>2 DEF Environment, HostSetAudioOut, HostSetAudioIn, HostAudio, HostHidOut,
       HostGivesUp, HostTest, HostFeatureGet, PeerInput, PeerAnswers, PeerTakes,
       PeerLost, PeerCalls, Tick, SendFrame, envVars
  <2>2. calling' \in BOOLEAN
    BY <1>0, <1>2 DEF LoopTypes, Environment, HostSetAudioOut, HostSetAudioIn,
       HostAudio, HostHidOut, HostGivesUp, HostTest, HostFeatureGet, PeerInput,
       PeerAnswers, PeerTakes, PeerLost, PeerCalls, Tick, SendFrame
  <2>3. left' = left \/ (left > 0 /\ left' = left - 1)
    BY <1>2 DEF Environment, HostSetAudioOut, HostSetAudioIn, HostAudio, HostHidOut,
       HostGivesUp, HostTest, HostFeatureGet, PeerInput, PeerAnswers, PeerTakes,
       PeerLost, PeerCalls, Tick, SendFrame
  <2>4. sessions' = sessions \/ (sessions < MaxSessions /\ sessions' = sessions + 1)
    BY <1>2 DEF Environment, HostSetAudioOut, HostSetAudioIn, HostAudio, HostHidOut,
       HostGivesUp, HostTest, HostFeatureGet, PeerInput, PeerAnswers, PeerTakes,
       PeerLost, PeerCalls, Tick, SendFrame, envVars
  <2>5. left' \in 0 .. MaxOps /\ sessions' \in 0 .. MaxSessions
    BY <1>0, <2>3, <2>4 DEF LoopTypes
  <2> QED BY <1>0, <2>1, <2>2, <2>5 DEF LoopTypes
<1> QED BY <1>1, <1>2 DEF Next

(* The invariant holds at the start.                                       *)
LEMMA InvInit == Init => BridgeInv
<1> SUFFICES ASSUME Init PROVE BridgeInv
  OBVIOUS
<1> USE BridgeAssumption
<1>1. /\ ~on /\ on \in BOOLEAN /\ port = FreshPort /\ tx = Room
      /\ ctrl = InitialDsState /\ ~lost /\ lost \in BOOLEAN
      /\ frames = << >> /\ btin = << >> /\ btctl = << >> /\ asks = << >>
      /\ host = NoHost /\ refused = {}
  BY DEF Init
<1>2. /\ NoHost \in HostType
      /\ NoHost.alt = 0 /\ NoHost.want = {}
  BY DEF NoHost, HostType
<1>3. LinkTypes
  <2>1. Len(<< >>) = 0 /\ 0 <= MaxChunks /\ Room \in 0 .. Room /\ << >> \in Seq(Features)
    OBVIOUS
  <2> QED BY <1>1, <1>2, <2>1, FreshType, StateZero DEF LinkTypes
<1>4. QueueTypes
  BY <1>1 DEF QueueTypes
<1>5. LoopTypes
  <2>1. MaxOps \in 0 .. MaxOps /\ 0 \in 0 .. MaxSessions
    OBVIOUS
  <2>2. calling \in BOOLEAN /\ batch = {} /\ pc \in {"wait", "batch"} /\ kinds \in Scenarios
        /\ left = MaxOps /\ sessions = 0
    BY DEF Init
  <2> QED BY <2>1, <2>2 DEF LoopTypes
<1>6. RequestInv /\ Dropped
  BY <1>1, <1>2, FreshType DEF RequestInv, Dropped
<1> QED BY <1>1, <1>3, <1>4, <1>5, <1>6 DEF BridgeInv, TypeOK, CoreInv

(* Every step keeps it.                                                    *)
LEMMA InvStep == BridgeInv /\ [Next]_vars => BridgeInv'
<1> SUFFICES ASSUME BridgeInv, [Next]_vars PROVE BridgeInv'
  OBVIOUS
<1>1. CASE UNCHANGED vars
  <2>1. UNCHANGED linkVars /\ UNCHANGED <<calling, batch, pc, left, sessions, kinds>>
    BY <1>1 DEF vars, linkVars
  <2>2. LoopTypes'
    BY <2>1 DEF BridgeInv, TypeOK, LoopTypes
  <2> QED BY <2>1, <2>2, LinkKept DEF BridgeInv, TypeOK
<1>2. CASE Next
  <2>1. LoopTypes'
    BY <1>2, LoopStep DEF BridgeInv
  <2>2. CASE Daemon
    <3>1. CASE Wake
      BY <2>1, <3>1, LinkKept DEF Wake, BridgeInv, TypeOK
    <3>2. CASE Timeout \/ EndBatch
      <4>1. Flushing
        BY <3>2 DEF Timeout, EndBatch, Flushing
      <4> QED BY <2>1, <4>1, FlushStep DEF BridgeInv, TypeOK
    <3>3. CASE PortEvent
      BY <2>1, <3>3, PortStep DEF BridgeInv, TypeOK
    <3>4. CASE ControlEvent
      BY <2>1, <3>4, ControlStep DEF BridgeInv, TypeOK
    <3>5. CASE InterruptEvent
      BY <2>1, <3>5, InterruptStep DEF BridgeInv, TypeOK
    <3>6. CASE AcceptEvent
      BY <2>1, <3>6, AcceptStep DEF BridgeInv, TypeOK
    <3> QED BY <2>2, <3>1, <3>2, <3>3, <3>4, <3>5, <3>6 DEF Daemon
  <2>3. CASE Environment
    <3>1. LinkTypes' /\ QueueTypes' /\ CoreInv'
      BY <2>3, HostStep, AnswerStep, PeerStep DEF Environment
    <3> QED BY <2>1, <3>1 DEF BridgeInv, TypeOK
  <2> QED BY <1>2, <2>2, <2>3 DEF Next
<1> QED BY <1>1, <1>2

(* The inductive invariant of the bridge.                                  *)
THEOREM Invariance == Spec => []BridgeInv
BY InvInit, InvStep, PTL DEF Spec

(* Every state has the types, and the chunk queue its bound                *)
(* (kMaxPendingAudioChunks), whatever bursts of audio arrive.              *)
THEOREM Typing == Spec => []TypeOK
<1>1. BridgeInv => TypeOK
  BY DEF BridgeInv
<1> QED BY <1>1, Invariance, PTL

(* The host's newest state is never lost to a full socket: it is what the  *)
(* controller was told last, or it is pending (pending_bt_state).          *)
THEOREM NewestKept == Spec => []NewestStateKept
<1>1. BridgeInv => NewestStateKept
  <2> SUFFICES ASSUME BridgeInv, on PROVE HostTold(Handler)
    BY HandlerIs DEF NewestStateKept, HostTold, BridgeInv, TypeOK
  <2> QED BY DEF BridgeInv, CoreInv, SessionInv
<1> QED BY <1>1, Invariance, PTL

(* While a stream or the test sine plays, the remembered path, the state   *)
(* that the audio packets carry and the last state report, sent or         *)
(* pending, name the headset if one is plugged and the speaker if not,     *)
(* whatever paths and volumes the host's reports ask for.                  *)
THEOREM RouteCorrect == Spec => []RouteFollowsHeadset
<1>1. BridgeInv => RouteFollowsHeadset
  BY DEF BridgeInv, CoreInv, SessionInv, Routed, Heard, Latest, Way,
     RouteFollowsHeadset
<1> QED BY <1>1, Invariance, PTL

(* Sound of a stream the host has closed is never in the queue or in the   *)
(* extractor, however far the daemon is behind the host, as long as the    *)
(* driver dropped no setting of the interface.                             *)
THEOREM SoundFresh == Spec => []NoStaleAudio
<1>1. BridgeInv => NoStaleAudio
  <2> SUFFICES ASSUME BridgeInv, on, ~host.untold,
                      NEW s \in Range(port.chunks) \union {port.partial}
               PROVE  s \in {0, port.stream}
    BY DEF NoStaleAudio
  <2>1. frames \in Seq(Frames) /\ TellsOf(frames, port, host)
    BY DEF BridgeInv, TypeOK, QueueTypes, CoreInv, SessionInv
  <2>2. PICK e \in [0 .. Len(frames) -> Epochs] : Story(e, frames, port, host)
    BY <2>1 DEF TellsOf
  <2>3. SoundOf(port, {port.stream})
    BY <2>2 DEF Story, Knows
  <2> DEFINE Z == {port.stream} \union {0}
  <2>4. port.chunks \in Seq(Z) /\ port.partial \in Z
    BY <2>3 DEF SoundOf
  <2>5. s \in Z
    <3> HIDE DEF Z
    <3>1. \A i \in DOMAIN port.chunks : port.chunks[i] \in Z
      BY <2>4, LenProperties, ElementOfSeq
    <3> QED BY <2>4, <3>1 DEF Range
  <2> QED BY <2>5
<1> QED BY <1>1, Invariance, PTL

(* No feature request of the host is forgotten: unless the controller      *)
(* refused it, it is in the driver's queue or both remembered and on its   *)
(* way to an answer.                                                       *)
THEOREM RequestsKept == Spec => []RequestRemembered
<1>1. BridgeInv => RequestRemembered
  <2> SUFFICES ASSUME BridgeInv, NEW id \in host.want \ refused
               PROVE  \/ \E f \in Range(frames) : f.type = "feature_get" /\ f.id = id
                      \/ /\ Contains(port.asked, id)
                         /\ \/ Contains(asks, id)
                            \/ \E k \in Range(btctl) : k.type = "feature" /\ k.id = id
    BY DEF RequestRemembered
  <2>1. Remembered(id, frames, port.asked, asks, btctl)
    BY DEF BridgeInv, CoreInv, RequestInv
  <2>2. ASSUME NEW S, NEW q \in Seq(S), NEW a, Contains(q, a) PROVE a \in Range(q)
    <3>1. DOMAIN q = 1 .. Len(q)
      BY LenProperties
    <3> QED BY <2>2, <3>1 DEF Contains, Range
  <2>3. frames \in Seq(Frames) /\ btctl \in Seq(Answers)
    BY DEF BridgeInv, TypeOK, QueueTypes
  <2>4. /\ Ask(id).type = "feature_get" /\ Ask(id).id = id
        /\ Answer(id).type = "feature" /\ Answer(id).id = id
    BY DEF Ask, Answer
  <2> QED BY <2>1, <2>2, <2>3, <2>4 DEF Remembered
<1> QED BY <1>1, Invariance, PTL
=============================================================================
