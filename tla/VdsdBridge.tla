------------------------------ MODULE VdsdBridge ------------------------------
(***************************************************************************)
(* The bridge of the Linux daemon (src/platform/linux/vdsd.cc) for one     *)
(* virtual port: the frames of the driver are turned into Bluetooth        *)
(* reports of the controller, the controller's packets into frames.        *)
(*                                                                         *)
(* The daemon is one thread around epoll_wait.  It never blocks on the     *)
(* interrupt channel: a report the socket has no room for is either kept   *)
(* (the 0x31 state), dropped (an audio packet) or forgotten (a microphone  *)
(* report).  Each C++ function below is an operator on the record of what  *)
(* one handler changes (Handler), so that a handler is their composition   *)
(* and an exception skips what is left of it.                              *)
(*                                                                         *)
(* A controller state is abstracted to the part only the host sets (host), *)
(* the output path in its audio-control byte (route), and the microphone   *)
(* volume, mute LED and power-save bytes (mic), which the host's reports   *)
(* and the daemon's microphone reports both write.                         *)
(***************************************************************************)
EXTENDS Integers, Sequences, FiniteSets, SequencesExt

CONSTANTS
  Hosts,        \* values of the host's part of the controller state
  Host0,        \* its value in kInitialDsState
  HostReports,  \* the HID output reports of the host
  Features,     \* feature report ids
  InitialIds,   \* kInitialFeatureReportIds
  TestResult,   \* kTestCommandResultReportId
  MaxChunks,    \* kMaxPendingAudioChunks
  FreshChunks,  \* kFreshPendingAudioChunks
  Room,         \* packets the interrupt socket buffers
  MaxQueue,     \* frames the driver queues, and packets on their way in
  MaxOps,       \* bound on what the host and the controller do
  MaxSessions,  \* bound on the connections of the controller
  Scenarios,    \* sets of the kinds of traffic one behaviour mixes
  None

Sources == {"accept", "port", "control", "interrupt"}
Routes  == {"headphones", "speaker", "other"}
Mics    == {"initial", "open", "closed", "muted", "host"}
DsStates == [host: Hosts, route: Routes, mic: Mics]

(* vds_set_state_data: the host's part; the path of the audio-control byte *)
(* if the report allows it; whether it sets a speaker volume other than 0; *)
(* whether it sets a microphone volume, a mute light or the power saving.  *)
AllReports == [type: {"hid_out"}, host: Hosts, control: Routes \union {"none"},
               volume: BOOLEAN, mic: BOOLEAN]

ASSUME BridgeAssumption ==
  /\ Host0 \in Hosts /\ HostReports \subseteq AllReports /\ None \notin DsStates
  /\ InitialIds \subseteq Features /\ TestResult \in Features
  /\ FreshChunks \in Nat \ {0} /\ MaxChunks \in Nat /\ FreshChunks <= MaxChunks
  /\ Room \in Nat \ {0} /\ {MaxQueue, MaxOps, MaxSessions} \subseteq Nat
  /\ Scenarios \subseteq SUBSET {"stream", "mic", "hid", "feature", "test", "input"}

VARIABLES
  on,       \* the controller has a backend and the port is connected
  port,     \* VirtualPort
  tx,       \* free places in the interrupt socket
  ctrl,     \* the state the reports in the socket leave the controller in
  lost,     \* the link to the controller is gone
  calling,  \* the controller has opened new channels
  frames,   \* frames of the driver the daemon has not read
  btin,     \* interrupt packets the daemon has not read
  btctl,    \* packets of the control channel the daemon has not read
  asks,     \* feature requests the controller has not answered
  host,     \* the USB host: audio-out setting, waited-for feature ids, stream
            \* number, and whether the driver dropped an audio-out setting
  refused,  \* ids the controller answered with a handshake, not a report
  batch,    \* the sources epoll_wait returned that are still to be handled
  pc,       \* "wait" (epoll_wait) or "batch"
  left, sessions, \* what the bounds still allow
  kinds     \* the kinds of traffic of this behaviour

vars == <<on, port, tx, ctrl, lost, calling, frames, btin, btctl, asks, host, refused, batch,
          pc, left, sessions, kinds>>

linkVars == <<on, port, tx, ctrl, lost, frames, btin, btctl, asks, host, refused>>

InitialDsState == [host |-> Host0, route |-> "headphones", mic |-> "initial"]

(* reset_virtual_port: the port as a new session finds it.                 *)
FreshPort ==
  [state |-> InitialDsState, path |-> "headphones", \* DsOutputState
   last |-> None, pending |-> None,              \* last_sent_bt_state, pending_bt_state
   chunks |-> << >>, partial |-> 0,              \* pending_audio_chunks, extractor
   next |-> "unset",                             \* next_haptics_send_time
   audio_out |-> FALSE, audio_in |-> FALSE,
   muted |-> FALSE, mute_down |-> FALSE,
   headset |-> FALSE, headset_mic |-> FALSE,
   wave_selected |-> TRUE, wave |-> FALSE,
   cached |-> {}, asked |-> << >>,               \* feature_cached, pending_feature_reports
   stream |-> 0]  \* the host's stream the last interface frame was about

NoHost == [alt |-> 0, want |-> {}, stream |-> 0, untold |-> FALSE]

(* Before the controller first connects.  The driver's port is open and    *)
(* disconnected.                                                           *)
Init ==
  /\ on = FALSE /\ port = FreshPort
  /\ tx = Room /\ ctrl = InitialDsState /\ lost = FALSE /\ calling = FALSE
  /\ frames = << >> /\ btin = << >> /\ btctl = << >> /\ asks = << >>
  /\ host = NoHost /\ refused = {}
  /\ batch = {} /\ pc = "wait"
  /\ left = MaxOps /\ sessions = 0 /\ kinds \in Scenarios

(***************************************************************************)
(* What a handler changes: the port, the socket and the controller behind  *)
(* it, the requests sent on the control channel, the feature ids answered  *)
(* to the driver, and whether an exception was thrown.                     *)
(***************************************************************************)
Handler == [p |-> port, tx |-> tx, ctrl |-> ctrl, asks |-> asks, replies |-> {},
            threw |-> FALSE]

(* try_write_packet: sent, refused for want of room, or an exception.  A   *)
(* 0x31 or 0x36 report carries a whole state with its enable bits, and     *)
(* leaves the controller in it.                                            *)
Sendable(w) == ~w.threw /\ ~lost /\ w.tx > 0
try_send_output_report(w, c) ==
  IF w.threw THEN w
  ELSE IF lost THEN [w EXCEPT !.threw = TRUE]
  ELSE IF w.tx = 0 THEN w
  ELSE [w EXCEPT !.tx = @ - 1, !.ctrl = c]

flush_pending_bt_state_report(w) ==
  IF w.threw \/ w.p.pending = None THEN w
  ELSE LET sent == try_send_output_report(w, w.p.pending)
       IN  IF Sendable(w)
           THEN [sent EXCEPT !.p.last = w.p.pending, !.p.pending = None]
           ELSE sent

\* A deferred state is not replaced by a newer one.
MutantKeepOldest(w0) ==
  LET w == flush_pending_bt_state_report(w0)
      s == w.p.state
  IN  IF w.threw \/ w.p.pending # None THEN w
      ELSE IF w.p.last = s THEN [w EXCEPT !.p.pending = None]
      ELSE LET sent == try_send_output_report(w, s)
           IN  IF Sendable(w) THEN [sent EXCEPT !.p.last = s, !.p.pending = None]
               ELSE IF sent.threw THEN sent
               ELSE [sent EXCEPT !.p.pending = s]

forward_bt_state_if_changed(w0) ==
  LET w == flush_pending_bt_state_report(w0)
      s == w.p.state
  IN  IF w.threw THEN w
      ELSE IF w.p.last = s THEN [w EXCEPT !.p.pending = None]
      ELSE IF w.p.pending = s THEN w
      ELSE LET sent == try_send_output_report(w, s)
           IN  IF Sendable(w) THEN [sent EXCEPT !.p.last = s, !.p.pending = None]
               ELSE IF sent.threw THEN sent
               ELSE [sent EXCEPT !.p.pending = s]

(***************************************************************************)
(* DsOutputState.                                                          *)
(***************************************************************************)
(* A host report may name an output path, or a speaker volume, which puts  *)
(* the speaker into the state without changing the remembered path.        *)
apply_usb_output_report(p, r) ==
  LET path == IF r.control = "none" THEN p.path ELSE r.control
      kept == IF r.control = "none" THEN p.state.route ELSE path
  IN  [p EXCEPT !.path = path,
                !.state.host = r.host,
                !.state.mic = IF r.mic THEN "host" ELSE @,
                !.state.route = IF r.volume THEN "speaker" ELSE kept]

set_audio_out_stream_active(p, active) ==
  LET path == IF active /\ ~p.headset THEN "speaker" ELSE "headphones"
  IN  [p EXCEPT !.path = path, !.state.route = path]

MicState(audio_in, muted) ==
  IF muted THEN "muted" ELSE IF audio_in THEN "open" ELSE "closed"

(* The report is built, which changes the state, and sent at most once.    *)
build_bt_mic_state_report(p) ==
  [p EXCEPT !.state.mic = MicState(p.audio_in, p.muted), !.state.route = p.path]

SendMicState(w) ==
  LET p == build_bt_mic_state_report(w.p)
  IN  try_send_output_report([w EXCEPT !.p = p],
                             [w.ctrl EXCEPT !.mic = p.state.mic, !.route = p.path])

(* build_bt_mic_report (0x32) opens or closes the microphone stream; it    *)
(* carries none of the state above.                                        *)
SendMicOpen(w) == try_send_output_report(w, w.ctrl)

(***************************************************************************)
(* handle_frame: one frame of the driver.  A port without a backend still  *)
(* updates its own state.                                                  *)
(***************************************************************************)
Forward(w) == IF on THEN forward_bt_state_if_changed(w) ELSE w

\* The half-filled extractor survives the end of the stream.
MutantKeepExtractor(w, f) ==
  LET p == [w.p EXCEPT !.audio_out = f.alt # 0, !.stream = f.stream]
  IN  IF f.alt = 0 THEN [w EXCEPT !.p = [p EXCEPT !.chunks = << >>]]
      ELSE Forward([w EXCEPT !.p = set_audio_out_stream_active(p, TRUE)])

AudioOutInterface(w, f) ==
  LET p == [w.p EXCEPT !.audio_out = f.alt # 0, !.stream = f.stream]
  IN  IF f.alt = 0
      THEN [w EXCEPT !.p = [p EXCEPT !.chunks = << >>, !.partial = 0]]
      ELSE Forward([w EXCEPT !.p = set_audio_out_stream_active(p, TRUE)])

AudioInInterface(w, f) ==
  LET next == [w EXCEPT !.p.audio_in = f.alt # 0]
  IN  IF on THEN SendMicOpen(SendMicState(next)) ELSE next

\* The host's report is applied without restoring the stream's route.
MutantHostRoutes(w, f) == Forward([w EXCEPT !.p = apply_usb_output_report(w.p, f)])

HidOut(w, f) ==
  LET p == apply_usb_output_report(w.p, f)
      q == IF p.audio_out \/ p.wave THEN set_audio_out_stream_active(p, TRUE) ELSE p
  IN  Forward([w EXCEPT !.p = q])

send_feature_get(w, id) ==
  IF w.threw THEN w
  ELSE IF lost THEN [w EXCEPT !.threw = TRUE]
  ELSE [w EXCEPT !.asks = Append(@, id)]

\* A report that was asked for before is not asked for again.
MutantAskOnce(w, f) ==
  IF f.id \in w.p.cached THEN [w EXCEPT !.replies = @ \union {f.id}]
  ELSE IF on /\ ~Contains(w.p.asked, f.id)
  THEN send_feature_get([w EXCEPT !.p.asked = Append(@, f.id)], f.id)
  ELSE w

FeatureGet(w, f) ==
  IF f.id \in w.p.cached THEN [w EXCEPT !.replies = @ \union {f.id}]
  ELSE IF on THEN send_feature_get([w EXCEPT !.p.asked = Append(@, f.id)], f.id)
  ELSE w

cache_feature_report(w, id) ==
  [w EXCEPT !.p.cached = @ \union {id}, !.replies = @ \union {id}]

(* send_feature_set: no answer is awaited.                                 *)
send_feature_set(w) == IF on /\ lost THEN [w EXCEPT !.threw = TRUE] ELSE w

(* The WebHID test commands; the report itself goes to the controller too. *)
FeatureSet(w, f) ==
  LET c == cache_feature_report(w, TestResult)
      wave == f.command = "on" /\ w.p.wave_selected
      p == set_audio_out_stream_active([c.p EXCEPT !.wave = wave], wave)
      q == [p EXCEPT !.audio_out = wave, !.chunks = IF wave THEN @ ELSE << >>]
      d == CASE f.command \in {"speaker", "headphone"} ->
                  [c EXCEPT !.p.wave_selected = f.command = "speaker"]
             [] f.command \in {"on", "off"} -> Forward([c EXCEPT !.p = q])
             [] OTHER -> c
  IN  IF d.threw THEN d ELSE send_feature_set(d)

(* push_usb_audio: two halves of a window make a chunk, which takes the    *)
(* stream of its older half; a half without its other stays behind.        *)
push_usb_audio(partial, f) ==
  LET halves == (IF partial = 0 THEN << >> ELSE <<partial>>)
                \o [i \in 1 .. f.size |-> f.stream]
      n == Len(halves)
  IN  [chunks |-> [i \in 1 .. n \div 2 |-> halves[2 * i - 1]],
       partial |-> IF n % 2 = 1 THEN halves[n] ELSE 0]

(* The oldest chunk makes room for a new one.                              *)
Newest(q, n) == SubSeq(q, IF Len(q) > n THEN Len(q) - n + 1 ELSE 1, Len(q))

AudioOut(w, f) ==
  IF ~on THEN w
  ELSE LET x == push_usb_audio(w.p.partial, f)
       IN  [w EXCEPT !.p.chunks = Newest(@ \o x.chunks, MaxChunks),
                     !.p.partial = x.partial]

handle_frame(w, f) ==
  CASE f.type = "interface_out" -> AudioOutInterface(w, f)
    [] f.type = "interface_in"  -> AudioInInterface(w, f)
    [] f.type = "hid_out"       -> HidOut(w, f)
    [] f.type = "feature_get"   -> FeatureGet(w, f)
    [] f.type = "feature_set"   -> FeatureSet(w, f)
    [] f.type = "audio_out"     -> AudioOut(w, f)

(***************************************************************************)
(* handle_bt_input and handle_bt_control: one packet of the controller.    *)
(* Writing the input report or the decoded audio to the driver changes     *)
(* nothing here.                                                           *)
(***************************************************************************)
handle_bt_input(w, k) ==
  IF k.type = "audio" THEN w
  ELSE LET pressed == k.mute /\ ~w.p.mute_down
           mic_changed == k.headset_mic # w.p.headset_mic
           w1 == [w EXCEPT !.p.muted = IF pressed THEN ~@ ELSE @,
                           !.p.mute_down = k.mute, !.p.headset_mic = k.headset_mic]
           w2 == IF pressed \/ (mic_changed /\ w.p.audio_in) THEN SendMicState(w1) ELSE w1
           plugged == k.headset # w2.p.headset
           w3 == [w2 EXCEPT !.p.headset = k.headset]
           routed == w3.p.audio_out \/ w3.p.wave
       IN  IF w2.threw THEN w2
           ELSE IF plugged /\ routed
           THEN forward_bt_state_if_changed(
                  [w3 EXCEPT !.p = set_audio_out_stream_active(w3.p, TRUE)])
           ELSE w3

(* A handshake is not a report and is dropped.                             *)
handle_bt_control(w, k) ==
  IF k.type = "handshake" THEN w
  ELSE LET c == [w EXCEPT !.p.cached = @ \union {k.id}]
       IN  IF Contains(w.p.asked, k.id)
           THEN [c EXCEPT !.p.asked = RemoveFirst(@, k.id), !.replies = @ \union {k.id}]
           ELSE c

(***************************************************************************)
(* flush_pending_outputs: after every batch and every timeout.             *)
(***************************************************************************)
enqueue_speaker_waveout_chunk(p) ==
  IF p.wave /\ p.chunks = << >> THEN [p EXCEPT !.chunks = <<0>>] ELSE p

flush_pending_audio_chunk(w) ==
  IF w.threw \/ w.p.chunks = << >> \/ w.p.next = "future" THEN w
  ELSE LET fresh == Newest(w.p.chunks, FreshChunks)
           s == w.p.state
           sent == try_send_output_report(w, s)
       IN  IF sent.threw THEN sent
           ELSE IF Sendable(w)
           THEN [sent EXCEPT !.p.chunks = Tail(fresh), !.p.last = s, !.p.next = "future",
                             !.p.pending = IF @ = s THEN None ELSE @]
           ELSE [sent EXCEPT !.p.chunks = Tail(fresh), !.p.next = "future"]

flush_pending_outputs(w) ==
  LET f == flush_pending_bt_state_report(w)
  IN  IF ~on \/ f.threw \/ f.p.pending # None THEN f
      ELSE flush_pending_audio_chunk([f EXCEPT !.p = enqueue_speaker_waveout_chunk(f.p)])

(***************************************************************************)
(* A handler returns, or its exception drops the backend.                  *)
(***************************************************************************)
disconnect_virtual_port(p) ==
  [p EXCEPT !.chunks = << >>, !.next = "unset", !.audio_out = FALSE,
            !.audio_in = FALSE, !.muted = FALSE, !.mute_down = FALSE, !.wave = FALSE]

(* The ioctl empties the driver's queue; closing the channels drops what   *)
(* was on them.                                                            *)
drop_bt_backend(w) ==
  /\ on' = FALSE
  /\ port' = disconnect_virtual_port([w.p EXCEPT !.pending = None])
  /\ tx' = Room /\ ctrl' = InitialDsState /\ lost' = FALSE
  /\ frames' = << >> /\ btin' = << >> /\ btctl' = << >> /\ asks' = << >>
  /\ host' = [NoHost EXCEPT !.stream = host.stream] /\ refused' = {}

Keep(w) ==
  /\ port' = w.p /\ tx' = w.tx /\ ctrl' = w.ctrl /\ asks' = w.asks
  /\ host' = [host EXCEPT !.want = @ \ w.replies]
  /\ UNCHANGED <<on, lost, refused>>

(* epoll_wait returns every source that has something to read, with the    *)
(* hang-up it saw then.                                                    *)
Ready ==
  {s \in Sources : \/ s = "accept" /\ calling
                   \/ s = "port" /\ frames # << >>
                   \/ s = "control" /\ on /\ (btctl # << >> \/ lost)
                   \/ s = "interrupt" /\ on /\ (btin # << >> \/ lost)}

Wake ==
  /\ pc = "wait" /\ Ready # {}
  /\ batch' = [src: Ready, hup: {lost}] /\ pc' = "batch"
  /\ UNCHANGED <<linkVars, calling, left, sessions>>

(* Nothing to read, and the timeout passes: 0 to 2 ms with output pending, *)
(* a minute without.                                                       *)
Timeout ==
  /\ pc = "wait" /\ Ready = {}
  /\ LET w == flush_pending_outputs(Handler)
     IN  \/ w.threw /\ drop_bt_backend(w)
         \/ ~w.threw /\ Keep(w) /\ UNCHANGED <<frames, btin, btctl>>
  /\ UNCHANGED <<calling, batch, pc, left, sessions>>

(* handle_vds_frame: one frame; the loop goes on until the read finds none.*)
PortEvent ==
  \E e \in batch :
    /\ e.src = "port"
    /\ IF frames = << >>
       THEN batch' = batch \ {e} /\ UNCHANGED linkVars
       ELSE LET w == handle_frame(Handler, Head(frames))
            IN  \/ w.threw /\ drop_bt_backend(w) /\ batch' = batch \ {e}
                \/ /\ ~w.threw /\ Keep(w) /\ frames' = Tail(frames)
                   /\ UNCHANGED <<btin, btctl, batch>>
    /\ UNCHANGED <<calling, pc, left, sessions>>

(* The packets of a channel are read until there is none left; the end of  *)
(* file, or the hang-up that epoll_wait saw, drops whatever backend the    *)
(* controller has now.                                                     *)
ChannelEnd(e) ==
  /\ batch' = batch \ {e}
  /\ IF on /\ (lost \/ e.hup) THEN drop_bt_backend(Handler) ELSE UNCHANGED linkVars

ControlEvent ==
  \E e \in batch :
    /\ e.src = "control"
    /\ IF on /\ btctl # << >>
       THEN /\ Keep(handle_bt_control(Handler, Head(btctl)))
            /\ btctl' = Tail(btctl)
            /\ UNCHANGED <<frames, btin, batch>>
       ELSE ChannelEnd(e)
    /\ UNCHANGED <<calling, pc, left, sessions>>

InterruptEvent ==
  \E e \in batch :
    /\ e.src = "interrupt"
    /\ IF on /\ btin # << >>
       THEN LET w == handle_bt_input(Handler, Head(btin))
            IN  \/ w.threw /\ drop_bt_backend(w) /\ batch' = batch \ {e}
                \/ /\ ~w.threw /\ Keep(w) /\ btin' = Tail(btin)
                   /\ UNCHANGED <<frames, btctl, batch>>
       ELSE ChannelEnd(e)
    /\ UNCHANGED <<calling, pc, left, sessions>>

(* complete_pending_controller, with the daemon blocked in it: the port is *)
(* reset, the initial feature reports are fetched and cached, the initial  *)
(* state is sent.  A failure leaves the reset port without a backend.  A   *)
(* controller that has a backend is turned away.                           *)
AcceptEvent ==
  \E e \in batch :
    /\ e.src = "accept"
    /\ batch' = batch \ {e} /\ calling' = FALSE
    /\ \/ on /\ UNCHANGED <<on, port, tx>>
       \/ /\ ~on /\ on' = TRUE
          /\ port' = [FreshPort EXCEPT !.last = InitialDsState, !.cached = InitialIds]
          /\ tx' = Room - 1
       \/ ~on /\ port' = FreshPort /\ UNCHANGED <<on, tx>>
    /\ UNCHANGED <<ctrl, lost, frames, btin, btctl, asks, host, refused, pc, left,
                   sessions>>

EndBatch ==
  /\ pc = "batch" /\ batch = {}
  /\ pc' = "wait"
  /\ LET w == flush_pending_outputs(Handler)
     IN  \/ w.threw /\ drop_bt_backend(w)
         \/ ~w.threw /\ Keep(w) /\ UNCHANGED <<frames, btin, btctl>>
  /\ UNCHANGED <<calling, batch, left, sessions>>

Daemon ==
  /\ \/ Wake \/ Timeout \/ EndBatch
     \/ PortEvent \/ ControlEvent \/ InterruptEvent \/ AcceptEvent
  /\ UNCHANGED kinds

(***************************************************************************)
(* The environment: the USB host behind the driver, and the controller.    *)
(***************************************************************************)
envVars == <<on, port, batch, pc, sessions, kinds>>

(* vds_enqueue_frame: a full queue drops the frame.  The setting of an     *)
(* interface, a HID report and audio are lost unnoticed; a feature request *)
(* fails at the host.                                                      *)
HasRoom == Len(frames) < MaxQueue

SendFrame(kind, f) ==
  /\ kind \in kinds /\ on /\ left > 0
  /\ frames' = (IF HasRoom THEN Append(frames, f) ELSE frames)
  /\ left' = left - 1
  /\ UNCHANGED <<envVars, tx, ctrl, lost, calling, btin, btctl, asks>>

HostSetAudioOut(alt) ==
  LET n == IF alt = 1 /\ host.alt = 0 THEN host.stream + 1 ELSE host.stream
  IN  /\ SendFrame("stream", [type |-> "interface_out", alt |-> alt, stream |-> n])
      /\ host' = [host EXCEPT !.alt = alt, !.stream = n, !.untold = @ \/ ~HasRoom]
      /\ UNCHANGED refused

(* Isochronous URBs come one by one or in bursts.                          *)
HostAudio(size) ==
  /\ host.alt = 1
  /\ SendFrame("stream", [type |-> "audio_out", stream |-> host.stream, size |-> size])
  /\ UNCHANGED <<host, refused>>

HostSetAudioIn(alt) ==
  SendFrame("mic", [type |-> "interface_in", alt |-> alt]) /\ UNCHANGED <<host, refused>>

HostHidOut == \E r \in HostReports : SendFrame("hid", r) /\ UNCHANGED <<host, refused>>

(* At most one request for a report at a time: the control endpoint of the *)
(* device is serial.                                                       *)
HostFeatureGet(id) ==
  /\ host.want = {}
  /\ SendFrame("feature", [type |-> "feature_get", id |-> id])
  /\ IF HasRoom
     THEN host' = [host EXCEPT !.want = {id}] /\ refused' = refused \ {id}
     ELSE UNCHANGED <<host, refused>>

(* usb_control_msg times out.                                              *)
HostGivesUp ==
  /\ host.want # {} /\ host' = [host EXCEPT !.want = {}]
  /\ UNCHANGED <<envVars, tx, ctrl, lost, calling, frames, btin, btctl, asks, refused, left>>

TestCommands == {"speaker", "headphone", "on", "off", "other"}

HostTest == \E c \in TestCommands :
  SendFrame("test", [type |-> "feature_set", command |-> c]) /\ UNCHANGED <<host, refused>>

PeerInput(k) ==
  /\ "input" \in kinds /\ on /\ ~lost /\ left > 0 /\ Len(btin) < MaxQueue
  /\ btin' = Append(btin, k) /\ left' = left - 1
  /\ UNCHANGED <<envVars, tx, ctrl, lost, calling, frames, btctl, asks, host, refused>>

(* A headset plugs its microphone and its headphones in, or headphones     *)
(* only.                                                                   *)
Packets == {[type |-> "audio"]} \union
  {k \in [type: {"control"}, mute: BOOLEAN, headset: BOOLEAN, headset_mic: BOOLEAN] :
     k.headset_mic => k.headset /\ ~k.mute}

PeerAnswers ==
  /\ ~lost /\ asks # << >>
  /\ asks' = Tail(asks)
  /\ \/ /\ btctl' = Append(btctl, [type |-> "feature", id |-> Head(asks)])
        /\ UNCHANGED refused
     \/ /\ btctl' = Append(btctl, [type |-> "handshake"])
        /\ refused' = refused \union {Head(asks)}
  /\ UNCHANGED <<envVars, tx, ctrl, lost, calling, frames, btin, host, left>>

PeerTakes ==
  /\ ~lost /\ tx < Room /\ tx' = tx + 1
  /\ UNCHANGED <<envVars, ctrl, lost, calling, frames, btin, btctl, asks, host, refused, left>>

PeerLost ==
  /\ on /\ ~lost /\ lost' = TRUE
  /\ UNCHANGED <<envVars, tx, ctrl, calling, frames, btin, btctl, asks, host, refused, left>>

PeerCalls ==
  /\ ~calling /\ (~on \/ lost) /\ sessions < MaxSessions
  /\ calling' = TRUE /\ sessions' = sessions + 1
  /\ UNCHANGED <<on, port, batch, pc, kinds, tx, ctrl, lost, frames, btin, btctl, asks, host,
                 refused, left>>

(* 10 ms after an audio packet was sent, 2 ms after one was blocked.       *)
Tick ==
  /\ port.next = "future" /\ port' = [port EXCEPT !.next = "past"]
  /\ UNCHANGED <<on, batch, pc, sessions, kinds, tx, ctrl, lost, calling, frames, btin, btctl, asks,
                 host, refused, left>>

Environment ==
  \/ \E alt \in {0, 1} : HostSetAudioOut(alt) \/ HostSetAudioIn(alt)
  \/ \E size \in {1, 4} : HostAudio(size)
  \/ HostHidOut \/ HostGivesUp \/ HostTest
  \/ \E id \in Features : HostFeatureGet(id)
  \/ \E k \in Packets : PeerInput(k)
  \/ PeerAnswers \/ PeerTakes \/ PeerLost \/ PeerCalls \/ Tick

Next == Daemon \/ Environment

Spec == Init /\ [][Next]_vars

(***************************************************************************)
(* Properties.                                                             *)
(***************************************************************************)
PortType ==
  [state: DsStates, path: Routes, last: DsStates \union {None},
   pending: DsStates \union {None}, chunks: Seq(Nat), partial: Nat,
   next: {"unset", "future", "past"}, audio_out: BOOLEAN, audio_in: BOOLEAN,
   muted: BOOLEAN, mute_down: BOOLEAN, headset: BOOLEAN, headset_mic: BOOLEAN,
   wave_selected: BOOLEAN, wave: BOOLEAN, cached: SUBSET Features,
   asked: Seq(Features), stream: Nat]

HostType == [alt: {0, 1}, want: SUBSET Features, stream: Nat, untold: BOOLEAN]

Frames ==
  [type: {"interface_out"}, alt: {0, 1}, stream: Nat]
  \union [type: {"interface_in"}, alt: {0, 1}]
  \union HostReports
  \union [type: {"feature_get"}, id: Features]
  \union [type: {"feature_set"}, command: TestCommands]
  \union [type: {"audio_out"}, stream: Nat, size: Nat]

Answers == [type: {"feature"}, id: Features] \union [type: {"handshake"}]

LinkTypes ==
  /\ on \in BOOLEAN /\ lost \in BOOLEAN
  /\ port \in PortType /\ Len(port.chunks) <= MaxChunks
  /\ tx \in 0 .. Room /\ ctrl \in DsStates
  /\ asks \in Seq(Features) /\ refused \subseteq Features
  /\ host \in HostType

QueueTypes ==
  frames \in Seq(Frames) /\ btin \in Seq(Packets) /\ btctl \in Seq(Answers)

LoopTypes ==
  /\ calling \in BOOLEAN /\ kinds \in Scenarios
  /\ batch \subseteq [src: Sources, hup: BOOLEAN] /\ pc \in {"wait", "batch"}
  /\ left \in 0 .. MaxOps /\ sessions \in 0 .. MaxSessions

(* Type invariant; the queue of audio chunks keeps its bound.              *)
TypeOK == LinkTypes /\ QueueTypes /\ LoopTypes

(* What the host asked the controller to do last is either what the        *)
(* controller was told last or waiting to be told, whatever was blocked,   *)
(* coalesced, skipped as unchanged or carried by an audio packet           *)
(* (forward_bt_state_if_changed and the flushes).                          *)
NewestStateKept ==
  on => (IF port.pending = None THEN ctrl ELSE port.pending).host = port.state.host

(* While the daemon plays a stream, everything it tells the controller     *)
(* sends the sound to the headset if one is plugged and to the speaker if  *)
(* not, whatever path or volume the host's reports ask for: the remembered *)
(* path, which the microphone reports carry; the state, which every audio  *)
(* packet carries; and the last state report, sent or pending              *)
(* (set_audio_out_stream_active and forward_bt_state_if_changed after      *)
(* every change).  A microphone report sent before the stream may have     *)
(* left the controller on another path than last_sent_bt_state says; only  *)
(* the first audio packet then puts it right.                              *)
RouteFollowsHeadset ==
  on /\ (port.audio_out \/ port.wave) =>
    LET route == IF port.headset THEN "headphones" ELSE "speaker"
    IN  /\ port.path = route /\ port.state.route = route
        /\ (IF port.pending = None THEN port.last ELSE port.pending).route = route

(* Sound of a stream the host has closed is never queued: closing empties  *)
(* the chunk queue and the half-filled extractor (handle_frame).  The      *)
(* exception is a setting of the interface that the driver's full queue    *)
(* dropped: the daemon never heard of it.                                  *)
NoStaleAudio ==
  on /\ ~host.untold =>
    \A s \in Range(port.chunks) \union {port.partial} : s \in {0, port.stream}

(* A feature request of the host is in the driver's queue, or is one the   *)
(* daemon remembers and the controller is about to answer, unless the      *)
(* controller refused it: none is forgotten (FeatureGet, handle_bt_control)*)
RequestRemembered ==
  \A id \in host.want \ refused :
    \/ \E f \in Range(frames) : f.type = "feature_get" /\ f.id = id
    \/ /\ Contains(port.asked, id)
       /\ \/ Contains(asks, id)
          \/ \E k \in Range(btctl) : k.type = "feature" /\ k.id = id
===============================================================================
