------------------------------ MODULE VdsUsbip ------------------------------
(***************************************************************************)
(* One USB/IP virtual port of the Windows daemon                           *)
(* (src/platform/win32/vds_usbip.cc, VirtualPort::Impl).                   *)
(*                                                                         *)
(* The port is a USB/IP server on a loopback socket and the server end of  *)
(* a named pipe to the bridge session of vdsd.  Its threads are            *)
(*   - tcp_thread, which accepts the usbip-win2 client and serves its      *)
(*     commands one after the other (tcp_server_loop,                      *)
(*     handle_import_session, handle_cmd_submit);                          *)
(*   - pipe_reader_thread, which sorts the daemon's frames into queues;    *)
(*   - iso_pacer_thread, which sends audio replies when they are due;      *)
(*   - the bridge session, which opens the pipe once and in the end        *)
(*     destroys the port (stop).                                           *)
(* The client connects, submits and unlinks commands, and may vanish and   *)
(* connect again.  A member of Cmds is one CMD_SUBMIT, named by its seqnum.*)
(***************************************************************************)
EXTENDS Naturals, FiniteSets, Lists

CONSTANTS
    Cmds,         \* CMD_SUBMIT requests
    Reports,      \* feature report ids
    Handles,      \* values a SOCKET can have
    NoCmd, NoReport, NoSock,
    HidMax,       \* bound of hid_in_queue (8 in pipe_reader_loop)
    IsoTicks,     \* number_of_packets of an audio URB, in milliseconds
    StaleTicks,   \* 250 ms: an older pacing anchor is reset
    Scenarios,    \* bounds of one behaviour: what the client submits, its
                  \* connections, the input reports the daemon writes, and
                  \* the tick up to which the clock runs freely
    Unlinks       \* does the client unlink what it submitted?

AllKinds == {"getReport", "forward", "local", "hidIn", "isoOut", "isoIn"}
IsoKinds == {"isoOut", "isoIn"}

ASSUME CmdsFinite == IsFiniteSet(Cmds)
ASSUME ScenariosKnown ==
    Scenarios \subseteq
        [kinds : SUBSET AllKinds, imports : Nat, inputs : Nat, time : Nat]
ASSUME NoneDistinct ==
    NoCmd \notin Cmds /\ NoReport \notin Reports /\ NoSock \notin Handles
ASSUME BoundsNat ==
    /\ HidMax \in Nat \ {0} /\ IsoTicks \in Nat \ {0} /\ StaleTicks \in Nat
ASSUME FlagsBoolean == Unlinks \in BOOLEAN

VARIABLES
    (* The client: its connection and its commands.                        *)
    imports,    \* connections made; also the number of the current one
    peer,       \* "none", "backlog" (not yet accepted), "open", "closed"
    inbound,    \* commands on their way to the server
    kind, rid, st, sess,   \* per command: kind, report, progress, connection
    answer,     \* report of the data a GET_REPORT was answered with
    acked,      \* commands whose CMD_UNLINK was answered
    (* tcp_thread.                                                         *)
    tcpPc, cur,
    sock,       \* the accepted SOCKET
    published,  \* client_socket holds it
    shut,       \* shutdown(SD_BOTH) has been called on it
    (* The pipe and its two ends.                                          *)
    pipe,       \* "listening", "opened", "disconnected"
    daemon,     \* "starting", "open", "closed"
    toDaemon,   \* FEATURE_GET frames the daemon has not answered
    toHost,     \* frames the reader has not read
    inputs,     \* input reports written by the daemon
    readerPc,
    hidQueue, featQueue,
    seen,       \* stamp of the newest input report the host has received
    (* The pacer.                                                          *)
    pacerPc, inHand,
    alarm,      \* when its wait_until expires, 0 when it waits for a notify
    paced,      \* paced_replies: commands by due time
    due,        \* due time of each paced command
    sockOf,     \* the SOCKET stored with it
    anchor,     \* iso_out_next_due, iso_in_next_due
    paceLog,    \* history: paced commands in the order of submission
    (* stop(), the socket mutex and the clock.                             *)
    stopPc, stopReq, poked,
    sending,    \* tcp_thread holds socket_send_mutex inside a message
    torn,       \* history: replies the pacer sent inside another message
    late,       \* history: a GET gave up while its answer was under way
    now,
    scenario

clientVars == <<imports, peer, inbound, kind, rid, st, sess, answer, acked>>
tcpVars == <<tcpPc, cur, sock, published, shut, sending>>
pipeVars == <<pipe, daemon, toDaemon, toHost, inputs>>
readerVars == <<readerPc, hidQueue, featQueue>>
pacerVars == <<pacerPc, inHand, alarm, paced, due, sockOf, anchor, paceLog>>
stopVars == <<stopPc, stopReq, poked>>
histVars == <<seen, torn, late>>
vars == <<clientVars, tcpVars, pipeVars, readerVars, pacerVars, stopVars,
          histVars, now, scenario>>

(* A frame of the daemon: an input report with its stamp, or a reply.      *)
InputFrame(n) == [type |-> "HID_IN", stamp |-> n, rid |-> NoReport]
ReplyFrame(r) == [type |-> "FEATURE_REPLY", stamp |-> 0, rid |-> r]

Ops == [op : {"submit", "unlink"}, cmd : Cmds]

Init ==
    /\ imports = 0 /\ peer = "none" /\ inbound = <<>>
    /\ kind = [c \in Cmds |-> "local"]
    /\ rid = [c \in Cmds |-> NoReport]
    /\ st = [c \in Cmds |-> "new"]
    /\ sess = [c \in Cmds |-> 0]
    /\ answer = [c \in Cmds |-> NoReport]
    /\ acked = {}
    /\ tcpPc = "accept" /\ cur = NoCmd /\ sock = NoSock
    /\ published = FALSE /\ shut = FALSE /\ sending = FALSE
    /\ pipe = "listening" /\ daemon = "starting"
    /\ toDaemon = <<>> /\ toHost = <<>> /\ inputs = 0
    /\ readerPc = "none" /\ hidQueue = <<>> /\ featQueue = <<>>
    /\ pacerPc = "lock" /\ inHand = NoCmd /\ alarm = 0 /\ paced = <<>>
    /\ due = [c \in Cmds |-> 0]
    /\ sockOf = [c \in Cmds |-> NoSock]
    /\ anchor = [k \in IsoKinds |-> 0]
    /\ paceLog = <<>>
    /\ stopPc = "idle" /\ stopReq = FALSE /\ poked = FALSE
    /\ seen = 0 /\ torn = {} /\ late = FALSE
    /\ now = 1 /\ scenario \in Scenarios

(* tcp_thread has not yet sent all of its answer to the client's request.  *)
Greeting == tcpPc \in {"publish", "header", "import", "device", "devlist",
                       "devices"}

-----------------------------------------------------------------------------
(* The usbip-win2 client, as the server sees it.                           *)

(* It connects and sends OP_REQ_IMPORT; it reconnects by itself.           *)
ClientConnect ==
    /\ peer = "none" /\ imports < scenario.imports
    /\ imports' = imports + 1
    /\ peer' = "backlog" /\ inbound' = <<>>
    /\ UNCHANGED <<kind, rid, st, sess, answer, acked, tcpVars, pipeVars,
                   readerVars, pacerVars, stopVars, histVars, now, scenario>>

(* It submits once it has the whole OP_REP_IMPORT.                         *)
ClientSubmit(c, k, r) ==
    /\ peer = "open" /\ st[c] = "new"
    /\ ~Greeting /\ tcpPc # "close"
    /\ k \in scenario.kinds /\ (k = "getReport" <=> r # NoReport)
    /\ inbound' = Append(inbound, [op |-> "submit", cmd |-> c])
    /\ kind' = [kind EXCEPT ![c] = k]
    /\ rid' = [rid EXCEPT ![c] = r]
    /\ st' = [st EXCEPT ![c] = "sent"]
    /\ sess' = [sess EXCEPT ![c] = imports]
    /\ UNCHANGED <<imports, peer, answer, acked, tcpVars, pipeVars,
                   readerVars, pacerVars, stopVars, histVars, now, scenario>>

(* A request the client gives up before it has the reply.                  *)
ClientUnlink(c) ==
    /\ Unlinks /\ peer = "open"
    /\ st[c] = "sent" /\ sess[c] = imports
    /\ [op |-> "unlink", cmd |-> c] \notin ToSet(inbound)
    /\ inbound' = Append(inbound, [op |-> "unlink", cmd |-> c])
    /\ UNCHANGED <<imports, peer, kind, rid, st, sess, answer, acked, tcpVars,
                   pipeVars, readerVars, pacerVars, stopVars, histVars,
                   now, scenario>>

(* It vanishes: what is still in the socket buffer is lost.                *)
ClientClose ==
    /\ peer \in {"backlog", "open"}
    /\ peer' = "closed" /\ inbound' = <<>>
    /\ UNCHANGED <<imports, kind, rid, st, sess, answer, acked, tcpVars,
                   pipeVars, readerVars, pacerVars, stopVars, histVars,
                   now, scenario>>

-----------------------------------------------------------------------------
(* tcp_server_loop.                                                        *)

(* recv and send fail; a frame cannot be written to the pipe.              *)
SocketDead == shut \/ peer = "closed"
PipeDead == pipe # "opened" \/ daemon # "open"

(* while (!stop_requested)                                                 *)
LoopTop == IF stopReq THEN "exited" ELSE "accept"
ServeTop == IF stopReq THEN "clear" ELSE "recv"

(* accept returns the client; its handle may be one that was used before.  *)
Accept(h) ==
    /\ tcpPc = "accept" /\ peer = "backlog"
    /\ sock' = h /\ shut' = FALSE
    /\ peer' = "open"
    /\ tcpPc' = "publish"
    /\ UNCHANGED <<imports, inbound, kind, rid, st, sess, answer, acked, cur,
                   published, sending, pipeVars, readerVars, pacerVars,
                   stopVars, histVars, now, scenario>>

(* accept returns the throwaway connection of stop(), or a client that has *)
(* closed again: recv_exact of its header fails.                           *)
AcceptDead ==
    /\ tcpPc = "accept"
    /\ poked \/ (peer = "closed" /\ sock = NoSock)
    /\ tcpPc' = LoopTop
    /\ poked' = FALSE
    /\ peer' = IF poked THEN peer ELSE "none"
    /\ UNCHANGED <<imports, inbound, kind, rid, st, sess, answer, acked, cur,
                   sock, published, shut, sending, pipeVars, readerVars,
                   pacerVars, stopPc, stopReq, histVars, now, scenario>>

(* client_socket = client.get(), so that stop() can shut it down ...       *)
Publish ==
    /\ tcpPc = "publish"
    /\ published' = TRUE
    /\ tcpPc' = "header"
    /\ UNCHANGED <<clientVars, cur, sock, shut, sending, pipeVars, readerVars,
                   pacerVars, stopVars, histVars, now, scenario>>

(* ... then recv_exact of the request: OP_REQ_IMPORT with its busid, or    *)
(* OP_REQ_DEVLIST.                                                         *)
ReceiveHeader(code) ==
    /\ tcpPc = "header"
    /\ tcpPc' = IF SocketDead THEN "close" ELSE code
    /\ UNCHANGED <<clientVars, cur, sock, published, shut, sending, pipeVars,
                   readerVars, pacerVars, stopVars, histVars, now, scenario>>

(* A message of several sends, none of which takes socket_send_mutex, goes *)
(* out up to its last send: the header of OP_REP_IMPORT, and the first     *)
(* three sends of OP_REP_DEVLIST.                                          *)
SendUnlocked(at, next) ==
    /\ tcpPc = at /\ tcpPc' = next
    /\ UNCHANGED <<clientVars, cur, sock, published, shut, sending, pipeVars,
                   readerVars, pacerVars, stopVars, histVars, now, scenario>>

ImportHeader == SendUnlocked("import", "device")
Devlist == SendUnlocked("devlist", "devices")

(* The interface table ends OP_REP_DEVLIST; the client is done.            *)
DevlistEnd == SendUnlocked("devices", "close")

(* The device record ends OP_REP_IMPORT; handle_import_session goes on to  *)
(* ConnectNamedPipe: a pipe that was disconnected listens again.           *)
Listen ==
    /\ tcpPc = "device"
    /\ pipe' = IF pipe = "disconnected" THEN "listening" ELSE pipe
    /\ tcpPc' = "connect"
    /\ UNCHANGED <<clientVars, cur, sock, published, shut, sending, daemon,
                   toDaemon, toHost, inputs, readerVars, pacerVars, stopVars,
                   histVars, now, scenario>>

(* ConnectNamedPipe returns once the daemon has opened the pipe.  The      *)
(* reader is started at most once per port: "assigning over a still-       *)
(* joinable std::thread calls std::terminate()".                           *)
ConnectPipe ==
    /\ tcpPc = "connect" /\ pipe = "opened"
    /\ IF daemon = "open"
       THEN /\ readerPc' = IF readerPc = "none" THEN "reading" ELSE readerPc
            /\ tcpPc' = ServeTop
       ELSE /\ tcpPc' = "close"
            /\ UNCHANGED readerPc
    /\ UNCHANGED <<clientVars, cur, sock, published, shut, sending, pipeVars,
                   hidQueue, featQueue, pacerVars, stopVars, histVars,
                   now, scenario>>

-----------------------------------------------------------------------------
(* The command loop of handle_import_session, and handle_cmd_submit.       *)

(* recv_exact takes the next command c from the socket.                    *)
Receive(op, c) ==
    /\ tcpPc = "recv" /\ ~SocketDead
    /\ inbound # <<>> /\ Head(inbound) = [op |-> op, cmd |-> c]
    /\ inbound' = Tail(inbound)

(* recv_exact fails.                                                       *)
ReceiveFails ==
    /\ tcpPc = "recv" /\ SocketDead
    /\ tcpPc' = "clear"
    /\ UNCHANGED <<clientVars, cur, sock, published, shut, sending, pipeVars,
                   readerVars, pacerVars, stopVars, histVars, now, scenario>>

(* CMD_UNLINK: acknowledged, nothing is looked up.                         *)
ReceiveUnlink(c) ==
    /\ Receive("unlink", c)
    /\ acked' = acked \cup {c}
    /\ tcpPc' = ServeTop
    /\ UNCHANGED <<imports, peer, kind, rid, st, sess, answer, cur, sock,
                   published, shut, sending, pipeVars, readerVars, pacerVars,
                   stopVars, histVars, now, scenario>>

(* The request is forwarded as a frame, which throws when the pipe is      *)
(* gone, or is answered on the spot.  Only FEATURE_GET frames ask the      *)
(* daemon for anything.                                                    *)
Forwards(c) == kind[c] \in {"getReport", "forward", "isoOut"}

ReceiveSubmit(c) ==
    /\ Receive("submit", c)
    /\ cur' = c
    /\ IF Forwards(c) /\ PipeDead
       THEN /\ tcpPc' = "clear"
            /\ UNCHANGED toDaemon
       ELSE /\ tcpPc' = CASE kind[c] = "getReport" -> "feature"
                          [] kind[c] = "hidIn" -> "hid"
                          [] OTHER -> "reply"
            /\ toDaemon' = IF kind[c] = "getReport" THEN Append(toDaemon, c)
                                                    ELSE toDaemon
    /\ UNCHANGED <<imports, peer, kind, rid, st, sess, answer, acked, sock,
                   published, shut, sending, pipe, daemon, toHost, inputs,
                   readerVars, pacerVars, stopVars, histVars, now, scenario>>

(* Mutant: the reply is read and stays in the queue.                       *)
TakeReplyKeeps ==
    /\ tcpPc = "feature" /\ featQueue # <<>>
    /\ answer' = [answer EXCEPT ![cur] = Head(featQueue)]
    /\ tcpPc' = "reply"
    /\ UNCHANGED <<imports, peer, inbound, kind, rid, st, sess, acked, cur,
                   sock, published, shut, sending, pipeVars, readerVars,
                   pacerVars, stopVars, histVars, now, scenario>>

(* wait_for_feature_reply: whatever reply is first in the queue ...        *)
TakeReply ==
    /\ tcpPc = "feature" /\ featQueue # <<>>
    /\ answer' = [answer EXCEPT ![cur] = Head(featQueue)]
    /\ featQueue' = Tail(featQueue)
    /\ tcpPc' = "reply"
    /\ UNCHANGED <<imports, peer, inbound, kind, rid, st, sess, acked, cur,
                   sock, published, shut, sending, pipeVars, readerPc,
                   hidQueue, pacerVars, stopVars, histVars, now, scenario>>

(* An answer the daemon still works on, or which is in the pipe.           *)
AnswerUnderWay ==
    /\ ~PipeDead
    /\ \/ toDaemon # <<>>
       \/ \E i \in DOMAIN toHost : toHost[i].type = "FEATURE_REPLY"

(* ... or none after 500 ms, or at once when the port stops.  The daemon   *)
(* reads an uncached report from the controller, which has no time limit:  *)
(* its answer may come later than that.                                    *)
ReplyTimeout ==
    /\ tcpPc = "feature" /\ featQueue = <<>>
    /\ tcpPc' = "reply"
    /\ late' = (late \/ AnswerUnderWay)
    /\ UNCHANGED <<clientVars, cur, sock, published, shut, sending, pipeVars,
                   readerVars, pacerVars, stopVars, seen, torn, now, scenario>>

(* wait_for_hid_in_frame: the oldest queued report, or none after 50 ms.   *)
TakeInput ==
    /\ tcpPc = "hid" /\ hidQueue # <<>>
    /\ seen' = Head(hidQueue)
    /\ hidQueue' = Tail(hidQueue)
    /\ tcpPc' = "reply"
    /\ UNCHANGED <<clientVars, cur, sock, published, shut, sending, pipeVars,
                   readerPc, featQueue, pacerVars, stopVars, torn, late,
                   now, scenario>>

InputTimeout ==
    /\ tcpPc = "hid" /\ hidQueue = <<>>
    /\ tcpPc' = "reply"
    /\ UNCHANGED <<clientVars, cur, sock, published, shut, sending, pipeVars,
                   readerVars, pacerVars, stopVars, histVars, now, scenario>>

(* Mutant: input replies are paced as well.                                *)
PacedKindInputs(k) == k \in IsoKinds \cup {"hidIn"}

(* pace_out || pace_in                                                     *)
PacedKind(k) == k \in IsoKinds

(* The RET_SUBMIT header, under socket_send_mutex ...                      *)
ReplyHeader ==
    /\ tcpPc = "reply" /\ ~PacedKind(kind[cur]) /\ ~sending
    /\ IF SocketDead
       THEN /\ tcpPc' = "clear"
            /\ UNCHANGED sending
       ELSE /\ tcpPc' = "body"
            /\ sending' = TRUE
    /\ UNCHANGED <<clientVars, cur, sock, published, shut, pipeVars,
                   readerVars, pacerVars, stopVars, histVars, now, scenario>>

(* ... and its data.                                                       *)
ReplyBody ==
    /\ tcpPc = "body"
    /\ sending' = FALSE
    /\ IF SocketDead
       THEN /\ tcpPc' = "clear"
            /\ UNCHANGED st
       ELSE /\ tcpPc' = ServeTop
            /\ st' = [st EXCEPT ![cur] = "replied"]
    /\ UNCHANGED <<imports, peer, inbound, kind, rid, sess, answer, acked,
                   cur, sock, published, shut, pipeVars, readerVars,
                   pacerVars, stopVars, histVars, now, scenario>>

(* Which of the two anchors: pace_out ? iso_out_next_due : iso_in_next_due *)
Direction(k) == IF k = "isoOut" THEN "isoOut" ELSE "isoIn"

(* The due time of the next reply of direction k: the anchor, unless the   *)
(* stream pauses or starts.                                                *)
DueTime(k) ==
    IF anchor[k] = 0 \/ anchor[k] + StaleTicks < now THEN now ELSE anchor[k]

(* Mutant: the multimap is ordered by greater: the latest reply comes first.*)
PaceSlotGreater(t, i) ==
    /\ \A j \in 1 .. i - 1 : due[paced[j]] >= t
    /\ i <= Len(paced) => due[paced[i]] < t

(* emplace into the multimap: after the entries due no later.              *)
PaceSlot(t, i) ==
    /\ \A j \in 1 .. i - 1 : due[paced[j]] <= t
    /\ i <= Len(paced) => due[paced[i]] > t

(* Mutant: the pacer is not notified.                                      *)
NotifiedNever == pacerPc

(* notify_all on pacer_cv: a waiting pacer goes for the mutex.             *)
Notified == IF pacerPc = "waiting" THEN "lock" ELSE pacerPc

(* An audio reply is handed to the pacer, under pacer_mutex.               *)
Pace ==
    /\ tcpPc = "reply" /\ PacedKind(kind[cur])
    /\ pacerPc # "decided"
    /\ LET k == Direction(kind[cur])
           t == DueTime(k)
       IN /\ due' = [due EXCEPT ![cur] = t]
          /\ anchor' = [anchor EXCEPT ![k] = t + IsoTicks]
          /\ \E i \in 1 .. Len(paced) + 1 :
                /\ PaceSlot(t, i)
                /\ paced' = Splice(paced, i, <<cur>>)
    /\ sockOf' = [sockOf EXCEPT ![cur] = sock]
    /\ paceLog' = Append(paceLog, cur)
    /\ pacerPc' = Notified
    /\ tcpPc' = ServeTop
    /\ UNCHANGED <<clientVars, cur, sock, published, shut, sending, pipeVars,
                   readerVars, inHand, alarm, stopVars, histVars,
                   now, scenario>>

(* The session is over: attached = false, and the replies that are not yet *)
(* sent are dropped ...                                                    *)
ClearPaced ==
    /\ tcpPc = "clear" /\ pacerPc # "decided"
    /\ paced' = <<>>
    /\ anchor' = [k \in IsoKinds |-> 0]
    /\ tcpPc' = "disconnect"
    /\ UNCHANGED <<clientVars, cur, sock, published, shut, sending, pipeVars,
                   readerVars, pacerPc, inHand, alarm, due, sockOf, paceLog,
                   stopVars, histVars, now, scenario>>

(* ... DisconnectNamedPipe discards what is in the pipe ...                *)
DisconnectPipe ==
    /\ tcpPc = "disconnect"
    /\ pipe' = "disconnected"
    /\ toDaemon' = <<>> /\ toHost' = <<>>
    /\ tcpPc' = "close"
    /\ UNCHANGED <<clientVars, cur, sock, published, shut, sending, daemon,
                   inputs, readerVars, pacerVars, stopVars, histVars,
                   now, scenario>>

(* ... and the guard and the Socket leave their scope.                     *)
CloseSocket ==
    /\ tcpPc = "close"
    /\ sock' = NoSock /\ published' = FALSE /\ cur' = NoCmd
    /\ peer' = "none" /\ inbound' = <<>>
    /\ tcpPc' = LoopTop
    /\ UNCHANGED <<imports, kind, rid, st, sess, answer, acked, shut, sending,
                   pipeVars, readerVars, pacerVars, stopVars, histVars,
                   now, scenario>>

-----------------------------------------------------------------------------
(* pipe_reader_loop.                                                       *)

(* Mutant: the newest report is dropped, not the oldest.                   *)
PushInputDropNewest(q, n) == IF Len(q) < HidMax THEN Append(q, n) ELSE q

(* Push, then drop the oldest report when there are more than HidMax.      *)
PushInput(q, n) ==
    IF Len(q) < HidMax THEN Append(q, n) ELSE Tail(Append(q, n))

(* A frame is read and sorted into its queue; after stop() it is dropped.  *)
ReadFrame ==
    /\ readerPc = "reading" /\ pipe = "opened" /\ toHost # <<>>
    /\ toHost' = Tail(toHost)
    /\ LET frame == Head(toHost)
       IN IF stopReq
          THEN readerPc' = "exited" /\ UNCHANGED <<hidQueue, featQueue>>
          ELSE /\ hidQueue' = IF frame.type = "HID_IN"
                              THEN PushInput(hidQueue, frame.stamp)
                              ELSE hidQueue
               /\ featQueue' = IF frame.type = "FEATURE_REPLY"
                               THEN Append(featQueue, frame.rid)
                               ELSE featQueue
               /\ UNCHANGED readerPc
    /\ UNCHANGED <<clientVars, tcpVars, pipe, daemon, toDaemon, inputs,
                   pacerVars, stopVars, histVars, now, scenario>>

(* The read throws: the pipe is disconnected, the daemon has closed it, or *)
(* stop() cancels.                                                         *)
ReaderExit ==
    /\ readerPc = "reading"
    /\ \/ pipe # "opened"
       \/ daemon = "closed" /\ toHost = <<>>
       \/ stopPc = "reader"
    /\ readerPc' = "exited"
    /\ UNCHANGED <<clientVars, tcpVars, pipeVars, hidQueue, featQueue,
                   pacerVars, stopVars, histVars, now, scenario>>

-----------------------------------------------------------------------------
(* The bridge session of vdsd, on the other end of the pipe.               *)

(* open_device, once per port.                                             *)
DaemonOpen ==
    /\ daemon = "starting" /\ pipe = "listening"
    /\ daemon' = "open" /\ pipe' = "opened"
    /\ UNCHANGED <<clientVars, tcpVars, toDaemon, toHost, inputs, readerVars,
                   pacerVars, stopVars, histVars, now, scenario>>

(* bluetooth_to_virtual_loop forwards an input report.                     *)
DaemonInput ==
    /\ ~PipeDead /\ inputs < scenario.inputs
    /\ inputs' = inputs + 1
    /\ toHost' = Append(toHost, InputFrame(inputs + 1))
    /\ UNCHANGED <<clientVars, tcpVars, pipe, daemon, toDaemon, readerVars,
                   pacerVars, stopVars, histVars, now, scenario>>

(* virtual_to_bluetooth_loop answers FEATURE_GET frames in order, at once  *)
(* from its cache or when the controller has delivered the report, or not  *)
(* at all when that fails.                                                 *)
DaemonAnswer(answered) ==
    /\ ~PipeDead /\ toDaemon # <<>>
    /\ toDaemon' = Tail(toDaemon)
    /\ toHost' = IF answered
                 THEN Append(toHost, ReplyFrame(rid[Head(toDaemon)]))
                 ELSE toHost
    /\ UNCHANGED <<clientVars, tcpVars, pipe, daemon, inputs, readerVars,
                   pacerVars, stopVars, histVars, now, scenario>>

(* The session ends and closes its handle before it destroys the port.     *)
DaemonClose ==
    /\ daemon = "open"
    /\ daemon' = "closed"
    /\ UNCHANGED <<clientVars, tcpVars, pipe, toDaemon, toHost, inputs,
                   readerVars, pacerVars, stopVars, histVars, now, scenario>>

-----------------------------------------------------------------------------
(* iso_pacer_loop.                                                         *)

(* With pacer_mutex held, the loop condition is read.                      *)
PacerCheck ==
    /\ pacerPc = "lock"
    /\ pacerPc' = IF stopReq THEN "exited" ELSE "decided"
    /\ UNCHANGED <<clientVars, tcpVars, pipeVars, readerVars, inHand, alarm,
                   paced, due, sockOf, anchor, paceLog, stopVars, histVars,
                   now, scenario>>

(* Nothing is due: wait, or wait_until the head is.  Both release the      *)
(* mutex.                                                                  *)
PacerWait ==
    /\ pacerPc = "decided"
    /\ paced # <<>> => due[Head(paced)] > now
    /\ alarm' = IF paced = <<>> THEN 0 ELSE due[Head(paced)]
    /\ pacerPc' = "waiting"
    /\ UNCHANGED <<clientVars, tcpVars, pipeVars, readerVars, inHand, paced,
                   due, sockOf, anchor, paceLog, stopVars, histVars,
                   now, scenario>>

(* wait_until expires, even when its entry has been dropped.               *)
PacerTimer ==
    /\ pacerPc = "waiting" /\ alarm # 0 /\ alarm <= now
    /\ pacerPc' = "lock"
    /\ UNCHANGED <<clientVars, tcpVars, pipeVars, readerVars, inHand, alarm,
                   paced, due, sockOf, anchor, paceLog, stopVars, histVars,
                   now, scenario>>

(* The head is due: it is taken from the map.                              *)
PacerTake ==
    /\ pacerPc = "decided" /\ paced # <<>> /\ due[Head(paced)] <= now
    /\ inHand' = Head(paced) /\ paced' = Tail(paced)
    /\ pacerPc' = "sending"
    /\ UNCHANGED <<clientVars, tcpVars, pipeVars, readerVars, alarm, due,
                   sockOf, anchor, paceLog, stopVars, histVars, now, scenario>>

(* send_exact on the stored SOCKET: it reaches whoever holds that handle   *)
(* now, or fails and is ignored.                                           *)
Deliver(c) ==
    IF sock = sockOf[c] /\ ~SocketDead
    THEN st' = [st EXCEPT ![c] = "replied"]
    ELSE UNCHANGED st

(* The client gets c after the first and before the last send of a message *)
(* of tcp_thread, with or without socket_send_mutex.                       *)
Inside(c) ==
    /\ sending \/ tcpPc \in {"device", "devices"}
    /\ sock = sockOf[c] /\ ~SocketDead

(* Mutant: without socket_send_mutex.                                      *)
PacerSendUnlocked ==
    /\ pacerPc = "sending"
    /\ Deliver(inHand)
    /\ torn' = IF Inside(inHand) THEN torn \cup {inHand} ELSE torn
    /\ inHand' = NoCmd /\ pacerPc' = "lock"
    /\ UNCHANGED <<imports, peer, inbound, kind, rid, sess, answer, acked,
                   tcpVars, pipeVars, readerVars, alarm, paced, due, sockOf,
                   anchor, paceLog, stopVars, seen, late, now, scenario>>

PacerSend ==
    /\ pacerPc = "sending" /\ ~sending
    /\ Deliver(inHand)
    /\ torn' = IF Inside(inHand) THEN torn \cup {inHand} ELSE torn
    /\ inHand' = NoCmd /\ pacerPc' = "lock"
    /\ UNCHANGED <<imports, peer, inbound, kind, rid, sess, answer, acked,
                   tcpVars, pipeVars, readerVars, alarm, paced, due, sockOf,
                   anchor, paceLog, stopVars, seen, late, now, scenario>>

-----------------------------------------------------------------------------
(* stop(), called by the destructor once the session has closed its handle.*)

(* stop_requested = true; pacer_cv.notify_all(), without pacer_mutex.      *)
StopBegin ==
    /\ stopPc = "idle" /\ daemon = "closed"
    /\ stopReq' = TRUE
    /\ pacerPc' = Notified
    /\ stopPc' = "shutdown"
    /\ UNCHANGED <<clientVars, tcpVars, pipeVars, readerVars, inHand, alarm,
                   paced, due, sockOf, anchor, paceLog, poked, histVars,
                   now, scenario>>

(* Mutant: the client socket is not shut down.                             *)
StopShutdownNone ==
    /\ stopPc = "shutdown"
    /\ stopPc' = "poke"
    /\ UNCHANGED <<clientVars, tcpVars, pipeVars, readerVars, pacerVars,
                   stopReq, poked, histVars, now, scenario>>

(* The published socket is shut down, so that recv returns ...             *)
StopShutdown ==
    /\ stopPc = "shutdown"
    /\ shut' = (shut \/ published)
    /\ published' = FALSE
    /\ stopPc' = "poke"
    /\ UNCHANGED <<clientVars, tcpPc, cur, sock, sending, pipeVars,
                   readerVars, pacerVars, stopReq, poked, histVars,
                   now, scenario>>

(* ... and the listener gets a connection, so that accept returns.         *)
StopPoke ==
    /\ stopPc = "poke"
    /\ poked' = TRUE
    /\ stopPc' = "tcp"
    /\ UNCHANGED <<clientVars, tcpVars, pipeVars, readerVars, pacerVars,
                   stopReq, histVars, now, scenario>>

StopJoinTcp ==
    /\ stopPc = "tcp" /\ tcpPc = "exited"
    /\ stopPc' = "reader"
    /\ UNCHANGED <<clientVars, tcpVars, pipeVars, readerVars, pacerVars,
                   stopReq, poked, histVars, now, scenario>>

(* The reader is cancelled until it has exited; the pacer is notified once *)
(* more.                                                                   *)
StopJoinReader ==
    /\ stopPc = "reader" /\ readerPc \in {"none", "exited"}
    /\ pacerPc' = Notified
    /\ stopPc' = "pacer"
    /\ UNCHANGED <<clientVars, tcpVars, pipeVars, readerVars, inHand, alarm,
                   paced, due, sockOf, anchor, paceLog, stopReq, poked, histVars,
                   now, scenario>>

StopJoinPacer ==
    /\ stopPc = "pacer" /\ pacerPc = "exited"
    /\ stopPc' = "done"
    /\ UNCHANGED <<clientVars, tcpVars, pipeVars, readerVars, pacerVars,
                   stopReq, poked, histVars, now, scenario>>

(* Time passes; it runs on as long as a reply waits for it.                *)
Tick ==
    /\ \/ now < scenario.time
       \/ paced # <<>> /\ due[Head(paced)] > now
       \/ pacerPc = "waiting" /\ alarm > now
    /\ now' = now + 1
    /\ UNCHANGED <<clientVars, tcpVars, pipeVars, readerVars, pacerVars,
                   stopVars, histVars, scenario>>

-----------------------------------------------------------------------------
(* The specification.                                                      *)

ClientStep ==
    \/ ClientConnect
    \/ \E c \in Cmds, k \in AllKinds, r \in Reports \cup {NoReport} :
          ClientSubmit(c, k, r)
    \/ \E c \in Cmds : ClientUnlink(c)
    \/ ClientClose

TcpStep ==
    \/ \E h \in Handles : Accept(h)
    \/ AcceptDead
    \/ Publish
    \/ \E code \in {"import", "devlist"} : ReceiveHeader(code)
    \/ ImportHeader \/ Devlist \/ DevlistEnd
    \/ Listen
    \/ ConnectPipe
    \/ ReceiveFails
    \/ \E c \in Cmds : ReceiveUnlink(c)
    \/ \E c \in Cmds : ReceiveSubmit(c)
    \/ TakeReply
    \/ ReplyTimeout
    \/ TakeInput
    \/ InputTimeout
    \/ ReplyHeader
    \/ ReplyBody
    \/ Pace
    \/ ClearPaced
    \/ DisconnectPipe
    \/ CloseSocket

ReaderStep == ReadFrame \/ ReaderExit

DaemonStep ==
    \/ DaemonOpen
    \/ DaemonInput
    \/ \E answered \in BOOLEAN : DaemonAnswer(answered)
    \/ DaemonClose

PacerStep ==
    PacerCheck \/ PacerWait \/ PacerTimer \/ PacerTake \/ PacerSend

StopStep ==
    \/ StopBegin
    \/ StopShutdown
    \/ StopPoke
    \/ StopJoinTcp
    \/ StopJoinReader
    \/ StopJoinPacer

Next ==
    ClientStep \/ TcpStep \/ ReaderStep \/ DaemonStep \/ PacerStep
        \/ StopStep \/ Tick

Spec == Init /\ [][Next]_vars

(* The port's threads, the destructor and the clock keep running, and the  *)
(* session opens the pipe and serves its frames; the client and the        *)
(* controller owe nothing.                                                 *)
Fairness ==
    /\ WF_vars(TcpStep)
    /\ WF_vars(ReaderStep)
    /\ WF_vars(PacerStep)
    /\ WF_vars(StopStep)
    /\ WF_vars(DaemonOpen)
    /\ WF_vars(\E answered \in BOOLEAN : DaemonAnswer(answered))
    /\ WF_vars(Tick)

FairSpec == Spec /\ Fairness

-----------------------------------------------------------------------------
(* Properties.                                                             *)

ClientTypes ==
    /\ imports \in Nat /\ peer \in {"none", "backlog", "open", "closed"}
    /\ inbound \in Seq(Ops)
    /\ kind \in [Cmds -> AllKinds]
    /\ rid \in [Cmds -> Reports \cup {NoReport}]
    /\ st \in [Cmds -> {"new", "sent", "replied"}]
    /\ sess \in [Cmds -> Nat]
    /\ answer \in [Cmds -> Reports \cup {NoReport}]
    /\ acked \subseteq Cmds

TcpTypes ==
    /\ tcpPc \in {"accept", "publish", "header", "import", "device", "devlist",
                  "devices", "connect", "recv", "feature", "hid", "reply",
                  "body", "clear", "disconnect",
                  "close", "exited"}
    /\ cur \in Cmds \cup {NoCmd} /\ sock \in Handles \cup {NoSock}
    /\ published \in BOOLEAN /\ shut \in BOOLEAN /\ sending \in BOOLEAN

Frames == [type : {"HID_IN", "FEATURE_REPLY"}, stamp : Nat,
           rid : Reports \cup {NoReport}]

PipeTypes ==
    /\ pipe \in {"listening", "opened", "disconnected"}
    /\ daemon \in {"starting", "open", "closed"}
    /\ toDaemon \in Seq(Cmds) /\ toHost \in Seq(Frames) /\ inputs \in Nat

ReaderTypes ==
    /\ readerPc \in {"none", "reading", "exited"}
    /\ hidQueue \in Seq(Nat) /\ Len(hidQueue) <= HidMax
    /\ featQueue \in Seq(Reports \cup {NoReport})

PacerTypes ==
    /\ pacerPc \in {"lock", "decided", "waiting", "sending", "exited"}
    /\ inHand \in Cmds \cup {NoCmd} /\ alarm \in Nat
    /\ paced \in Seq(Cmds) /\ due \in [Cmds -> Nat]
    /\ sockOf \in [Cmds -> Handles \cup {NoSock}]
    /\ anchor \in [IsoKinds -> Nat] /\ paceLog \in Seq(Cmds)

StopTypes ==
    /\ stopPc \in {"idle", "shutdown", "poke", "tcp", "reader", "pacer",
                   "done"}
    /\ stopReq \in BOOLEAN /\ poked \in BOOLEAN
    /\ seen \in Nat /\ torn \subseteq Cmds /\ late \in BOOLEAN /\ now \in Nat
    /\ scenario \in Scenarios

(* The types of VirtualPort::Impl, and the bound of hid_in_queue.          *)
TypeOK ==
    /\ ClientTypes /\ TcpTypes /\ PipeTypes
    /\ ReaderTypes /\ PacerTypes /\ StopTypes

(* A GET_REPORT is answered with the report it asked for, or with nothing: *)
(* "Ask vdsd, which caches/forwards over Bluetooth as needed, then wait    *)
(* for the FEATURE_REPLY frame".  The code does not keep this: replies are *)
(* matched to requests only by their order in feature_reply_queue, and one *)
(* that comes after the 500 ms answers the next request.                   *)
AnswersReportAsked ==
    \A c \in Cmds : answer[c] \in {NoReport, rid[c]}

(* That is the only way: as long as no wait has ended while its answer was *)
(* under way, every GET_REPORT is answered with what it asked for, over    *)
(* unlinks, refused reads, lost connections and re-imports.                *)
PairedUnlessLate == ~late => AnswersReportAsked

(* The queue of input reports drops stale ones, never the newest: the last *)
(* report that was read from the pipe is the last in the queue, or the     *)
(* host has it.                                                            *)
NewestInputKept ==
    ~PipeDead /\ ~stopReq =>
        inputs - Cardinality({i \in DOMAIN toHost : toHost[i].type = "HID_IN"})
            = IF hidQueue = <<>> THEN seen ELSE Last(hidQueue)

(* "a speaker reply due now always jumps ahead of mic replies due later":  *)
(* paced_replies is sorted by due time whatever the two streams submit.    *)
PacedSorted ==
    \A i, j \in DOMAIN paced : i < j => due[paced[i]] <= due[paced[j]]

(* "a burst of early submissions from Windows drains at exactly real time":*)
(* within one direction of one session replies are due IsoTicks apart and  *)
(* none is sent before it is due; as long as their connection is the       *)
(* current one, they are sent in the order of submission and without gaps. *)
(* (A reply the pacer holds when the session ends may reach the next       *)
(* client under a reused SOCKET, when those before it were lost.)          *)
PacedAtRealTime ==
    \A i, j \in DOMAIN paceLog :
        LET c == paceLog[i]
            d == paceLog[j]
        IN i < j /\ kind[c] = kind[d] /\ sess[c] = sess[d]
               => /\ due[d] >= due[c] + IsoTicks
                  /\ st[d] = "replied" => now >= due[d]
                  /\ st[d] = "replied" /\ sess[d] = imports
                         => st[c] = "replied"

(* The pacer keeps both of its promises, the one between the two streams   *)
(* and the one within each.                                                *)
PacedInOrder == PacedSorted /\ PacedAtRealTime

(* "Both the session thread and the pacer thread write complete wire       *)
(* messages to the same socket; this keeps them from interleaving          *)
(* mid-message": it does within a connection.  A message is torn only by a *)
(* reply left over from an earlier connection, which the pacer held while  *)
(* that ended and whose SOCKET value the new one has: OP_REP_IMPORT and    *)
(* OP_REP_DEVLIST are sent without socket_send_mutex.                      *)
TornOnlyByLeftover == \A c \in torn : sess[c] < imports

(* "an unlink just means 'stop expecting a reply for that seqnum,' which   *)
(* our per-request synchronous handling already satisfies": it does for    *)
(* every reply the session sends itself.  Once an unlink is acknowledged,  *)
(* no RET_SUBMIT with that seqnum follows; the audio replies, which wait   *)
(* in the pacer, are excepted, and may still be sent.                      *)
SilentAfterUnlink ==
    [][\A c \in acked : kind[c] \notin IsoKinds =>
          (st[c] = "sent" => st'[c] = "sent")]_vars

(* stop() unblocks accept and recv, so that tcp_thread can be joined.      *)
TcpThreadExits == stopReq ~> tcpPc = "exited"

(* Every request of a live session is answered: nothing it waits for --    *)
(* replies, input, the pacer -- can hold it up for ever.                   *)
RequestAnswered ==
    \A c \in Cmds :
        st[c] = "sent" ~> \/ st[c] = "replied"
                         \/ sess[c] # imports \/ sock = NoSock \/ SocketDead

-----------------------------------------------------------------------------
(* Strengthenings, for the proofs.                                         *)

(* The submissions that are still in the socket, and the commands the      *)
(* pacer has been given.                                                   *)
Unread == {c \in Cmds : [op |-> "submit", cmd |-> c] \in ToSet(inbound)}
Logged == ToSet(paceLog)

(* tcp_thread is inside handle_cmd_submit.                                 *)
Handling == tcpPc \in {"feature", "hid", "reply", "body"}

(* No submission is in the socket twice.                                   *)
ReadOnce ==
    \A i, j \in DOMAIN inbound :
        inbound[i] = inbound[j] /\ inbound[i].op = "submit" => i = j

(* A command is in one place: unread, being handled, or with the pacer.    *)
OnePlace ==
    /\ Unread \cap Logged = {}
    /\ Handling => cur \in Cmds /\ cur \notin Unread \cup Logged
    /\ ToSet(paced) \subseteq Logged
    /\ \A c \in Cmds :
          st[c] = "new" => c \notin Unread \cup Logged /\ (Handling => c # cur)

(* tcp_thread is in the command loop, or has a client it does not serve    *)
(* yet.                                                                    *)
Serving == tcpPc \in {"recv", "feature", "hid", "reply", "body", "clear"}
Unserved == Greeting \/ tcpPc = "connect"

(* What is sent now reaches the client of the current connection.          *)
Live == sock # NoSock /\ ~SocketDead

(* The audio commands of the current connection.                           *)
Current == {c \in Logged : sess[c] = imports}

(* A connection's commands are read and handled before the next one is     *)
(* made.                                                                   *)
SessionOrder ==
    /\ peer \in {"none", "backlog"} => tcpPc \in {"accept", "exited"}
    /\ peer = "backlog" \/ Unserved => Current = {}
    /\ Unserved \/ Serving => sock # NoSock
    /\ \A c \in Cmds : sess[c] <= imports
    /\ \A c \in Unread : sess[c] = imports /\ st[c] = "sent"
    /\ Handling => sess[cur] = imports /\ st[cur] = "sent"
    /\ \A c \in Logged : kind[c] \in IsoKinds /\ sockOf[c] # NoSock

(* The pacer holds a reply only while it sends it, and takes only one that *)
(* is due.                                                                 *)
PacerHolds ==
    /\ pacerPc # "sending" => inHand = NoCmd
    /\ pacerPc = "sending" => inHand \in Logged /\ due[inHand] <= now
    /\ \A c \in Logged : st[c] = "replied" => due[c] <= now

(* A reply that is not lost: sent, in the pacer's hand, or queued.         *)
Held(c) == st[c] = "replied" \/ c = inHand \/ c \in ToSet(paced)

(* While the connection lives no reply of its session is lost, and the     *)
(* anchor of each direction is past them.                                  *)
NoneLost ==
    /\ Live => \A c \in Current : sockOf[c] = sock
    /\ Live /\ Serving => \A c \in Current : Held(c)
    /\ Serving => \A c \in Current : anchor[kind[c]] >= due[c] + IsoTicks

(* c was handed to the pacer before d, in one stream of one session.       *)
Precedes(c, d) ==
    /\ kind[c] = kind[d] /\ sess[c] = sess[d]
    /\ \E i, j \in DOMAIN paceLog : i < j /\ paceLog[i] = c /\ paceLog[j] = d

(* The due times of a stream lie IsoTicks apart.                           *)
Spaced ==
    \A c, d \in Logged : Precedes(c, d) => due[d] >= due[c] + IsoTicks

(* A reply of the current connection is queued, taken and sent only when   *)
(* those before it in its stream have come as far.                         *)
InOrder ==
    \A c, d \in Logged : Precedes(c, d) /\ sess[d] = imports =>
        /\ st[d] = "replied" => st[c] = "replied"
        /\ Live /\ d = inHand => st[c] = "replied"
        /\ Live /\ d \in ToSet(paced) => Held(c)

(* The input reports in the pipe after position i.                         *)
InputsAfter(i) ==
    {j \in DOMAIN toHost : j > i /\ toHost[j].type = "HID_IN"}

(* The stamp of the newest report that was read from the pipe.             *)
NewestRead == IF hidQueue = <<>> THEN seen ELSE Last(hidQueue)

(* The reports in the pipe are stamped in the order they were written.     *)
InputsStamped ==
    /\ daemon = "starting" => inputs = 0 /\ toHost = <<>>
                                 /\ hidQueue = <<>> /\ seen = 0
    /\ \A i \in DOMAIN toHost : toHost[i].type = "HID_IN" =>
          toHost[i].stamp + Cardinality(InputsAfter(i)) = inputs
    /\ ~PipeDead /\ ~stopReq =>
          NewestRead + Cardinality(InputsAfter(0)) = inputs

(* An unlink follows its submission through the socket, and is             *)
(* acknowledged after that has been handled.                               *)
AckedHandled ==
    \A c \in acked : /\ st[c] # "new" /\ c \notin Unread
                     /\ Handling => cur # c

UnlinkFollows ==
    /\ \A i \in DOMAIN inbound : st[inbound[i].cmd] # "new"
    /\ \A i, j \in DOMAIN inbound :
          i < j /\ inbound[i].op = "unlink" /\ inbound[j].op = "submit"
              => inbound[i].cmd # inbound[j].cmd

(* The FEATURE_REPLY frames in the pipe.                                   *)
ReplyFrames == {i \in DOMAIN toHost : toHost[i].type = "FEATURE_REPLY"}

(* One request is under way at most: asked, answered or queued.            *)
OneAwaited ==
    /\ Len(toDaemon) <= 1 /\ Len(featQueue) <= 1
    /\ \A i, j \in ReplyFrames : i = j
    /\ toDaemon # <<>> => ReplyFrames = {} /\ featQueue = <<>>
    /\ ReplyFrames # {} => featQueue = <<>>

(* Everything under way answers the request that waits for it ...          *)
AwaitedMatch ==
    tcpPc = "feature" =>
        /\ \A d \in ToSet(toDaemon) : rid[d] = rid[cur]
        /\ \A i \in ReplyFrames : toHost[i].rid = rid[cur]
        /\ \A r \in ToSet(featQueue) : r = rid[cur]

(* ... and nothing is under way when none waits, unless the pipe is gone   *)
(* for good.                                                               *)
NothingLate ==
    /\ ~PipeDead => OneAwaited
    /\ ~PipeDead /\ tcpPc # "feature" =>
          toDaemon = <<>> /\ ReplyFrames = {} /\ featQueue = <<>>
    /\ daemon = "starting" => toDaemon = <<>> /\ toHost = <<>> /\ featQueue = <<>>
    /\ stopReq => daemon = "closed"

(* A request that has not been sent has no answer.                         *)
AnswersSent ==
    /\ \A d \in ToSet(toDaemon) : st[d] # "new"
    /\ \A c \in Cmds : st[c] = "new" => answer[c] = NoReport

(* The inductive invariant.  Whatever tears a message has been handed to   *)
(* the pacer; the replies are paired as long as none was late.             *)
IInv ==
    /\ TypeOK /\ ReadOnce /\ OnePlace /\ PacedSorted
    /\ SessionOrder /\ PacerHolds /\ NoneLost /\ Spaced /\ InOrder
    /\ InputsStamped /\ TornOnlyByLeftover /\ torn \subseteq Logged
    /\ UnlinkFollows /\ AckedHandled
    /\ ~late => /\ AwaitedMatch /\ NothingLate
                /\ AnswersSent /\ AnswersReportAsked
=============================================================================
