------------------------- MODULE VdsUsbip_proofs -------------------------
(***************************************************************************)
(* Theorems about the USB/IP port VdsUsbip, for every set of commands,     *)
(* reports and SOCKET values and every bound.                              *)
(***************************************************************************)
EXTENDS VdsUsbip, Lists_proofs


-----------------------------------------------------------------------------
(* Type correctness.                                                       *)

(* pipe_reader_loop keeps hid_in_queue within its bound.                   *)
LEMMA PushInputType ==
  ASSUME NEW q \in Seq(Nat), Len(q) <= HidMax, NEW n \in Nat
  PROVE  PushInput(q, n) \in Seq(Nat) /\ Len(PushInput(q, n)) <= HidMax
<1>1. /\ Append(q, n) \in Seq(Nat) /\ Append(q, n) # <<>>
      /\ Len(Append(q, n)) = Len(q) + 1
  OBVIOUS
<1>2. /\ Tail(Append(q, n)) \in Seq(Nat)
      /\ Len(Tail(Append(q, n))) = Len(q)
  BY <1>1
<1> QED BY <1>1, <1>2, BoundsNat DEF PushInput

(* emplace keeps paced_replies a list of commands.                         *)
LEMMA PacedType ==
  ASSUME NEW q \in Seq(Cmds), NEW i \in 1 .. Len(q) + 1, NEW c \in Cmds
  PROVE  Splice(q, i, <<c>>) \in Seq(Cmds)
<1>1. <<c>> \in Seq(Cmds)
  OBVIOUS
<1> QED BY <1>1, SpliceElements

(* A step keeps the types of what it leaves alone.                         *)
LEMMA ClientTypesKept ==
  ASSUME ClientTypes, UNCHANGED clientVars
  PROVE  ClientTypes'
BY DEF ClientTypes, clientVars

(* tcp_thread's own state.                                                 *)
LEMMA TcpTypesKept ==
  ASSUME TcpTypes, UNCHANGED tcpVars
  PROVE  TcpTypes'
BY DEF TcpTypes, tcpVars

(* The two directions of the pipe.                                         *)
LEMMA PipeTypesKept ==
  ASSUME PipeTypes, UNCHANGED pipeVars
  PROVE  PipeTypes'
BY DEF PipeTypes, pipeVars

(* pipe_reader_loop's queues.                                              *)
LEMMA ReaderTypesKept ==
  ASSUME ReaderTypes, UNCHANGED readerVars
  PROVE  ReaderTypes'
BY DEF ReaderTypes, readerVars

(* paced_replies and what the pacer holds.                                 *)
LEMMA PacerTypesKept ==
  ASSUME PacerTypes, UNCHANGED pacerVars
  PROVE  PacerTypes'
BY DEF PacerTypes, pacerVars

(* The progress of stop(), and the clock.                                  *)
LEMMA StopTypesKept ==
  ASSUME StopTypes, UNCHANGED <<stopVars, histVars, now, scenario>>
  PROVE  StopTypes'
BY DEF StopTypes, stopVars, histVars

(* Every step of the port, its client and its daemon keeps the types.      *)
LEMMA TypeStep ==
  ASSUME TypeOK, Handling => cur \in Cmds,
         pacerPc = "sending" => inHand \in Cmds, [Next]_vars
  PROVE  TypeOK'
<1> USE ScenariosKnown, BoundsNat
<1>0. /\ ClientTypes /\ TcpTypes /\ PipeTypes
      /\ ReaderTypes /\ PacerTypes /\ StopTypes
  BY DEF TypeOK
<1>1. CASE ClientConnect
  <2>1. ClientTypes'
    BY <1>0, <1>1 DEF ClientConnect, ClientTypes, clientVars
  <2> QED BY <1>0, <1>1, <2>1, TcpTypesKept, PipeTypesKept, ReaderTypesKept,
          PacerTypesKept, StopTypesKept DEF ClientConnect, TypeOK
<1>2. CASE ClientClose
  <2>1. ClientTypes'
    BY <1>0, <1>2 DEF ClientClose, ClientTypes, clientVars
  <2> QED BY <1>0, <1>2, <2>1, TcpTypesKept, PipeTypesKept, ReaderTypesKept,
          PacerTypesKept, StopTypesKept DEF ClientClose, TypeOK
<1>3. CASE AcceptDead
  <2>1. ClientTypes'
    BY <1>0, <1>3 DEF AcceptDead, ClientTypes, clientVars
  <2>2. TcpTypes'
    BY <1>0, <1>3 DEF AcceptDead, LoopTop, TcpTypes, tcpVars
  <2>3. StopTypes'
    BY <1>0, <1>3 DEF AcceptDead, StopTypes, stopVars, histVars
  <2> QED BY <1>0, <1>3, <2>1, <2>2, <2>3, PipeTypesKept, ReaderTypesKept,
          PacerTypesKept DEF AcceptDead, TypeOK
<1>4. CASE Publish
  <2>1. TcpTypes'
    BY <1>0, <1>4 DEF Publish, TcpTypes, tcpVars
  <2> QED BY <1>0, <1>4, <2>1, ClientTypesKept, PipeTypesKept,
          ReaderTypesKept, PacerTypesKept, StopTypesKept DEF Publish, TypeOK
<1>5. ASSUME NEW code \in {"import", "devlist"}, ReceiveHeader(code)
      PROVE  TypeOK'
  <2>1. TcpTypes'
    BY <1>0, <1>5 DEF ReceiveHeader, TcpTypes, tcpVars
  <2> QED BY <1>0, <1>5, <2>1, ClientTypesKept, PipeTypesKept,
          ReaderTypesKept, PacerTypesKept, StopTypesKept DEF ReceiveHeader,
          TypeOK
<1>6. CASE Listen
  <2>1. TcpTypes'
    BY <1>0, <1>6 DEF Listen, TcpTypes, tcpVars
  <2>2. PipeTypes'
    BY <1>0, <1>6 DEF Listen, PipeTypes, pipeVars
  <2> QED BY <1>0, <1>6, <2>1, <2>2, ClientTypesKept, ReaderTypesKept,
          PacerTypesKept, StopTypesKept DEF Listen, TypeOK
<1>7. CASE ConnectPipe
  <2>1. TcpTypes'
    BY <1>0, <1>7 DEF ConnectPipe, ServeTop, TcpTypes, tcpVars
  <2>2. ReaderTypes'
    BY <1>0, <1>7 DEF ConnectPipe, ReaderTypes, readerVars
  <2> QED BY <1>0, <1>7, <2>1, <2>2, ClientTypesKept, PipeTypesKept,
          PacerTypesKept, StopTypesKept DEF ConnectPipe, TypeOK
<1>8. CASE ReceiveFails
  <2>1. TcpTypes'
    BY <1>0, <1>8 DEF ReceiveFails, TcpTypes, tcpVars
  <2> QED BY <1>0, <1>8, <2>1, ClientTypesKept, PipeTypesKept,
          ReaderTypesKept, PacerTypesKept, StopTypesKept DEF ReceiveFails,
          TypeOK
<1>9. CASE TakeReply
  <2>1. Head(featQueue) \in Reports \cup {NoReport}
    BY <1>0, <1>9 DEF TakeReply, ReaderTypes
  <2>2. ClientTypes'
    BY <1>0, <1>9, <2>1 DEF TakeReply, ClientTypes, clientVars
  <2>3. TcpTypes'
    BY <1>0, <1>9, <2>1 DEF TakeReply, TcpTypes, tcpVars
  <2>4. ReaderTypes'
    BY <1>0, <1>9, <2>1 DEF TakeReply, ReaderTypes, readerVars
  <2> QED BY <1>0, <1>9, <2>2, <2>3, <2>4, PipeTypesKept, PacerTypesKept,
          StopTypesKept DEF TakeReply, TypeOK
<1>10. CASE ReplyTimeout
  <2>1. TcpTypes'
    BY <1>0, <1>10 DEF ReplyTimeout, TcpTypes, tcpVars
  <2>2. StopTypes'
    BY <1>0, <1>10 DEF ReplyTimeout, StopTypes, stopVars
  <2> QED BY <1>0, <1>10, <2>1, <2>2, ClientTypesKept, PipeTypesKept,
          ReaderTypesKept, PacerTypesKept DEF ReplyTimeout, TypeOK
<1>11. CASE TakeInput
  <2>1. TcpTypes'
    BY <1>0, <1>11 DEF TakeInput, TcpTypes, tcpVars
  <2>2. ReaderTypes'
    BY <1>0, <1>11 DEF TakeInput, ReaderTypes, readerVars
  <2>3. StopTypes'
    BY <1>0, <1>11 DEF TakeInput, ReaderTypes, StopTypes, stopVars, histVars
  <2> QED BY <1>0, <1>11, <2>1, <2>2, <2>3, ClientTypesKept, PipeTypesKept,
          PacerTypesKept DEF TakeInput, TypeOK
<1>12. CASE InputTimeout
  <2>1. TcpTypes'
    BY <1>0, <1>12 DEF InputTimeout, TcpTypes, tcpVars
  <2> QED BY <1>0, <1>12, <2>1, ClientTypesKept, PipeTypesKept,
          ReaderTypesKept, PacerTypesKept, StopTypesKept DEF InputTimeout,
          TypeOK
<1>13. CASE ReplyHeader
  <2>1. TcpTypes'
    BY <1>0, <1>13 DEF ReplyHeader, TcpTypes, tcpVars
  <2> QED BY <1>0, <1>13, <2>1, ClientTypesKept, PipeTypesKept,
          ReaderTypesKept, PacerTypesKept, StopTypesKept DEF ReplyHeader,
          TypeOK
<1>14. CASE ReplyBody
  <2>1. ClientTypes'
    BY <1>0, <1>14 DEF ReplyBody, ClientTypes, clientVars
  <2>2. TcpTypes'
    BY <1>0, <1>14 DEF ReplyBody, ServeTop, TcpTypes, tcpVars
  <2> QED BY <1>0, <1>14, <2>1, <2>2, PipeTypesKept, ReaderTypesKept,
          PacerTypesKept, StopTypesKept DEF ReplyBody, TypeOK
<1>15. CASE Pace
  <2> DEFINE k == Direction(kind[cur])
             t == DueTime(k)
  <2>1. cur \in Cmds
    BY <1>15 DEF Pace, Handling
  <2>2. k \in IsoKinds
    BY DEF Direction, IsoKinds
  <2>3. t \in Nat /\ t + IsoTicks \in Nat
    BY <1>0, <2>2 DEF PacerTypes, StopTypes, DueTime
  <2>4. /\ due' = [due EXCEPT ![cur] = t]
        /\ anchor' = [anchor EXCEPT ![k] = t + IsoTicks]
    BY <1>15 DEF Pace
  <2> HIDE DEF k, t
  <2>5. due' \in [Cmds -> Nat] /\ anchor' \in [IsoKinds -> Nat]
    BY <1>0, <2>3, <2>4 DEF PacerTypes
  <2>6. paced' \in Seq(Cmds)
    BY <1>0, <1>15, <2>1, PacedType DEF Pace, PacerTypes
  <2>7. paceLog' \in Seq(Cmds)
    BY <1>0, <1>15, <2>1 DEF Pace, PacerTypes
  <2>8. sockOf' \in [Cmds -> Handles \cup {NoSock}]
    BY <1>0, <1>15 DEF Pace, PacerTypes, TcpTypes
  <2>9. PacerTypes'
    BY <1>0, <1>15, <2>5, <2>6, <2>7, <2>8 DEF Pace, PacerTypes, Notified
  <2>10. TcpTypes'
    BY <1>0, <1>15 DEF Pace, TcpTypes, ServeTop
  <2> QED BY <1>0, <1>15, <2>9, <2>10, ClientTypesKept, PipeTypesKept,
          ReaderTypesKept, StopTypesKept DEF Pace, TypeOK
<1>16. CASE ClearPaced
  <2>1. TcpTypes'
    BY <1>0, <1>16 DEF ClearPaced, TcpTypes, tcpVars
  <2>2. PacerTypes'
    BY <1>0, <1>16 DEF ClearPaced, PacerTypes, pacerVars
  <2> QED BY <1>0, <1>16, <2>1, <2>2, ClientTypesKept, PipeTypesKept,
          ReaderTypesKept, StopTypesKept DEF ClearPaced, TypeOK
<1>17. CASE DisconnectPipe
  <2>1. TcpTypes'
    BY <1>0, <1>17 DEF DisconnectPipe, TcpTypes, tcpVars
  <2>2. PipeTypes'
    BY <1>0, <1>17 DEF DisconnectPipe, PipeTypes, pipeVars
  <2> QED BY <1>0, <1>17, <2>1, <2>2, ClientTypesKept, ReaderTypesKept,
          PacerTypesKept, StopTypesKept DEF DisconnectPipe, TypeOK
<1>18. CASE CloseSocket
  <2>1. ClientTypes'
    BY <1>0, <1>18 DEF CloseSocket, ClientTypes, clientVars
  <2>2. TcpTypes'
    BY <1>0, <1>18 DEF CloseSocket, LoopTop, TcpTypes, tcpVars
  <2> QED BY <1>0, <1>18, <2>1, <2>2, PipeTypesKept, ReaderTypesKept,
          PacerTypesKept, StopTypesKept DEF CloseSocket, TypeOK
<1>19. CASE ReadFrame
  <2>1. /\ Head(toHost) \in Frames /\ toHost' \in Seq(Frames)
    BY <1>0, <1>19 DEF ReadFrame, PipeTypes
  <2>2. /\ Head(toHost).stamp \in Nat
        /\ Head(toHost).rid \in Reports \cup {NoReport}
    BY <2>1 DEF Frames
  <2>3. /\ PushInput(hidQueue, Head(toHost).stamp) \in Seq(Nat)
        /\ Len(PushInput(hidQueue, Head(toHost).stamp)) <= HidMax
    BY <1>0, <2>2, PushInputType DEF ReaderTypes
  <2>4. Append(featQueue, Head(toHost).rid) \in Seq(Reports \cup {NoReport})
    BY <1>0, <2>2 DEF ReaderTypes
  <2>5. ReaderTypes'
    BY <1>0, <1>19, <2>3, <2>4 DEF ReadFrame, ReaderTypes
  <2>6. PipeTypes'
    BY <1>0, <1>19, <2>1 DEF ReadFrame, PipeTypes
  <2> QED BY <1>0, <1>19, <2>5, <2>6, ClientTypesKept, TcpTypesKept,
          PacerTypesKept, StopTypesKept DEF ReadFrame, TypeOK
<1>20. CASE ReaderExit
  <2>1. ReaderTypes'
    BY <1>0, <1>20 DEF ReaderExit, ReaderTypes, readerVars
  <2> QED BY <1>0, <1>20, <2>1, ClientTypesKept, TcpTypesKept,
          PipeTypesKept, PacerTypesKept, StopTypesKept DEF ReaderExit,
          TypeOK
<1>21. CASE DaemonOpen
  <2>1. PipeTypes'
    BY <1>0, <1>21 DEF DaemonOpen, PipeTypes, pipeVars
  <2> QED BY <1>0, <1>21, <2>1, ClientTypesKept, TcpTypesKept,
          ReaderTypesKept, PacerTypesKept, StopTypesKept DEF DaemonOpen,
          TypeOK
<1>22. CASE DaemonInput
  <2>1. PipeTypes'
    BY <1>0, <1>22 DEF DaemonInput, InputFrame, Frames, PipeTypes, pipeVars
  <2> QED BY <1>0, <1>22, <2>1, ClientTypesKept, TcpTypesKept,
          ReaderTypesKept, PacerTypesKept, StopTypesKept DEF DaemonInput,
          TypeOK
<1>23. CASE DaemonClose
  <2>1. PipeTypes'
    BY <1>0, <1>23 DEF DaemonClose, PipeTypes, pipeVars
  <2> QED BY <1>0, <1>23, <2>1, ClientTypesKept, TcpTypesKept,
          ReaderTypesKept, PacerTypesKept, StopTypesKept DEF DaemonClose,
          TypeOK
<1>24. CASE PacerCheck
  <2>1. PacerTypes'
    BY <1>0, <1>24 DEF PacerCheck, PacerTypes, pacerVars
  <2> QED BY <1>0, <1>24, <2>1, ClientTypesKept, TcpTypesKept,
          PipeTypesKept, ReaderTypesKept, StopTypesKept DEF PacerCheck,
          TypeOK
<1>25. CASE PacerWait
  <2>1. PacerTypes'
    BY <1>0, <1>25 DEF PacerWait, PacerTypes, pacerVars
  <2> QED BY <1>0, <1>25, <2>1, ClientTypesKept, TcpTypesKept,
          PipeTypesKept, ReaderTypesKept, StopTypesKept DEF PacerWait,
          TypeOK
<1>26. CASE PacerTimer
  <2>1. PacerTypes'
    BY <1>0, <1>26 DEF PacerTimer, PacerTypes, pacerVars
  <2> QED BY <1>0, <1>26, <2>1, ClientTypesKept, TcpTypesKept,
          PipeTypesKept, ReaderTypesKept, StopTypesKept DEF PacerTimer,
          TypeOK
<1>27. CASE PacerTake
  <2>1. PacerTypes'
    BY <1>0, <1>27 DEF PacerTake, PacerTypes, pacerVars
  <2> QED BY <1>0, <1>27, <2>1, ClientTypesKept, TcpTypesKept,
          PipeTypesKept, ReaderTypesKept, StopTypesKept DEF PacerTake,
          TypeOK
<1>28. CASE PacerSend
  <2>1. ClientTypes'
    BY <1>0, <1>28 DEF PacerSend, Deliver, ClientTypes, clientVars
  <2>2. PacerTypes'
    BY <1>0, <1>28 DEF PacerSend, PacerTypes, pacerVars
  <2>3. StopTypes'
    BY <1>0, <1>28 DEF PacerSend, StopTypes, stopVars, histVars
  <2> QED BY <1>0, <1>28, <2>1, <2>2, <2>3, TcpTypesKept, PipeTypesKept,
          ReaderTypesKept DEF PacerSend, TypeOK
<1>29. CASE StopBegin
  <2>1. PacerTypes'
    BY <1>0, <1>29 DEF StopBegin, Notified, PacerTypes, pacerVars
  <2>2. StopTypes'
    BY <1>0, <1>29 DEF StopBegin, StopTypes, stopVars, histVars
  <2> QED BY <1>0, <1>29, <2>1, <2>2, ClientTypesKept, TcpTypesKept,
          PipeTypesKept, ReaderTypesKept DEF StopBegin, TypeOK
<1>30. CASE StopShutdown
  <2>1. TcpTypes'
    BY <1>0, <1>30 DEF StopShutdown, TcpTypes, tcpVars
  <2>2. StopTypes'
    BY <1>0, <1>30 DEF StopShutdown, StopTypes, stopVars, histVars
  <2> QED BY <1>0, <1>30, <2>1, <2>2, ClientTypesKept, PipeTypesKept,
          ReaderTypesKept, PacerTypesKept DEF StopShutdown, TypeOK
<1>31. CASE StopPoke
  <2>1. StopTypes'
    BY <1>0, <1>31 DEF StopPoke, StopTypes, stopVars, histVars
  <2> QED BY <1>0, <1>31, <2>1, ClientTypesKept, TcpTypesKept,
          PipeTypesKept, ReaderTypesKept, PacerTypesKept DEF StopPoke,
          TypeOK
<1>32. CASE StopJoinTcp
  <2>1. StopTypes'
    BY <1>0, <1>32 DEF StopJoinTcp, StopTypes, stopVars, histVars
  <2> QED BY <1>0, <1>32, <2>1, ClientTypesKept, TcpTypesKept,
          PipeTypesKept, ReaderTypesKept, PacerTypesKept DEF StopJoinTcp,
          TypeOK
<1>33. CASE StopJoinReader
  <2>1. PacerTypes'
    BY <1>0, <1>33 DEF StopJoinReader, Notified, PacerTypes, pacerVars
  <2>2. StopTypes'
    BY <1>0, <1>33 DEF StopJoinReader, StopTypes, stopVars, histVars
  <2> QED BY <1>0, <1>33, <2>1, <2>2, ClientTypesKept, TcpTypesKept,
          PipeTypesKept, ReaderTypesKept DEF StopJoinReader, TypeOK
<1>34. CASE StopJoinPacer
  <2>1. StopTypes'
    BY <1>0, <1>34 DEF StopJoinPacer, StopTypes, stopVars, histVars
  <2> QED BY <1>0, <1>34, <2>1, ClientTypesKept, TcpTypesKept,
          PipeTypesKept, ReaderTypesKept, PacerTypesKept DEF StopJoinPacer,
          TypeOK
<1>35. CASE Tick
  <2>1. StopTypes'
    BY <1>0, <1>35 DEF Tick, StopTypes, stopVars, histVars
  <2> QED BY <1>0, <1>35, <2>1, ClientTypesKept, TcpTypesKept,
          PipeTypesKept, ReaderTypesKept, PacerTypesKept DEF Tick, TypeOK
<1>36. ASSUME NEW c \in Cmds, NEW k \in AllKinds,
              NEW r \in Reports \cup {NoReport}, ClientSubmit(c, k, r)
      PROVE  TypeOK'
  <2>1. ClientTypes'
    BY <1>0, <1>36 DEF ClientSubmit, Ops, ClientTypes, clientVars
  <2> QED BY <1>0, <1>36, <2>1, TcpTypesKept, PipeTypesKept,
          ReaderTypesKept, PacerTypesKept, StopTypesKept DEF ClientSubmit,
          TypeOK
<1>37. ASSUME NEW c \in Cmds, ClientUnlink(c)
      PROVE  TypeOK'
  <2>1. ClientTypes'
    BY <1>0, <1>37 DEF ClientUnlink, Ops, ClientTypes, clientVars
  <2> QED BY <1>0, <1>37, <2>1, TcpTypesKept, PipeTypesKept,
          ReaderTypesKept, PacerTypesKept, StopTypesKept DEF ClientUnlink,
          TypeOK
<1>38. ASSUME NEW h \in Handles, Accept(h)
      PROVE  TypeOK'
  <2>1. ClientTypes'
    BY <1>0, <1>38 DEF Accept, ClientTypes, clientVars
  <2>2. TcpTypes'
    BY <1>0, <1>38 DEF Accept, TcpTypes, tcpVars
  <2> QED BY <1>0, <1>38, <2>1, <2>2, PipeTypesKept, ReaderTypesKept,
          PacerTypesKept, StopTypesKept DEF Accept, TypeOK
<1>39. ASSUME NEW c \in Cmds, ReceiveUnlink(c)
      PROVE  TypeOK'
  <2>1. ClientTypes'
    BY <1>0, <1>39 DEF ReceiveUnlink, Receive, ClientTypes, clientVars
  <2>2. TcpTypes'
    BY <1>0, <1>39 DEF ReceiveUnlink, Receive, ServeTop, TcpTypes, tcpVars
  <2> QED BY <1>0, <1>39, <2>1, <2>2, PipeTypesKept, ReaderTypesKept,
          PacerTypesKept, StopTypesKept DEF ReceiveUnlink, Receive, TypeOK
<1>40. ASSUME NEW c \in Cmds, ReceiveSubmit(c)
      PROVE  TypeOK'
  <2>1. Append(toDaemon, c) \in Seq(Cmds)
    BY <1>0 DEF PipeTypes
  <2>2. toDaemon' \in {toDaemon, Append(toDaemon, c)}
    BY <1>40 DEF ReceiveSubmit
  <2>3. ClientTypes'
    BY <1>0, <1>40, <2>1, <2>2
    DEF ReceiveSubmit, Receive, ClientTypes, clientVars
  <2>4. TcpTypes'
    BY <1>0, <1>40, <2>1, <2>2 DEF ReceiveSubmit, Receive, TcpTypes, tcpVars
  <2>5. PipeTypes'
    BY <1>0, <1>40, <2>1, <2>2 DEF ReceiveSubmit, Receive, PipeTypes, pipeVars
  <2> QED BY <1>0, <1>40, <2>3, <2>4, <2>5, ReaderTypesKept, PacerTypesKept,
          StopTypesKept DEF ReceiveSubmit, Receive, TypeOK
<1>41. ASSUME NEW answered \in BOOLEAN, DaemonAnswer(answered)
      PROVE  TypeOK'
  <2>1. Head(toDaemon) \in Cmds /\ Tail(toDaemon) \in Seq(Cmds)
    BY <1>0, <1>41 DEF DaemonAnswer, PipeTypes
  <2>2. ReplyFrame(rid[Head(toDaemon)]) \in Frames
    BY <1>0, <2>1 DEF ReplyFrame, Frames, ClientTypes
  <2>3. Append(toHost, ReplyFrame(rid[Head(toDaemon)])) \in Seq(Frames)
    BY <1>0, <2>2 DEF PipeTypes
  <2>4. PipeTypes'
    BY <1>0, <1>41, <2>1, <2>2, <2>3 DEF DaemonAnswer, PipeTypes, pipeVars
  <2> QED BY <1>0, <1>41, <2>4, ClientTypesKept, TcpTypesKept,
          ReaderTypesKept, PacerTypesKept, StopTypesKept DEF DaemonAnswer,
          TypeOK
<1>42. CASE UNCHANGED vars
  BY <1>0, <1>42, ClientTypesKept, TcpTypesKept, PipeTypesKept,
     ReaderTypesKept, PacerTypesKept, StopTypesKept
  DEF vars, TypeOK
<1>43. CASE ImportHeader \/ Devlist \/ DevlistEnd
  <2>1. TcpTypes'
    BY <1>0, <1>43 DEF ImportHeader, Devlist, DevlistEnd, SendUnlocked, TcpTypes, tcpVars
  <2> QED BY <1>0, <1>43, <2>1, ClientTypesKept, PipeTypesKept,
          ReaderTypesKept, PacerTypesKept, StopTypesKept DEF ImportHeader, Devlist, DevlistEnd, SendUnlocked,
          TypeOK
<1> QED
  BY <1>1, <1>2, <1>3, <1>4, <1>5, <1>6, <1>7, <1>8, <1>9, <1>10, <1>11,
     <1>12, <1>13, <1>14, <1>15, <1>16, <1>17, <1>18, <1>19, <1>20, <1>21,
     <1>22, <1>23, <1>24, <1>25, <1>26, <1>27, <1>28, <1>29, <1>30, <1>31,
     <1>32, <1>33, <1>34, <1>35, <1>36, <1>37, <1>38, <1>39, <1>40, <1>41,
     <1>42, <1>43
  DEF Next, ClientStep, TcpStep, ReaderStep, DaemonStep, PacerStep, StopStep

-----------------------------------------------------------------------------
(* Each command is in one place, and the pacer's queue is sorted.          *)

Placement == ReadOnce /\ OnePlace /\ PacedSorted

(* Most steps move no command.                                             *)
LEMMA QuietStep ==
  ASSUME Placement, UNCHANGED <<inbound, st, paced, due, paceLog>>,
         Handling' => Handling /\ cur' = cur
  PROVE  Placement'
BY DEF Placement, ReadOnce, OnePlace, PacedSorted, Unread, Logged

(* Nor does a step that empties the socket.                                *)
LEMMA EmptyStep ==
  ASSUME Placement, inbound' = <<>>, UNCHANGED <<st, paced, due, paceLog>>,
         Handling' => Handling /\ cur' = cur
  PROVE  Placement'
<1>1. Unread' = {} /\ DOMAIN inbound' = {}
  BY DEF Unread, ToSet
<1>2. Logged' = Logged /\ PacedSorted'
  BY DEF Logged, Placement, PacedSorted
<1>3. ReadOnce'
  BY <1>1 DEF ReadOnce
<1>4. OnePlace'
  BY <1>1, <1>2 DEF Placement, OnePlace
<1> QED BY <1>2, <1>3, <1>4 DEF Placement

(* The client appends an operation to the socket.                          *)
LEMMA InboundAppend ==
  ASSUME TypeOK, NEW op \in {"submit", "unlink"}, NEW c \in Cmds,
         inbound' = Append(inbound, [op |-> op, cmd |-> c])
  PROVE  /\ Unread' = IF op = "submit" THEN Unread \cup {c} ELSE Unread
         /\ ReadOnce /\ (op = "submit" => c \notin Unread) => ReadOnce'
<1> DEFINE e == [op |-> op, cmd |-> c]
<1>1. e \in Ops /\ inbound \in Seq(Ops)
  BY DEF TypeOK, ClientTypes, Ops
<1>2. ToSet(inbound') = ToSet(inbound) \cup {e}
  BY <1>1, AppendElements
<1>3. Unread' = IF op = "submit" THEN Unread \cup {c} ELSE Unread
  BY <1>2 DEF Unread
<1>4. ASSUME ReadOnce, op = "submit" => c \notin Unread
      PROVE  ReadOnce'
  <2>1. /\ DOMAIN inbound' = 1 .. Len(inbound) + 1
        /\ DOMAIN inbound = 1 .. Len(inbound) /\ Len(inbound) \in Nat
        /\ \A n \in 1 .. Len(inbound) : inbound'[n] = inbound[n]
        /\ inbound'[Len(inbound) + 1] = e
    BY <1>1
  <2>2. e.op = "submit" => \A n \in 1 .. Len(inbound) : inbound[n] # e
    BY <1>4, <2>1 DEF Unread, ToSet
  <2> HIDE DEF e
  <2> QED BY <1>4, <2>1, <2>2 DEF ReadOnce
<1> QED BY <1>3, <1>4

(* tcp_thread takes the first operation from the socket.                   *)
LEMMA InboundTake ==
  ASSUME TypeOK, ReadOnce, NEW op, NEW c \in Cmds, Receive(op, c)
  PROVE  /\ Unread' \subseteq Unread /\ ReadOnce'
         /\ op = "submit" => c \in Unread /\ c \notin Unread'
<1> DEFINE e == [op |-> op, cmd |-> c]
<1>1. /\ inbound \in Seq(Ops) /\ inbound # <<>>
      /\ Head(inbound) = e /\ inbound' = Tail(inbound)
  BY DEF TypeOK, ClientTypes, Receive
<1>2. ToSet(inbound) = ToSet(inbound') \cup {e}
  BY <1>1, TailElements
<1>3. /\ DOMAIN inbound = 1 .. Len(inbound) /\ Len(inbound) \in Nat
      /\ Len(inbound) > 0 /\ inbound[1] = e
      /\ DOMAIN inbound' = 1 .. Len(inbound) - 1
      /\ \A n \in 1 .. Len(inbound) - 1 : inbound'[n] = inbound[n + 1]
  BY <1>1
<1>4. ReadOnce'
  BY <1>3 DEF ReadOnce
<1>5. ASSUME op = "submit"
      PROVE  e \in ToSet(inbound) /\ e \notin ToSet(inbound')
  <2>1. e.op = "submit"
    BY <1>5
  <2> HIDE DEF e
  <2>2. \A n \in 1 .. Len(inbound) - 1 : inbound'[n] # e
    BY <1>3, <2>1 DEF ReadOnce
  <2> QED BY <1>2, <1>3, <2>2 DEF ToSet
<1>6. Unread' \subseteq Unread
  BY <1>2 DEF Unread
<1>7. op = "submit" => c \in Unread /\ c \notin Unread'
  BY <1>5 DEF Unread
<1> QED BY <1>4, <1>6, <1>7

(* emplace after the entries due no later keeps paced_replies sorted.      *)
LEMMA EmplaceSorted ==
  ASSUME TypeOK, PacedSorted, NEW c \in Cmds, c \notin ToSet(paced),
         NEW t \in Nat, NEW i \in 1 .. Len(paced) + 1, PaceSlot(t, i),
         paced' = Splice(paced, i, <<c>>), due' = [due EXCEPT ![c] = t]
  PROVE  PacedSorted'
<1> DEFINE L == Len(paced)
           d(n) == due[paced[n]]
<1>1. /\ paced \in Seq(Cmds) /\ L \in Nat /\ DOMAIN paced = 1 .. L
      /\ due \in [Cmds -> Nat]
  BY DEF TypeOK, PacerTypes
<1>2. /\ DOMAIN paced' = 1 .. L + 1
      /\ \A n \in 1 .. L + 1 :
            /\ n < i => paced'[n] = paced[n]
            /\ n = i => paced'[n] = c
            /\ n > i => paced'[n] = paced[n - 1]
  BY <1>1, SpliceOne
<1>3. \A n \in 1 .. L : paced[n] \in Cmds /\ paced[n] # c
  BY <1>1 DEF ToSet
<1>4. /\ due'[c] = t
      /\ \A n \in 1 .. L : d(n) \in Nat /\ due'[paced[n]] = d(n)
  BY <1>1, <1>3
<1>5. \A m, n \in 1 .. L : m < n => d(m) <= d(n)
  BY <1>1 DEF PacedSorted
<1>6. /\ \A n \in 1 .. i - 1 : d(n) <= t
      /\ i <= L => d(i) > t
  BY DEF PaceSlot
<1> HIDE DEF d, L
<1>7. \A n \in i .. L : t <= d(n)
  BY <1>1, <1>4, <1>5, <1>6
<1> DEFINE e(n) == due'[paced'[n]]
<1>8. ASSUME NEW n \in 1 .. L + 1
      PROVE  /\ n < i => e(n) = d(n) /\ n \in 1 .. L
             /\ n = i => e(n) = t
             /\ n > i => e(n) = d(n - 1) /\ n - 1 \in i .. L
  <2>1. CASE n < i
    <3>1. n \in 1 .. L /\ paced'[n] = paced[n]
      BY <1>1, <1>2, <2>1
    <3>2. e(n) = d(n)
      BY ONLY <1>4, <3>1, Zenon
    <3> QED BY <1>1, <2>1, <3>1, <3>2
  <2>2. CASE n = i
    <3>1. paced'[n] = c
      BY <1>2, <2>2
    <3>2. e(n) = t
      BY ONLY <1>4, <3>1, Zenon
    <3> QED BY <1>1, <2>2, <3>2
  <2>3. CASE n > i
    <3>1. n - 1 \in 1 .. L /\ n - 1 \in i .. L /\ paced'[n] = paced[n - 1]
      BY <1>1, <1>2, <2>3, SMTT(30)
    <3>2. e(n) = d(n - 1)
      BY ONLY <1>4, <3>1, Zenon
    <3> QED BY <1>1, <2>3, <3>1, <3>2
  <2> QED BY <1>1, <2>1, <2>2, <2>3
<1> HIDE DEF e
<1>9. \A m, n \in 1 .. L + 1 : m < n => e(m) <= e(n)
  <2> SUFFICES ASSUME NEW m \in 1 .. L + 1, NEW n \in 1 .. L + 1, m < n
               PROVE  e(m) <= e(n)
    OBVIOUS
  <2>1. CASE n < i
    BY <1>1, <1>5, <1>8, <2>1
  <2>2. CASE n = i
    BY <1>1, <1>6, <1>8, <2>2
  <2>3. CASE n > i /\ m = i
    BY <1>1, <1>7, <1>8, <2>3
  <2>4. CASE n > i /\ m > i
    BY <1>1, <1>5, <1>8, <2>4
  <2>5. CASE n > i /\ m < i
    <3>1. d(m) <= t /\ t <= d(n - 1) /\ d(m) \in Nat /\ d(n - 1) \in Nat
      BY <1>1, <1>4, <1>6, <1>7, <1>8, <2>5
    <3> QED BY <1>8, <2>5, <3>1
  <2> QED BY <1>1, <2>1, <2>2, <2>3, <2>4, <2>5
<1> QED BY <1>2, <1>9 DEF PacedSorted, e

(* No step takes a command to two places or the pacer's queue out of order.*)
LEMMA PlacementStep ==
  ASSUME TypeOK, Placement, [Next]_vars
  PROVE  Placement'
<1> USE DEF clientVars, tcpVars, pacerVars
<1>0. ReadOnce /\ OnePlace /\ PacedSorted
  BY DEF Placement
<1>1. CASE AcceptDead
  BY <1>1, QuietStep DEF AcceptDead, Handling, LoopTop
<1>2. CASE Publish
  BY <1>2, QuietStep DEF Publish, Handling
<1>3. ASSUME NEW code \in {"import", "devlist"}, ReceiveHeader(code)
      PROVE  Placement'
  BY <1>3, QuietStep DEF ReceiveHeader, Handling
<1>4. CASE Listen
  BY <1>4, QuietStep DEF Listen, Handling
<1>5. CASE ConnectPipe
  BY <1>5, QuietStep DEF ConnectPipe, Handling, ServeTop
<1>6. CASE ReceiveFails
  BY <1>6, QuietStep DEF ReceiveFails, Handling
<1>7. CASE TakeReply
  BY <1>7, QuietStep DEF TakeReply, Handling
<1>8. CASE ReplyTimeout
  BY <1>8, QuietStep DEF ReplyTimeout, Handling
<1>9. CASE TakeInput
  BY <1>9, QuietStep DEF TakeInput, Handling
<1>10. CASE InputTimeout
  BY <1>10, QuietStep DEF InputTimeout, Handling
<1>11. CASE ReplyHeader
  BY <1>11, QuietStep DEF ReplyHeader, Handling
<1>12. CASE DisconnectPipe
  BY <1>12, QuietStep DEF DisconnectPipe, Handling
<1>13. CASE ReadFrame
  BY <1>13, QuietStep DEF ReadFrame, Handling
<1>14. CASE ReaderExit
  BY <1>14, QuietStep DEF ReaderExit, Handling
<1>15. CASE DaemonOpen
  BY <1>15, QuietStep DEF DaemonOpen, Handling
<1>16. CASE DaemonInput
  BY <1>16, QuietStep DEF DaemonInput, Handling
<1>17. CASE DaemonClose
  BY <1>17, QuietStep DEF DaemonClose, Handling
<1>18. CASE PacerCheck
  BY <1>18, QuietStep DEF PacerCheck, Handling
<1>19. CASE PacerWait
  BY <1>19, QuietStep DEF PacerWait, Handling
<1>20. CASE PacerTimer
  BY <1>20, QuietStep DEF PacerTimer, Handling
<1>21. CASE StopBegin
  BY <1>21, QuietStep DEF StopBegin, Handling
<1>22. CASE StopShutdown
  BY <1>22, QuietStep DEF StopShutdown, Handling
<1>23. CASE StopPoke
  BY <1>23, QuietStep DEF StopPoke, Handling
<1>24. CASE StopJoinTcp
  BY <1>24, QuietStep DEF StopJoinTcp, Handling
<1>25. CASE StopJoinReader
  BY <1>25, QuietStep DEF StopJoinReader, Handling
<1>26. CASE StopJoinPacer
  BY <1>26, QuietStep DEF StopJoinPacer, Handling
<1>27. CASE Tick
  BY <1>27, QuietStep DEF Tick, Handling
<1>28. CASE ClientConnect
  BY <1>28, EmptyStep DEF ClientConnect, Handling
<1>29. CASE ClientClose
  BY <1>29, EmptyStep DEF ClientClose, Handling
<1>30. CASE CloseSocket
  BY <1>30, EmptyStep DEF CloseSocket, Handling, LoopTop
<1>31. CASE ReplyBody
  <2>1. UNCHANGED <<inbound, cur, paced, due, paceLog>> /\ ~Handling'
    BY <1>31 DEF ReplyBody, ServeTop, Handling
  <2>2. \A x \in Cmds : st'[x] = "new" => st[x] = "new"
    BY <1>31 DEF ReplyBody, TypeOK, ClientTypes
  <2> QED BY <1>0, <2>1, <2>2
          DEF Placement, ReadOnce, OnePlace, PacedSorted, Unread, Logged
<1>32. CASE PacerSend
  <2>1. UNCHANGED <<inbound, cur, tcpPc, paced, due, paceLog>>
    BY <1>32 DEF PacerSend
  <2>2. \A x \in Cmds : st'[x] = "new" => st[x] = "new"
    BY <1>32 DEF PacerSend, Deliver, TypeOK, ClientTypes
  <2> QED BY <1>0, <2>1, <2>2
          DEF Placement, ReadOnce, OnePlace, PacedSorted, Unread, Logged,
              Handling
<1>33. CASE ClearPaced
  <2>1. /\ UNCHANGED <<inbound, st, due, paceLog>> /\ ~Handling'
        /\ paced' = <<>>
    BY <1>33 DEF ClearPaced, Handling
  <2>2. ToSet(paced') = {} /\ DOMAIN paced' = {}
    BY <2>1 DEF ToSet
  <2> QED BY <1>0, <2>1, <2>2
          DEF Placement, ReadOnce, OnePlace, PacedSorted, Unread, Logged
<1>34. CASE PacerTake
  <2>1. /\ UNCHANGED <<inbound, st, cur, tcpPc, due, paceLog>>
        /\ paced # <<>> /\ paced' = Tail(paced) /\ paced \in Seq(Cmds)
    BY <1>34 DEF PacerTake, TypeOK, PacerTypes
  <2>2. ToSet(paced') \subseteq ToSet(paced)
    BY <2>1, TailElements
  <2>3. PacedSorted'
    BY <1>0, <2>1 DEF PacedSorted
  <2>4. ReadOnce' /\ OnePlace'
    BY <1>0, <2>1, <2>2 DEF ReadOnce, OnePlace, Unread, Logged, Handling
  <2> QED BY <2>3, <2>4 DEF Placement
<1>35. CASE Pace
  <2> DEFINE t == DueTime(Direction(kind[cur]))
  <2>1. /\ Handling /\ cur \in Cmds /\ cur \notin Unread \cup Logged
        /\ cur \notin ToSet(paced) /\ st[cur] # "new" /\ ~Handling'
    BY <1>0, <1>35 DEF Pace, Handling, ServeTop, OnePlace
  <2>2. t \in Nat
    BY DEF TypeOK, PacerTypes, StopTypes, DueTime, Direction, IsoKinds
  <2>3. PICK i \in 1 .. Len(paced) + 1 :
              PaceSlot(t, i) /\ paced' = Splice(paced, i, <<cur>>)
    BY <1>35 DEF Pace
  <2>4. /\ due' = [due EXCEPT ![cur] = t] /\ UNCHANGED <<inbound, st>>
        /\ paceLog' = Append(paceLog, cur)
    BY <1>35 DEF Pace
  <2> HIDE DEF t
  <2>5. PacedSorted'
    BY <1>0, <2>1, <2>2, <2>3, <2>4, EmplaceSorted
  <2>6. Logged' = Logged \cup {cur} /\ Unread' = Unread
    BY <2>1, <2>4, AppendElements DEF Logged, Unread, TypeOK, PacerTypes
  <2>7. ToSet(paced') \subseteq ToSet(paced) \cup {cur}
    <3>1. paced \in Seq(Cmds)
      BY DEF TypeOK, PacerTypes
    <3> QED BY <2>1, <2>3, <3>1, SpliceOneElements
  <2>8. OnePlace'
    BY <1>0, <2>1, <2>4, <2>6, <2>7 DEF OnePlace
  <2>9. ReadOnce'
    BY <1>0, <2>4 DEF ReadOnce
  <2> QED BY <2>5, <2>8, <2>9 DEF Placement
<1>36. ASSUME NEW c \in Cmds, NEW k \in AllKinds,
              NEW r \in Reports \cup {NoReport}, ClientSubmit(c, k, r)
      PROVE  Placement'
  <2>1. /\ inbound' = Append(inbound, [op |-> "submit", cmd |-> c])
        /\ UNCHANGED <<tcpPc, cur, paced, due, paceLog>>
        /\ st[c] = "new" /\ st'[c] = "sent"
        /\ \A x \in Cmds : st'[x] = "new" => st[x] = "new" /\ x # c
    BY <1>36 DEF ClientSubmit, TypeOK, ClientTypes
  <2>2. c \notin Unread \cup Logged /\ (Handling => c # cur)
    BY <1>0, <2>1 DEF OnePlace
  <2>3. Unread' = Unread \cup {c} /\ ReadOnce'
    BY <1>0, <2>1, <2>2, InboundAppend
  <2>4. OnePlace'
    BY <1>0, <2>1, <2>2, <2>3 DEF OnePlace, Logged, Handling
  <2>5. PacedSorted'
    BY <1>0, <2>1 DEF PacedSorted
  <2> QED BY <2>3, <2>4, <2>5 DEF Placement
<1>37. ASSUME NEW c \in Cmds, ClientUnlink(c)
      PROVE  Placement'
  <2>1. /\ inbound' = Append(inbound, [op |-> "unlink", cmd |-> c])
        /\ UNCHANGED <<tcpPc, cur, st, paced, due, paceLog>>
    BY <1>37 DEF ClientUnlink
  <2>2. Unread' = Unread /\ ReadOnce'
    BY <1>0, <2>1, InboundAppend
  <2> QED BY <1>0, <2>1, <2>2
          DEF Placement, OnePlace, PacedSorted, Logged, Handling
<1>38. ASSUME NEW h \in Handles, Accept(h)
      PROVE  Placement'
  BY <1>38, QuietStep DEF Accept, Handling
<1>39. ASSUME NEW c \in Cmds, ReceiveUnlink(c)
      PROVE  Placement'
  <2>1. /\ UNCHANGED <<st, paced, due, paceLog>> /\ ~Handling'
        /\ Receive("unlink", c)
    BY <1>39 DEF ReceiveUnlink, ServeTop, Handling
  <2>2. Unread' \subseteq Unread /\ ReadOnce'
    BY <1>0, <2>1, InboundTake
  <2> QED BY <1>0, <2>1, <2>2 DEF Placement, OnePlace, PacedSorted, Logged
<1>40. ASSUME NEW c \in Cmds, ReceiveSubmit(c)
      PROVE  Placement'
  <2>1. /\ UNCHANGED <<st, paced, due, paceLog>> /\ cur' = c
        /\ Receive("submit", c)
    BY <1>40 DEF ReceiveSubmit
  <2>2. /\ Unread' \subseteq Unread /\ ReadOnce'
        /\ c \in Unread /\ c \notin Unread'
    BY <1>0, <2>1, InboundTake
  <2> QED BY <1>0, <2>1, <2>2 DEF Placement, OnePlace, PacedSorted, Logged
<1>41. ASSUME NEW answered \in BOOLEAN, DaemonAnswer(answered)
      PROVE  Placement'
  BY <1>41, QuietStep DEF DaemonAnswer, Handling
<1>42. CASE UNCHANGED vars
  BY <1>42, QuietStep DEF vars, Handling
<1>43. CASE ImportHeader \/ Devlist \/ DevlistEnd
  BY <1>43, QuietStep DEF ImportHeader, Devlist, DevlistEnd, SendUnlocked, Handling
<1> QED
  BY <1>1, <1>2, <1>3, <1>4, <1>5, <1>6, <1>7, <1>8, <1>9, <1>10, <1>11,
     <1>12, <1>13, <1>14, <1>15, <1>16, <1>17, <1>18, <1>19, <1>20, <1>21,
     <1>22, <1>23, <1>24, <1>25, <1>26, <1>27, <1>28, <1>29, <1>30, <1>31,
     <1>32, <1>33, <1>34, <1>35, <1>36, <1>37, <1>38, <1>39, <1>40, <1>41,
     <1>42, <1>43
  DEF Next, ClientStep, TcpStep, ReaderStep, DaemonStep, PacerStep, StopStep

-----------------------------------------------------------------------------
(* One connection after the other.                                         *)

(* A step of tcp_thread that takes up no command.                          *)
LEMMA SessionMoves ==
  ASSUME SessionOrder, UNCHANGED <<imports, kind, st, sess, paceLog, sockOf>>,
         Unread' \subseteq Unread,
         peer' \in {"none", "backlog"} => tcpPc' \in {"accept", "exited"},
         peer' = "backlog" \/ Unserved' => peer = "backlog" \/ Unserved,
         Unserved' \/ Serving' => sock' # NoSock,
         Handling' => Handling /\ cur' = cur
  PROVE  SessionOrder'
<1>1. Logged' = Logged /\ Current' = Current
  BY DEF Logged, Current
<1> QED BY <1>1 DEF SessionOrder

(* A step of another thread.                                               *)
LEMMA SessionKept ==
  ASSUME SessionOrder,
         UNCHANGED <<imports, peer, inbound, kind, st, sess, paceLog, sockOf,
                     tcpPc, cur, sock>>
  PROVE  SessionOrder'
BY SessionMoves DEF SessionOrder, Unread, Unserved, Greeting, Serving, Handling

(* No step mixes the commands of two connections.                          *)
LEMMA SessionStep ==
  ASSUME TypeOK, Placement, SessionOrder, PacerHolds, [Next]_vars
  PROVE  SessionOrder'
<1> USE DEF clientVars, tcpVars, pacerVars
<1>0. /\ OnePlace /\ ReadOnce
      /\ st \in [Cmds -> {"new", "sent", "replied"}]
      /\ sess \in [Cmds -> Nat] /\ imports \in Nat
  BY DEF Placement, TypeOK, ClientTypes
<1>1. CASE ClientConnect
  <2>1. /\ imports' = imports + 1 /\ peer = "none" /\ inbound' = <<>>
        /\ UNCHANGED <<kind, st, sess, paceLog, sockOf, tcpPc, cur, sock>>
    BY <1>1 DEF ClientConnect
  <2>2. tcpPc \in {"accept", "exited"}
    BY <2>1 DEF SessionOrder
  <2>3. ~Unserved' /\ ~Serving' /\ ~Handling'
    BY <2>1, <2>2 DEF Unserved, Greeting, Serving, Handling
  <2>4. \A c \in Cmds : sess'[c] <= imports /\ sess'[c] \in Nat
    BY <1>0, <2>1 DEF SessionOrder
  <2>5. Logged' = Logged /\ Logged \subseteq Cmds /\ Unread' = {}
    BY <2>1 DEF Logged, Unread, ToSet, TypeOK, PacerTypes
  <2>6. Current' = {}
    BY <1>0, <2>1, <2>4, <2>5 DEF Current
  <2>7. \A c \in Cmds : sess'[c] <= imports'
    BY <1>0, <2>1, <2>4
  <2> QED BY <2>1, <2>2, <2>3, <2>5, <2>6, <2>7 DEF SessionOrder
<1>2. CASE ClientClose
  <2>1. Unread' = {}
    BY <1>2 DEF ClientClose, Unread, ToSet
  <2> QED BY <1>2, <2>1, SessionMoves
          DEF ClientClose, SessionOrder, Unserved, Greeting, Serving, Handling
<1>3. CASE AcceptDead
  BY <1>3, SessionMoves
  DEF AcceptDead, LoopTop, Unread, Unserved, Greeting, Serving, Handling
<1>4. CASE Publish
  BY <1>4, SessionMoves
  DEF Publish, SessionOrder, Unread, Unserved, Greeting, Serving, Handling
<1>5. ASSUME NEW code \in {"import", "devlist"}, ReceiveHeader(code)
      PROVE  SessionOrder'
  BY <1>5, SessionMoves
  DEF ReceiveHeader, SessionOrder, Unread, Unserved, Greeting, Serving, Handling
<1>6. CASE Listen
  BY <1>6, SessionMoves
  DEF Listen, SessionOrder, Unread, Unserved, Greeting, Serving, Handling
<1>7. CASE ConnectPipe
  BY <1>7, SessionMoves DEF ConnectPipe, ServeTop, SessionOrder, Unread,
     Unserved, Greeting, Serving, Handling
<1>8. CASE ReceiveFails
  BY <1>8, SessionMoves
  DEF ReceiveFails, SessionOrder, Unread, Unserved, Greeting, Serving, Handling
<1>9. CASE TakeReply
  BY <1>9, SessionMoves
  DEF TakeReply, SessionOrder, Unread, Unserved, Greeting, Serving, Handling
<1>10. CASE ReplyTimeout
  BY <1>10, SessionMoves
  DEF ReplyTimeout, SessionOrder, Unread, Unserved, Greeting, Serving, Handling
<1>11. CASE TakeInput
  BY <1>11, SessionMoves
  DEF TakeInput, SessionOrder, Unread, Unserved, Greeting, Serving, Handling
<1>12. CASE InputTimeout
  BY <1>12, SessionMoves
  DEF InputTimeout, SessionOrder, Unread, Unserved, Greeting, Serving, Handling
<1>13. CASE ReplyHeader
  BY <1>13, SessionMoves
  DEF ReplyHeader, SessionOrder, Unread, Unserved, Greeting, Serving, Handling
<1>14. CASE ReplyBody
  <2>1. /\ UNCHANGED <<imports, peer, inbound, kind, sess, paceLog, sockOf,
                       cur, sock>>
        /\ tcpPc = "body" /\ tcpPc' \in {"clear", "recv"}
        /\ st' \in {st, [st EXCEPT ![cur] = "replied"]}
    BY <1>14 DEF ReplyBody, ServeTop
  <2>2. cur \in Cmds /\ cur \notin Unread
    BY <1>0, <2>1 DEF OnePlace, Handling
  <2>3. /\ Unread' = Unread /\ Logged' = Logged /\ Current' = Current
        /\ Serving /\ Serving' /\ ~Unserved' /\ ~Handling'
    BY <2>1 DEF Unread, Logged, Current, Serving, Unserved, Greeting, Handling
  <2>4. \A c \in Unread : st'[c] = st[c]
    BY <1>0, <2>1, <2>2 DEF Unread
  <2> QED BY <2>1, <2>3, <2>4 DEF SessionOrder
<1>15. CASE Pace
  <2>1. /\ UNCHANGED <<imports, peer, inbound, kind, st, sess, cur, sock>>
        /\ tcpPc = "reply" /\ tcpPc' \in {"clear", "recv"}
        /\ kind[cur] \in IsoKinds /\ paceLog' = Append(paceLog, cur)
        /\ sockOf' = [sockOf EXCEPT ![cur] = sock]
    BY <1>15 DEF Pace, ServeTop, PacedKind
  <2>2. /\ cur \in Cmds /\ cur \notin Logged /\ Logged \subseteq Cmds
        /\ sock # NoSock /\ sockOf \in [Cmds -> Handles \cup {NoSock}]
    BY <1>0, <2>1 DEF OnePlace, Handling, SessionOrder, Serving, Logged,
       TypeOK, PacerTypes, ToSet
  <2>3. Logged' = Logged \cup {cur}
    BY <2>1, <2>2, AppendElements DEF Logged, TypeOK, PacerTypes
  <2>4. /\ Unread' = Unread /\ Serving' /\ ~Unserved' /\ ~Handling'
        /\ peer \notin {"none", "backlog"}
    BY <2>1 DEF Unread, Serving, Unserved, Greeting, Handling, SessionOrder
  <2>5. \A c \in Logged' : kind'[c] \in IsoKinds /\ sockOf'[c] # NoSock
    BY <2>1, <2>2, <2>3 DEF SessionOrder
  <2> QED BY <2>1, <2>2, <2>4, <2>5 DEF SessionOrder
<1>16. CASE ClearPaced
  BY <1>16, SessionMoves
  DEF ClearPaced, SessionOrder, Unread, Unserved, Greeting, Serving, Handling
<1>17. CASE DisconnectPipe
  BY <1>17, SessionMoves
  DEF DisconnectPipe, SessionOrder, Unread, Unserved, Greeting, Serving, Handling
<1>18. CASE CloseSocket
  <2>1. Unread' = {}
    BY <1>18 DEF CloseSocket, Unread, ToSet
  <2> QED BY <1>18, <2>1, SessionMoves
          DEF CloseSocket, LoopTop, Unserved, Greeting, Serving, Handling
<1>19. CASE ReadFrame
  BY <1>19, SessionKept DEF ReadFrame
<1>20. CASE ReaderExit
  BY <1>20, SessionKept DEF ReaderExit
<1>21. CASE DaemonOpen
  BY <1>21, SessionKept DEF DaemonOpen
<1>22. CASE DaemonInput
  BY <1>22, SessionKept DEF DaemonInput
<1>23. CASE DaemonClose
  BY <1>23, SessionKept DEF DaemonClose
<1>24. CASE PacerCheck
  BY <1>24, SessionKept DEF PacerCheck
<1>25. CASE PacerWait
  BY <1>25, SessionKept DEF PacerWait
<1>26. CASE PacerTimer
  BY <1>26, SessionKept DEF PacerTimer
<1>27. CASE PacerTake
  BY <1>27, SessionKept DEF PacerTake
<1>28. CASE PacerSend
  <2>1. /\ UNCHANGED <<imports, peer, inbound, kind, sess, paceLog, sockOf,
                       tcpPc, cur, sock>>
        /\ inHand \in Logged
        /\ st' \in {st, [st EXCEPT ![inHand] = "replied"]}
    BY <1>28 DEF PacerSend, Deliver, PacerHolds
  <2>2. /\ inHand \notin Unread /\ (Handling => inHand # cur /\ cur \in Cmds)
    BY <1>0, <2>1 DEF OnePlace
  <2>3. /\ Unread' = Unread /\ Logged' = Logged /\ Current' = Current
        /\ Serving' = Serving /\ Unserved' = Unserved /\ Handling' = Handling
    BY <2>1 DEF Unread, Logged, Current, Serving, Unserved, Greeting, Handling
  <2>4. /\ \A c \in Unread : st'[c] = st[c]
        /\ Handling => st'[cur] = st[cur]
    BY <1>0, <2>1, <2>2 DEF Unread
  <2> QED BY <2>1, <2>3, <2>4 DEF SessionOrder
<1>29. CASE StopBegin
  BY <1>29, SessionKept DEF StopBegin
<1>30. CASE StopShutdown
  BY <1>30, SessionKept DEF StopShutdown
<1>31. CASE StopPoke
  BY <1>31, SessionKept DEF StopPoke
<1>32. CASE StopJoinTcp
  BY <1>32, SessionKept DEF StopJoinTcp
<1>33. CASE StopJoinReader
  BY <1>33, SessionKept DEF StopJoinReader
<1>34. CASE StopJoinPacer
  BY <1>34, SessionKept DEF StopJoinPacer
<1>35. CASE Tick
  BY <1>35, SessionKept DEF Tick
<1>36. ASSUME NEW c \in Cmds, NEW k \in AllKinds,
              NEW r \in Reports \cup {NoReport}, ClientSubmit(c, k, r)
      PROVE  SessionOrder'
  <2>1. /\ inbound' = Append(inbound, [op |-> "submit", cmd |-> c])
        /\ UNCHANGED <<imports, peer, tcpPc, cur, sock, paceLog, sockOf>>
        /\ st[c] = "new" /\ peer = "open"
        /\ st' = [st EXCEPT ![c] = "sent"]
        /\ sess' = [sess EXCEPT ![c] = imports]
        /\ kind' = [kind EXCEPT ![c] = k]
    BY <1>36 DEF ClientSubmit
  <2>2. c \notin Unread \cup Logged /\ (Handling => c # cur /\ cur \in Cmds)
    BY <1>0, <2>1 DEF OnePlace
  <2>3. Unread' = Unread \cup {c}
    BY <1>0, <2>1, <2>2, InboundAppend
  <2>4. /\ Logged' = Logged /\ Logged \subseteq Cmds
        /\ Unserved' = Unserved /\ Serving' = Serving /\ Handling' = Handling
    BY <2>1 DEF Logged, Unserved, Greeting, Serving, Handling, ToSet, TypeOK, PacerTypes
  <2>5. \A x \in Cmds \ {c} : /\ sess'[x] = sess[x] /\ st'[x] = st[x]
                              /\ kind'[x] = kind[x]
    BY <1>0, <2>1 DEF TypeOK, ClientTypes
  <2>6. sess'[c] = imports /\ st'[c] = "sent"
    BY <1>0, <2>1
  <2>7. Current' = Current
    BY <2>1, <2>2, <2>4, <2>5 DEF Current
  <2>8. Unread \subseteq Cmds /\ c \notin Unread
    BY <2>2 DEF Unread
  <2>9. \A x \in Unread' : sess'[x] = imports' /\ st'[x] = "sent"
    BY <2>1, <2>3, <2>5, <2>6, <2>8 DEF SessionOrder
  <2>10. Handling' => sess'[cur'] = imports' /\ st'[cur'] = "sent"
    BY <2>1, <2>2, <2>4, <2>5 DEF SessionOrder
  <2>11. \A x \in Cmds : sess'[x] <= imports'
    BY <1>0, <2>1, <2>5, <2>6 DEF SessionOrder
  <2>12. \A x \in Logged' : kind'[x] \in IsoKinds /\ sockOf'[x] # NoSock
    BY <2>1, <2>2, <2>4, <2>5 DEF SessionOrder
  <2> QED BY <2>1, <2>4, <2>7, <2>9, <2>10, <2>11, <2>12 DEF SessionOrder
<1>37. ASSUME NEW c \in Cmds, ClientUnlink(c)
      PROVE  SessionOrder'
  <2>1. inbound' = Append(inbound, [op |-> "unlink", cmd |-> c])
    BY <1>37 DEF ClientUnlink
  <2>2. Unread' = Unread
    BY <2>1, InboundAppend
  <2> QED BY <1>37, <2>2, SessionMoves
          DEF ClientUnlink, SessionOrder, Unserved, Greeting, Serving, Handling
<1>38. ASSUME NEW h \in Handles, Accept(h)
      PROVE  SessionOrder'
  <2>1. h # NoSock
    BY NoneDistinct
  <2> QED BY <1>38, <2>1, SessionMoves
          DEF Accept, Unread, Unserved, Greeting, Serving, Handling
<1>39. ASSUME NEW c \in Cmds, ReceiveUnlink(c)
      PROVE  SessionOrder'
  <2>1. Unread' \subseteq Unread
    BY <1>0, <1>39, InboundTake DEF ReceiveUnlink
  <2> QED BY <1>39, <2>1, SessionMoves DEF ReceiveUnlink, Receive, ServeTop,
          SessionOrder, Unserved, Greeting, Serving, Handling
<1>40. ASSUME NEW c \in Cmds, ReceiveSubmit(c)
      PROVE  SessionOrder'
  <2>1. /\ UNCHANGED <<imports, peer, kind, st, sess, sock, paceLog, sockOf>>
        /\ cur' = c /\ tcpPc = "recv" /\ Receive("submit", c)
        /\ tcpPc' \in {"clear", "feature", "hid", "reply"}
    BY <1>40 DEF ReceiveSubmit, Receive
  <2>2. Unread' \subseteq Unread /\ c \in Unread
    BY <1>0, <2>1, InboundTake
  <2>3. /\ Logged' = Logged /\ Current' = Current
        /\ Serving /\ Serving' /\ ~Unserved'
    BY <2>1 DEF Logged, Current, Serving, Unserved, Greeting
  <2> QED BY <2>1, <2>2, <2>3 DEF SessionOrder
<1>41. ASSUME NEW answered \in BOOLEAN, DaemonAnswer(answered)
      PROVE  SessionOrder'
  BY <1>41, SessionKept DEF DaemonAnswer
<1>42. CASE UNCHANGED vars
  BY <1>42, SessionKept DEF vars
<1>43. CASE ImportHeader \/ Devlist \/ DevlistEnd
  BY <1>43, SessionMoves
  DEF ImportHeader, Devlist, DevlistEnd, SendUnlocked, SessionOrder, Unread, Unserved, Greeting, Serving, Handling
<1> QED
  BY <1>1, <1>2, <1>3, <1>4, <1>5, <1>6, <1>7, <1>8, <1>9, <1>10, <1>11,
     <1>12, <1>13, <1>14, <1>15, <1>16, <1>17, <1>18, <1>19, <1>20, <1>21,
     <1>22, <1>23, <1>24, <1>25, <1>26, <1>27, <1>28, <1>29, <1>30, <1>31,
     <1>32, <1>33, <1>34, <1>35, <1>36, <1>37, <1>38, <1>39, <1>40, <1>41,
     <1>42, <1>43
  DEF Next, ClientStep, TcpStep, ReaderStep, DaemonStep, PacerStep, StopStep

-----------------------------------------------------------------------------
(* The pacer.                                                              *)

Pacing == PacerHolds /\ NoneLost /\ Spaced /\ InOrder

(* What paceLog lists is logged, and every logged command is one.          *)
LEMMA LogEntries ==
  ASSUME TypeOK
  PROVE  /\ Logged \subseteq Cmds
         /\ \A i \in DOMAIN paceLog : paceLog[i] \in Logged
         /\ \A c \in Cmds : due[c] \in Nat
         /\ DOMAIN paceLog = 1 .. Len(paceLog) /\ Len(paceLog) \in Nat
BY DEF TypeOK, PacerTypes, Logged, ToSet

(* A step that touches no audio command.                                   *)
LEMMA PacingKept ==
  ASSUME TypeOK, Pacing, now' \in Nat, now' >= now,
         UNCHANGED <<imports, paced, due, paceLog, sockOf, anchor, inHand>>,
         \A c \in Logged : /\ kind'[c] = kind[c] /\ st'[c] = st[c]
                           /\ sess'[c] = sess[c],
         Live' => Live /\ sock' = sock, Serving' => Serving,
         pacerPc' = "sending" <=> pacerPc = "sending"
  PROVE  Pacing'
<1>1. Logged' = Logged /\ Current' = Current /\ Current \subseteq Logged
  BY DEF Logged, Current
<1>2. /\ Logged \subseteq Cmds /\ (\A i \in DOMAIN paceLog : paceLog[i] \in Logged)
      /\ now \in Nat /\ \A c \in Cmds : due[c] \in Nat
  BY LogEntries DEF TypeOK, StopTypes
<1>3. \A c \in Logged : Held(c)' = Held(c)
  BY DEF Held
<1>4. \A c, d \in Logged : Precedes(c, d)' = Precedes(c, d)
  BY DEF Precedes
<1>5. PacerHolds'
  BY <1>1, <1>2 DEF Pacing, PacerHolds
<1>6. NoneLost'
  BY <1>1, <1>2, <1>3 DEF Pacing, NoneLost
<1>7. Spaced'
  BY <1>1, <1>4 DEF Pacing, Spaced
<1>8. InOrder'
  BY <1>1, <1>3, <1>4 DEF Pacing, InOrder
<1> QED BY <1>5, <1>6, <1>7, <1>8 DEF Pacing

(* A step to a connection that has no audio command yet.                   *)
LEMMA PacingNew ==
  ASSUME TypeOK, Pacing, Current' = {},
         UNCHANGED <<kind, st, sess, paced, due, paceLog, inHand, pacerPc, now>>
  PROVE  Pacing'
<1>1. Logged' = Logged
  BY DEF Logged
<1>2. \A c \in Logged' : sess'[c] # imports'
  BY DEF Current
<1>3. PacerHolds' /\ NoneLost' /\ Spaced'
  BY <1>1 DEF Pacing, PacerHolds, NoneLost, Spaced, Precedes
<1>4. InOrder'
  BY <1>2 DEF InOrder
<1> QED BY <1>3, <1>4 DEF Pacing

(* A reply is never due before the anchor of its direction.                *)
LEMMA DuePastAnchor ==
  ASSUME TypeOK, NEW k \in IsoKinds
  PROVE  /\ DueTime(k) \in Nat
         /\ anchor[k] \in Nat /\ (anchor[k] # 0 => DueTime(k) >= anchor[k])
BY BoundsNat DEF TypeOK, PacerTypes, StopTypes, DueTime

(* Handing a reply to the pacer keeps its stream spaced and in order.      *)
LEMMA PacingPace ==
  ASSUME TypeOK, Placement, SessionOrder, Pacing, Pace
  PROVE  Pacing'
<1> USE DEF clientVars, tcpVars
<1> DEFINE k == kind[cur]
           t == DueTime(k)
           L == Len(paceLog)
<1>1. /\ UNCHANGED <<imports, peer, kind, st, sess, sock, shut, inHand, cur, now>>
      /\ tcpPc = "reply" /\ k \in IsoKinds /\ Direction(k) = k
      /\ (pacerPc' = "sending" <=> pacerPc = "sending")
      /\ due' = [due EXCEPT ![cur] = t]
      /\ anchor' = [anchor EXCEPT ![k] = t + IsoTicks]
      /\ sockOf' = [sockOf EXCEPT ![cur] = sock]
      /\ paceLog' = Append(paceLog, cur)
  BY DEF Pace, PacedKind, IsoKinds, Direction, Notified
<1>2. /\ cur \in Cmds /\ cur \notin Logged /\ cur \notin ToSet(paced)
      /\ sess[cur] = imports /\ st[cur] = "sent" /\ Serving
  BY <1>1 DEF Placement, OnePlace, Handling, SessionOrder, Serving
<1>3. /\ Logged \subseteq Cmds /\ (\A i \in DOMAIN paceLog : paceLog[i] \in Logged)
      /\ (\A c \in Cmds : due[c] \in Nat) /\ now \in Nat
      /\ DOMAIN paceLog = 1 .. L /\ L \in Nat /\ IsoTicks \in Nat \ {0}
  BY LogEntries, BoundsNat DEF TypeOK, StopTypes
<1>4. t \in Nat /\ anchor[k] \in Nat /\ (anchor[k] # 0 => t >= anchor[k])
  BY <1>1, DuePastAnchor
<1>5. /\ paced \in Seq(Cmds) /\ ToSet(paced') = ToSet(paced) \cup {cur}
  <2>1. PICK i \in 1 .. Len(paced) + 1 : paced' = Splice(paced, i, <<cur>>)
    BY DEF Pace
  <2>2. paced \in Seq(Cmds)
    BY DEF TypeOK, PacerTypes
  <2> DEFINE s == <<cur>>
  <2>3. s \in Seq(Cmds) /\ ToSet(s) = {cur} /\ paced' = Splice(paced, i, s)
    BY <1>2, <2>1 DEF ToSet
  <2> HIDE DEF s
  <2>4. ToSet(Splice(paced, i, s)) = ToSet(paced) \cup ToSet(s)
    BY <2>1, <2>2, <2>3, SpliceElements
  <2> QED BY <2>2, <2>3, <2>4
<1>6. Logged' = Logged \cup {cur} /\ Current' = Current \cup {cur}
  <2>1. Logged' = Logged \cup {cur}
    BY <1>1, <1>2, AppendElements DEF Logged, TypeOK, PacerTypes
  <2> QED BY <1>1, <1>2, <2>1 DEF Current
<1>7. /\ due'[cur] = t /\ sockOf'[cur] = sock /\ anchor'[k] = t + IsoTicks
      /\ \A c \in Logged : due'[c] = due[c] /\ sockOf'[c] = sockOf[c]
      /\ \A x \in IsoKinds \ {k} : anchor'[x] = anchor[x]
  BY <1>1, <1>2, <1>3 DEF TypeOK, PacerTypes
<1>8. Live' = Live /\ Current \subseteq Logged
  BY <1>1 DEF Live, SocketDead, Current
<1>9. /\ \A c \in Current : anchor[kind[c]] >= due[c] + IsoTicks
      /\ Live => \A c \in Current : Held(c) /\ sockOf[c] = sock
  BY <1>2 DEF Pacing, NoneLost
<1>10. \A c \in Cmds : Held(c) => Held(c)'
  BY <1>1, <1>5 DEF Held
<1>11. inHand # cur
  BY <1>2, NoneDistinct DEF Pacing, PacerHolds
<1>12. ASSUME NEW c \in Current, kind[c] = k PROVE t >= due[c] + IsoTicks
  BY <1>3, <1>4, <1>8, <1>9, <1>12
<1> HIDE DEF k, t, L
<1>13. PacerHolds'
  BY <1>1, <1>2, <1>3, <1>6, <1>7 DEF Pacing, PacerHolds
<1>14. NoneLost'
  <2>1. Live' => \A c \in Current' : sockOf'[c] = sock'
    BY <1>1, <1>6, <1>7, <1>8, <1>9
  <2>3. ASSUME Live', NEW c \in Current' PROVE Held(c)'
    <3>1. CASE c \in Current
      <4>1. c \in Cmds /\ Held(c)
        BY <1>3, <1>8, <1>9, <2>3, <3>1
      <4> QED BY <1>10, <4>1
    <3>2. CASE c = cur
      BY <1>1, <1>5, <3>2 DEF Held
    <3> QED BY <1>6, <2>3, <3>1, <3>2
  <2>4. ASSUME NEW c \in Current
        PROVE  anchor'[kind'[c]] >= due'[c] + IsoTicks
    <3>1. CASE kind[c] = k
      BY <1>1, <1>3, <1>4, <1>7, <1>8, <1>12, <3>1
    <3>2. CASE kind[c] # k
      BY <1>1, <1>7, <1>8, <1>9, <3>2 DEF SessionOrder
    <3> QED BY <3>1, <3>2
  <2>5. anchor'[kind'[cur]] >= due'[cur] + IsoTicks
    BY <1>1, <1>3, <1>4, <1>7 DEF k
  <2> QED BY <1>6, <2>1, <2>3, <2>4, <2>5 DEF NoneLost
<1>15. /\ DOMAIN paceLog' = 1 .. L + 1 /\ paceLog'[L + 1] = cur
       /\ \A i \in 1 .. L : paceLog'[i] = paceLog[i]
  <2>1. paceLog \in Seq(Cmds)
    BY DEF TypeOK, PacerTypes
  <2> QED BY <1>1, <1>2, <2>1 DEF L
<1>16. ASSUME NEW c \in Logged', NEW d \in Logged', Precedes(c, d)'
       PROVE  /\ c \in Logged
              /\ d = cur => c \in Current /\ kind[c] = k
              /\ d # cur => d \in Logged /\ Precedes(c, d)
  <2>1. PICK i \in 1 .. L + 1, j \in 1 .. L + 1 :
               i < j /\ paceLog'[i] = c /\ paceLog'[j] = d
    BY <1>15, <1>16 DEF Precedes
  <2>2. i \in 1 .. L /\ (d # cur => j \in 1 .. L)
    BY <1>3, <1>15, <2>1
  <2>3. c = paceLog[i] /\ (d # cur => d = paceLog[j])
    BY <1>15, <2>1, <2>2
  <2>4. c \in Logged /\ kind[c] = kind[d] /\ sess[c] = sess[d]
    BY <1>1, <1>3, <1>16, <2>2, <2>3 DEF Precedes
  <2>5. d = cur => c \in Current /\ kind[c] = k
    BY <1>2, <2>4 DEF Current, k
  <2>6. d # cur => d \in Logged /\ Precedes(c, d)
    BY <1>3, <2>1, <2>2, <2>3, <2>4 DEF Precedes
  <2> QED BY <2>4, <2>5, <2>6
<1>17. Spaced'
  <2> SUFFICES ASSUME NEW c \in Logged', NEW d \in Logged', Precedes(c, d)'
               PROVE  due'[d] >= due'[c] + IsoTicks
    BY DEF Spaced
  <2>1. CASE d = cur
    BY <1>7, <1>8, <1>12, <1>16, <2>1
  <2>2. CASE d # cur
    BY <1>7, <1>16, <2>2 DEF Pacing, Spaced
  <2> QED BY <2>1, <2>2
<1>18. InOrder'
  <2> SUFFICES ASSUME NEW c \in Logged', NEW d \in Logged', Precedes(c, d)',
                      sess[d] = imports
               PROVE  /\ st[d] = "replied" => st[c] = "replied"
                      /\ Live /\ d = inHand => st[c] = "replied"
                      /\ Live /\ d \in ToSet(paced') => Held(c)'
    BY <1>1, <1>8 DEF InOrder
  <2>1. CASE d = cur
    <3>1. c \in Current /\ c \in Cmds
      BY <1>3, <1>16, <2>1
    <3> QED BY <1>2, <1>9, <1>10, <1>11, <2>1, <3>1
  <2>2. CASE d # cur
    <3>1. /\ st[d] = "replied" => st[c] = "replied"
          /\ Live /\ d = inHand => st[c] = "replied"
          /\ Live /\ d \in ToSet(paced) => Held(c)
      BY <1>16, <2>2 DEF Pacing, InOrder
    <3> QED BY <1>3, <1>5, <1>10, <1>16, <2>2, <3>1
  <2> QED BY <2>1, <2>2
<1> QED BY <1>13, <1>14, <1>17, <1>18 DEF Pacing

(* The pacer takes the head, whose predecessors have all been sent.        *)
LEMMA PacingTake ==
  ASSUME TypeOK, Placement, Pacing, PacerTake
  PROVE  Pacing'
<1> USE DEF clientVars, tcpVars
<1>1. /\ UNCHANGED <<imports, peer, kind, st, sess, sock, shut, tcpPc, due, sockOf,
                     anchor, paceLog, now>>
      /\ paced # <<>> /\ inHand' = Head(paced) /\ paced' = Tail(paced)
      /\ pacerPc = "decided" /\ pacerPc' = "sending" /\ due[Head(paced)] <= now
  BY DEF PacerTake
<1>2. /\ Logged \subseteq Cmds /\ (\A i \in DOMAIN paceLog : paceLog[i] \in Logged)
      /\ (\A c \in Cmds : due[c] \in Nat) /\ IsoTicks \in Nat \ {0}
  BY LogEntries, BoundsNat
<1>3. /\ paced \in Seq(Cmds) /\ Head(paced) \in Cmds /\ Head(paced) = paced[1]
      /\ 1 \in DOMAIN paced
      /\ ToSet(paced) = ToSet(paced') \cup {Head(paced)}
      /\ ToSet(paced) \subseteq Logged
  BY <1>1, TailElements DEF TypeOK, PacerTypes, Placement, OnePlace
<1>4. /\ Logged' = Logged /\ Current' = Current /\ Live' = Live
      /\ Serving' = Serving /\ inHand = NoCmd /\ Current \subseteq Logged
  BY <1>1 DEF Logged, Current, Live, SocketDead, Serving, Pacing, PacerHolds
<1>5. \A c \in Cmds : Held(c) => Held(c)'
  BY <1>1, <1>3, <1>4, NoneDistinct DEF Held
<1>6. \A c, d \in Logged : Precedes(c, d)' = Precedes(c, d)
  BY <1>1 DEF Precedes
<1>7. PacerHolds'
  BY <1>1, <1>3, <1>4 DEF Pacing, PacerHolds
<1>8. NoneLost'
  BY <1>1, <1>2, <1>4, <1>5 DEF Pacing, NoneLost
<1>9. Spaced'
  BY <1>1, <1>4, <1>6 DEF Pacing, Spaced
<1>10. InOrder'
  <2> SUFFICES ASSUME NEW c \in Logged, NEW d \in Logged,
                      Precedes(c, d), sess[d] = imports
               PROVE  /\ st[d] = "replied" => st[c] = "replied"
                      /\ Live /\ d = inHand' => st[c] = "replied"
                      /\ Live /\ d \in ToSet(paced') => Held(c)'
    BY <1>1, <1>4, <1>6 DEF InOrder
  <2>1. /\ c \in Cmds /\ d \in Cmds /\ due[d] >= due[c] + IsoTicks
        /\ st[d] = "replied" => st[c] = "replied"
        /\ Live /\ d \in ToSet(paced) => Held(c)
    BY <1>2 DEF Pacing, Spaced, InOrder
  <2>2. ASSUME d = Head(paced), c \in ToSet(paced) PROVE FALSE
    <3>1. PICK n \in DOMAIN paced : paced[n] = c
      BY <2>2 DEF ToSet
    <3>2. n = 1 \/ 1 < n
      BY <1>3
    <3>3. due[d] <= due[c]
      BY <1>2, <1>3, <2>1, <2>2, <3>1, <3>2 DEF Placement, PacedSorted
    <3> QED BY <1>2, <2>1, <3>3
  <2>3. Live /\ d = inHand' => st[c] = "replied"
    BY <1>1, <1>3, <1>4, <2>1, <2>2, NoneDistinct DEF Held
  <2>4. Live /\ d \in ToSet(paced') => Held(c)'
    BY <1>3, <1>5, <2>1
  <2> QED BY <2>1, <2>3, <2>4
<1> QED BY <1>7, <1>8, <1>9, <1>10 DEF Pacing

(* A reply it sends is delivered as long as its connection lives.          *)
LEMMA PacingSend ==
  ASSUME TypeOK, SessionOrder, Pacing, PacerSend
  PROVE  Pacing'
<1> USE DEF clientVars, tcpVars
<1> DEFINE h == inHand
<1>1. /\ UNCHANGED <<imports, peer, kind, sess, sock, shut, tcpPc, due, sockOf,
                     anchor, paceLog, paced, now>>
      /\ pacerPc = "sending" /\ pacerPc' = "lock" /\ inHand' = NoCmd /\ Deliver(h)
  BY DEF PacerSend
<1>2. /\ Logged \subseteq Cmds /\ (\A i \in DOMAIN paceLog : paceLog[i] \in Logged)
      /\ st \in [Cmds -> {"new", "sent", "replied"}]
  BY LogEntries DEF TypeOK, ClientTypes
<1>3. /\ Logged' = Logged /\ Current' = Current /\ Live' = Live
      /\ Serving' = Serving /\ Current \subseteq Logged
      /\ h \in Logged /\ due[h] <= now
  BY <1>1 DEF Logged, Current, Live, SocketDead, Serving, Pacing, PacerHolds
<1>4. \A c \in Cmds : st'[c] = IF c = h /\ sock = sockOf[h] /\ ~SocketDead
                               THEN "replied" ELSE st[c]
  BY <1>1, <1>2 DEF Deliver
<1>5. /\ sock = sockOf[h] /\ ~SocketDead => Live
      /\ h \in Current /\ Live => sock = sockOf[h] /\ ~SocketDead
  BY <1>3 DEF Live, SessionOrder, Pacing, NoneLost
<1> HIDE DEF h
<1>6. \A c \in Current : Live /\ Held(c) => Held(c)'
  BY <1>1, <1>2, <1>3, <1>4, <1>5 DEF Held, h
<1>7. \A c, d \in Logged : Precedes(c, d)' = Precedes(c, d)
  BY <1>1 DEF Precedes
<1>8. PacerHolds'
  BY <1>1, <1>2, <1>3, <1>4 DEF Pacing, PacerHolds
<1>9. NoneLost'
  BY <1>1, <1>3, <1>6 DEF Pacing, NoneLost
<1>10. Spaced'
  BY <1>1, <1>3, <1>7 DEF Pacing, Spaced
<1>11. InOrder'
  <2> SUFFICES ASSUME NEW c \in Logged, NEW d \in Logged,
                      Precedes(c, d), sess[d] = imports
               PROVE  /\ st'[d] = "replied" => st'[c] = "replied"
                      /\ Live /\ d = inHand' => st'[c] = "replied"
                      /\ Live /\ d \in ToSet(paced) => Held(c)'
    BY <1>1, <1>3, <1>7 DEF InOrder
  <2>1. /\ c \in Current /\ c \in Cmds /\ d \in Cmds
        /\ st[d] = "replied" => st[c] = "replied"
        /\ Live /\ d = h => st[c] = "replied"
        /\ Live /\ d \in ToSet(paced) => Held(c)
    BY <1>2 DEF Pacing, InOrder, Precedes, Current, h
  <2>2. st'[d] = "replied" => st'[c] = "replied"
    BY <1>4, <1>5, <2>1
  <2>3. inHand' # d
    BY <1>1, <2>1, NoneDistinct
  <2>4. Live /\ d \in ToSet(paced) => Held(c)'
    BY <1>6, <2>1
  <2> QED BY <2>2, <2>3, <2>4
<1> QED BY <1>8, <1>9, <1>10, <1>11 DEF Pacing

(* The end of a session drops what is queued, in all streams at once.      *)
LEMMA PacingClear ==
  ASSUME TypeOK, Pacing, ClearPaced
  PROVE  Pacing'
<1> USE DEF clientVars, tcpVars
<1>1. /\ UNCHANGED <<imports, peer, kind, st, sess, sock, shut, due, sockOf,
                     paceLog, pacerPc, inHand, now>>
      /\ paced' = <<>> /\ tcpPc' = "disconnect"
  BY DEF ClearPaced
<1>2. /\ Logged' = Logged /\ Current' = Current /\ Live' = Live /\ ~Serving'
      /\ ToSet(paced') = {}
  BY <1>1 DEF Logged, Current, Live, SocketDead, Serving, ToSet
<1>3. \A c, d \in Logged : Precedes(c, d)' = Precedes(c, d)
  BY <1>1 DEF Precedes
<1>4. PacerHolds' /\ NoneLost'
  BY <1>1, <1>2 DEF Pacing, PacerHolds, NoneLost
<1>5. Spaced'
  BY <1>1, <1>2, <1>3 DEF Pacing, Spaced
<1>6. InOrder'
  BY <1>1, <1>2, <1>3 DEF Pacing, InOrder
<1> QED BY <1>4, <1>5, <1>6 DEF Pacing

(* No step disturbs the order and the spacing of the audio replies.        *)
LEMMA PacingStep ==
  ASSUME TypeOK, Placement, SessionOrder, Pacing, [Next]_vars
  PROVE  Pacing'
<1> USE DEF clientVars, tcpVars, pacerVars
<1>0. now \in Nat
  BY DEF TypeOK, StopTypes
<1>1. CASE ClientConnect
  <2>1. Current' = {}
    <3>1. /\ imports' = imports + 1 /\ UNCHANGED <<sess, paceLog>>
      BY <1>1 DEF ClientConnect
    <3>2. Logged' = Logged /\ \A c \in Logged : sess[c] <= imports /\ sess[c] \in Nat
      BY <3>1, LogEntries DEF Logged, SessionOrder, TypeOK, ClientTypes
    <3>3. imports \in Nat
      BY DEF TypeOK, ClientTypes
    <3> QED BY <3>1, <3>2, <3>3 DEF Current
  <2> QED BY <1>1, <2>1, PacingNew DEF ClientConnect
<1>2. CASE ClientClose
  BY <1>0, <1>2, PacingKept
  DEF ClientClose, Live, SocketDead, Serving
<1>3. CASE AcceptDead
  BY <1>0, <1>3, PacingKept
  DEF AcceptDead, LoopTop, Live, SocketDead, Serving
<1>4. CASE Publish
  BY <1>0, <1>4, PacingKept
  DEF Publish, Live, SocketDead, Serving
<1>5. ASSUME NEW code \in {"import", "devlist"}, ReceiveHeader(code)
      PROVE  Pacing'
  BY <1>0, <1>5, PacingKept
  DEF ReceiveHeader, Live, SocketDead, Serving
<1>6. CASE Listen
  BY <1>0, <1>6, PacingKept
  DEF Listen, Live, SocketDead, Serving
<1>7. CASE ConnectPipe
  <2>1. Current' = {}
    BY <1>7 DEF ConnectPipe, SessionOrder, Unserved, Greeting, Current, Logged
  <2> QED BY <1>7, <2>1, PacingNew DEF ConnectPipe
<1>8. CASE ReceiveFails
  BY <1>0, <1>8, PacingKept
  DEF ReceiveFails, Live, SocketDead, Serving
<1>9. CASE TakeReply
  BY <1>0, <1>9, PacingKept
  DEF TakeReply, Live, SocketDead, Serving
<1>10. CASE ReplyTimeout
  BY <1>0, <1>10, PacingKept
  DEF ReplyTimeout, Live, SocketDead, Serving
<1>11. CASE TakeInput
  BY <1>0, <1>11, PacingKept
  DEF TakeInput, Live, SocketDead, Serving
<1>12. CASE InputTimeout
  BY <1>0, <1>12, PacingKept
  DEF InputTimeout, Live, SocketDead, Serving
<1>13. CASE ReplyHeader
  BY <1>0, <1>13, PacingKept
  DEF ReplyHeader, Live, SocketDead, Serving
<1>14. CASE ReplyBody
  <2>1. \A c \in Logged : st'[c] = st[c]
    <3>1. cur \in Cmds /\ cur \notin Logged
      BY <1>14 DEF ReplyBody, Placement, OnePlace, Handling
    <3>2. Logged \subseteq Cmds
      BY LogEntries
    <3> QED BY <1>14, <3>1, <3>2 DEF ReplyBody, TypeOK, ClientTypes
  <2> QED BY <1>0, <1>14, <2>1, PacingKept
          DEF ReplyBody, ServeTop, Live, SocketDead, Serving
<1>15. CASE Pace
  BY <1>15, PacingPace
<1>16. CASE ClearPaced
  BY <1>16, PacingClear
<1>17. CASE DisconnectPipe
  BY <1>0, <1>17, PacingKept
  DEF DisconnectPipe, Live, SocketDead, Serving
<1>18. CASE CloseSocket
  BY <1>0, <1>18, PacingKept
  DEF CloseSocket, LoopTop, Live, SocketDead, Serving
<1>19. CASE ReadFrame
  BY <1>0, <1>19, PacingKept
  DEF ReadFrame, Live, SocketDead, Serving
<1>20. CASE ReaderExit
  BY <1>0, <1>20, PacingKept
  DEF ReaderExit, Live, SocketDead, Serving
<1>21. CASE DaemonOpen
  BY <1>0, <1>21, PacingKept
  DEF DaemonOpen, Live, SocketDead, Serving
<1>22. CASE DaemonInput
  BY <1>0, <1>22, PacingKept
  DEF DaemonInput, Live, SocketDead, Serving
<1>23. CASE DaemonClose
  BY <1>0, <1>23, PacingKept
  DEF DaemonClose, Live, SocketDead, Serving
<1>24. CASE PacerCheck
  BY <1>0, <1>24, PacingKept
  DEF PacerCheck, Live, SocketDead, Serving
<1>25. CASE PacerWait
  BY <1>0, <1>25, PacingKept
  DEF PacerWait, Live, SocketDead, Serving
<1>26. CASE PacerTimer
  BY <1>0, <1>26, PacingKept
  DEF PacerTimer, Live, SocketDead, Serving
<1>27. CASE PacerTake
  BY <1>27, PacingTake
<1>28. CASE PacerSend
  BY <1>28, PacingSend
<1>29. CASE StopBegin
  BY <1>0, <1>29, PacingKept
  DEF StopBegin, Notified, Live, SocketDead, Serving
<1>30. CASE StopShutdown
  <2>1. Live' => Live /\ sock' = sock
    BY <1>30, Zenon DEF StopShutdown, Live, SocketDead
  <2> QED BY <1>0, <1>30, <2>1, PacingKept DEF StopShutdown, Serving
<1>31. CASE StopPoke
  BY <1>0, <1>31, PacingKept
  DEF StopPoke, Live, SocketDead, Serving
<1>32. CASE StopJoinTcp
  BY <1>0, <1>32, PacingKept
  DEF StopJoinTcp, Live, SocketDead, Serving
<1>33. CASE StopJoinReader
  BY <1>0, <1>33, PacingKept
  DEF StopJoinReader, Notified, Live, SocketDead, Serving
<1>34. CASE StopJoinPacer
  BY <1>0, <1>34, PacingKept
  DEF StopJoinPacer, Live, SocketDead, Serving
<1>35. CASE Tick
  BY <1>0, <1>35, PacingKept
  DEF Tick, Live, SocketDead, Serving
<1>36. ASSUME NEW c \in Cmds, NEW k \in AllKinds,
              NEW r \in Reports \cup {NoReport}, ClientSubmit(c, k, r)
      PROVE  Pacing'
  <2>1. \A x \in Logged : /\ kind'[x] = kind[x] /\ st'[x] = st[x]
                           /\ sess'[x] = sess[x]
    <3>1. c \notin Logged
      BY <1>36 DEF ClientSubmit, Placement, OnePlace
    <3>2. Logged \subseteq Cmds
      BY LogEntries
    <3> QED BY <1>36, <3>1, <3>2 DEF ClientSubmit, TypeOK, ClientTypes
  <2> QED BY <1>0, <1>36, <2>1, PacingKept
          DEF ClientSubmit, Live, SocketDead, Serving
<1>37. ASSUME NEW c \in Cmds, ClientUnlink(c)
      PROVE  Pacing'
  BY <1>0, <1>37, PacingKept
  DEF ClientUnlink, Live, SocketDead, Serving
<1>38. ASSUME NEW h \in Handles, Accept(h)
      PROVE  Pacing'
  <2>1. Current' = {}
    BY <1>38 DEF Accept, SessionOrder, Current, Logged
  <2> QED BY <1>38, <2>1, PacingNew DEF Accept
<1>39. ASSUME NEW c \in Cmds, ReceiveUnlink(c)
      PROVE  Pacing'
  BY <1>0, <1>39, PacingKept
  DEF ReceiveUnlink, Receive, ServeTop, Live, SocketDead, Serving
<1>40. ASSUME NEW c \in Cmds, ReceiveSubmit(c)
      PROVE  Pacing'
  BY <1>0, <1>40, PacingKept
  DEF ReceiveSubmit, Receive, Live, SocketDead, Serving
<1>41. ASSUME NEW answered \in BOOLEAN, DaemonAnswer(answered)
      PROVE  Pacing'
  BY <1>0, <1>41, PacingKept
  DEF DaemonAnswer, Live, SocketDead, Serving
<1>42. CASE UNCHANGED vars
  BY <1>0, <1>42, PacingKept
  DEF vars, stopVars, histVars, Live, SocketDead, Serving
<1>43. CASE ImportHeader \/ Devlist \/ DevlistEnd
  BY <1>0, <1>43, PacingKept
  DEF ImportHeader, Devlist, DevlistEnd, SendUnlocked, Live, SocketDead, Serving
<1> QED
  BY <1>1, <1>2, <1>3, <1>4, <1>5, <1>6, <1>7, <1>8, <1>9, <1>10, <1>11,
     <1>12, <1>13, <1>14, <1>15, <1>16, <1>17, <1>18, <1>19, <1>20, <1>21,
     <1>22, <1>23, <1>24, <1>25, <1>26, <1>27, <1>28, <1>29, <1>30, <1>31,
     <1>32, <1>33, <1>34, <1>35, <1>36, <1>37, <1>38, <1>39, <1>40, <1>41,
     <1>42, <1>43
  DEF Next, ClientStep, TcpStep, ReaderStep, DaemonStep, PacerStep, StopStep

-----------------------------------------------------------------------------
(* The input reports.                                                      *)

(* Moving every element of a set of positions down by one keeps its size.  *)
LEMMA ShiftCount ==
  ASSUME NEW S \in SUBSET (Nat \ {0}), IsFiniteSet(S),
         NEW T, T = {j \in Nat : j + 1 \in S}
  PROVE  Cardinality(T) = Cardinality(S)
<1> DEFINE f == [j \in S |-> j - 1]
<1>1. f \in [S -> T]
  OBVIOUS
<1>2. \A a, b \in S : f[a] = f[b] => a = b
  OBVIOUS
<1>3. ASSUME NEW t \in T PROVE \E s \in S : f[s] = t
  <2>1. t + 1 \in S /\ f[t + 1] = t
    OBVIOUS
  <2> QED BY <2>1
<1> HIDE DEF f
<1>4. f \in Bijection(S, T)
  BY <1>1, <1>2, <1>3 DEF Bijection, Injection, Surjection, IsInjective
<1>5. ExistsBijection(S, T)
  BY <1>4 DEF ExistsBijection
<1> QED BY <1>5, FS_Bijection

(* Push keeps the newest report at the end of the queue.                   *)
LEMMA PushInputLast ==
  ASSUME NEW q \in Seq(Nat), Len(q) <= HidMax, NEW n \in Nat
  PROVE  PushInput(q, n) # <<>> /\ Last(PushInput(q, n)) = n
<1>1. /\ Append(q, n) \in Seq(Nat) /\ Len(Append(q, n)) = Len(q) + 1
      /\ Append(q, n)[Len(q) + 1] = n /\ Len(q) \in Nat
  OBVIOUS
<1>2. CASE Len(q) < HidMax
  BY <1>1, <1>2 DEF PushInput, Last
<1>3. CASE ~(Len(q) < HidMax)
  <2>1. Len(q) >= 1
    BY <1>1, <1>3, BoundsNat
  <2> DEFINE t == Tail(Append(q, n))
  <2>2. t \in Seq(Nat) /\ Len(t) = Len(q) /\ t[Len(q)] = n
    BY <1>1, <2>1
  <2>3. t # <<>>
    BY <2>1, <2>2
  <2> QED BY <1>3, <2>2, <2>3 DEF PushInput, Last
<1> QED BY <1>2, <1>3

(* Taking the oldest report leaves the newest, unless it is the same.      *)
LEMMA TakeLast ==
  ASSUME NEW q \in Seq(Nat), q # <<>>
  PROVE  IF Tail(q) = <<>> THEN Head(q) = Last(q) ELSE Last(Tail(q)) = Last(q)
<1>1. /\ Head(q) = q[1] /\ Len(q) \in Nat /\ Len(q) > 0
      /\ Tail(q) \in Seq(Nat) /\ Len(Tail(q)) = Len(q) - 1
      /\ \A i \in 1 .. Len(q) - 1 : Tail(q)[i] = q[i + 1]
  OBVIOUS
<1>2. CASE Tail(q) = <<>>
  BY <1>1, <1>2 DEF Last
<1>3. CASE Tail(q) # <<>>
  <2>1. Len(q) - 1 \in 1 .. Len(q) - 1
    BY <1>1, <1>3
  <2> QED BY <1>1, <1>3, <2>1 DEF Last
<1> QED BY <1>2, <1>3

(* The reports behind a position of the pipe can be counted.               *)
LEMMA InputsCount ==
  ASSUME TypeOK, NEW i \in Nat
  PROVE  /\ IsFiniteSet(InputsAfter(i)) /\ InputsAfter(i) \in SUBSET (Nat \ {0})
         /\ Cardinality(InputsAfter(i)) \in Nat
<1>1. toHost \in Seq(Frames) /\ DOMAIN toHost = 1 .. Len(toHost) /\ Len(toHost) \in Nat
  BY DEF TypeOK, PipeTypes
<1>2. IsFiniteSet(1 .. Len(toHost))
  BY <1>1, FS_Interval
<1>3. InputsAfter(i) \in SUBSET (1 .. Len(toHost))
  BY <1>1 DEF InputsAfter
<1>4. IsFiniteSet(InputsAfter(i))
  BY <1>2, <1>3, FS_Subset
<1> QED BY <1>1, <1>3, <1>4, FS_CardinalityType

(* Most steps move no input report.                                        *)
LEMMA InputsKept ==
  ASSUME InputsStamped, UNCHANGED <<inputs, toHost, hidQueue, seen>>,
         daemon' = "starting" => daemon = "starting",
         ~PipeDead' /\ ~stopReq' => ~PipeDead /\ ~stopReq
  PROVE  InputsStamped'
<1>1. /\ \A i : InputsAfter(i)' = InputsAfter(i)
      /\ NewestRead' = NewestRead
  BY DEF InputsAfter, NewestRead
<1> QED BY <1>1 DEF InputsStamped

(* Nothing has been written.                                               *)
LEMMA InputsNone ==
  ASSUME inputs' = 0, toHost' = <<>>, hidQueue' = <<>>, seen' = 0
  PROVE  InputsStamped'
<1>1. DOMAIN toHost' = {}
  OBVIOUS
<1>2. InputsAfter(0)' = {} /\ NewestRead' = 0
  BY <1>1 DEF InputsAfter, NewestRead
<1>3. Cardinality(InputsAfter(0)') = 0
  BY <1>2, FS_EmptySet
<1> QED BY <1>1, <1>2, <1>3 DEF InputsStamped

(* pipe_reader_loop reads a frame.                                         *)
LEMMA InputsRead ==
  ASSUME TypeOK, InputsStamped, ReadFrame
  PROVE  InputsStamped'
<1> DEFINE e == Head(toHost)
           L == Len(toHost)
<1>1. /\ UNCHANGED <<daemon, pipe, inputs, stopReq, seen>>
      /\ toHost # <<>> /\ toHost' = Tail(toHost)
      /\ ~stopReq => hidQueue' = IF e.type = "HID_IN"
                                 THEN PushInput(hidQueue, e.stamp) ELSE hidQueue
  BY DEF ReadFrame, stopVars, histVars
<1>2. /\ toHost \in Seq(Frames) /\ e \in Frames /\ e = toHost[1]
      /\ L \in Nat /\ L >= 1 /\ DOMAIN toHost = 1 .. L
      /\ DOMAIN toHost' = 1 .. L - 1
      /\ \A i \in 1 .. L - 1 : toHost'[i] = toHost[i + 1]
  BY <1>1 DEF TypeOK, PipeTypes
<1>3. /\ e.stamp \in Nat /\ inputs \in Nat
      /\ hidQueue \in Seq(Nat) /\ Len(hidQueue) <= HidMax
  BY <1>2 DEF Frames, TypeOK, ReaderTypes, PipeTypes
<1> HIDE DEF e, L
<1>4. ASSUME NEW i \in Nat
      PROVE  Cardinality(InputsAfter(i)') = Cardinality(InputsAfter(i + 1))
  <2>1. InputsAfter(i)' = {j \in Nat : j + 1 \in InputsAfter(i + 1)}
    BY <1>2 DEF InputsAfter
  <2>2. /\ InputsAfter(i + 1) \in SUBSET (Nat \ {0})
        /\ IsFiniteSet(InputsAfter(i + 1))
    BY InputsCount
  <2> QED BY <2>1, <2>2, ShiftCount
<1>5. daemon # "starting"
  BY <1>1 DEF InputsStamped
<1>6. ASSUME NEW i \in DOMAIN toHost', toHost'[i].type = "HID_IN"
      PROVE  toHost'[i].stamp + Cardinality(InputsAfter(i)') = inputs
  <2>1. i \in Nat /\ i + 1 \in DOMAIN toHost /\ toHost'[i] = toHost[i + 1]
    BY <1>2
  <2> QED BY <1>4, <1>6, <2>1 DEF InputsStamped
<1>7. ASSUME ~PipeDead', ~stopReq'
      PROVE  NewestRead' + Cardinality(InputsAfter(0)') = inputs
  <2>1. /\ ~PipeDead /\ ~stopReq
        /\ NewestRead + Cardinality(InputsAfter(0)) = inputs
    BY <1>1, <1>7 DEF InputsStamped, PipeDead
  <2>2. Cardinality(InputsAfter(0)') = Cardinality(InputsAfter(1))
    BY <1>4
  <2>3. CASE e.type = "HID_IN"
    <3>1. e.stamp + Cardinality(InputsAfter(1)) = inputs
      BY <1>2, <2>3 DEF InputsStamped
    <3>2. NewestRead' = e.stamp
      BY <1>1, <1>3, <2>1, <2>3, PushInputLast DEF NewestRead
    <3> QED BY <2>2, <3>1, <3>2
  <2>4. CASE e.type # "HID_IN"
    <3>1. InputsAfter(0) = InputsAfter(1)
      BY <1>2, <2>4 DEF InputsAfter
    <3>2. NewestRead' = NewestRead
      BY <1>1, <2>1, <2>4 DEF NewestRead
    <3> QED BY <2>1, <2>2, <3>1, <3>2
  <2> QED BY <2>3, <2>4
<1> QED BY <1>1, <1>5, <1>6, <1>7 DEF InputsStamped

(* The daemon writes an input report ...                                   *)
LEMMA InputsWrite ==
  ASSUME TypeOK, InputsStamped, DaemonInput
  PROVE  InputsStamped'
<1> DEFINE e == InputFrame(inputs + 1)
<1>1. /\ UNCHANGED <<daemon, pipe, stopReq, hidQueue, seen>>
      /\ inputs' = inputs + 1 /\ toHost' = Append(toHost, e) /\ ~PipeDead
  BY DEF DaemonInput, stopVars, histVars, readerVars
<1>2. PICK L \in Nat : L = Len(toHost) /\ DOMAIN toHost = 1 .. L
  BY DEF TypeOK, PipeTypes
<1>3. /\ toHost \in Seq(Frames)
      /\ inputs \in Nat /\ e.type = "HID_IN" /\ e.stamp = inputs + 1
      /\ e \in Frames
  BY DEF TypeOK, PipeTypes, InputFrame, Frames
<1> HIDE DEF e
<1>4. /\ DOMAIN toHost' = 1 .. L + 1 /\ toHost'[L + 1] = e
      /\ \A i \in 1 .. L : toHost'[i] = toHost[i]
  BY <1>1, <1>2
<1>5. ASSUME NEW i \in 0 .. L
      PROVE  /\ Cardinality(InputsAfter(i)') = Cardinality(InputsAfter(i)) + 1
             /\ Cardinality(InputsAfter(i)) \in Nat
  <2>1. /\ InputsAfter(i)' = InputsAfter(i) \cup {L + 1}
        /\ L + 1 \notin InputsAfter(i)
    BY <1>2, <1>3, <1>4 DEF InputsAfter
  <2>2. IsFiniteSet(InputsAfter(i)) /\ Cardinality(InputsAfter(i)) \in Nat
    BY <1>2, <1>3, InputsCount
  <2> QED BY <2>1, <2>2, FS_AddElement
<1>6. Cardinality(InputsAfter(L + 1)') = 0
  <2>1. InputsAfter(L + 1)' = {}
    BY <1>2, <1>3, <1>4 DEF InputsAfter
  <2> QED BY <2>1, FS_EmptySet
<1>7. ASSUME NEW i \in DOMAIN toHost', toHost'[i].type = "HID_IN"
      PROVE  toHost'[i].stamp + Cardinality(InputsAfter(i)') = inputs'
  <2>1. CASE i = L + 1
    BY <1>1, <1>2, <1>3, <1>4, <1>6, <2>1
  <2>2. CASE i # L + 1
    <3>1. i \in 1 .. L /\ toHost'[i] = toHost[i]
      BY <1>2, <1>3, <1>4, <2>2
    <3>2. toHost[i].stamp + Cardinality(InputsAfter(i)) = inputs
      BY <1>2, <1>3, <1>7, <3>1 DEF InputsStamped
    <3>3. toHost[i] \in Frames
      BY <1>2, <1>3, <3>1
    <3>4. toHost[i].stamp \in Nat
      BY <3>3 DEF Frames
    <3> QED BY <1>1, <1>2, <1>3, <1>5, <3>1, <3>2, <3>4
  <2> QED BY <2>1, <2>2
<1>8. daemon # "starting"
  BY <1>1 DEF PipeDead
<1>9. ~stopReq => NewestRead' + Cardinality(InputsAfter(0)') = inputs'
  <2>1. ASSUME ~stopReq PROVE NewestRead + Cardinality(InputsAfter(0)) = inputs
    BY <1>1, <2>1 DEF InputsStamped
  <2>2. NewestRead' = NewestRead /\ NewestRead \in Nat
    <3>1. hidQueue \in Seq(Nat) /\ seen \in Nat
      BY DEF TypeOK, ReaderTypes, StopTypes
    <3> QED BY <1>1, <3>1 DEF NewestRead, Last
  <2>3. /\ Cardinality(InputsAfter(0)') = Cardinality(InputsAfter(0)) + 1
        /\ Cardinality(InputsAfter(0)) \in Nat
    BY <1>2, <1>3, <1>5
  <2> QED BY <1>1, <1>2, <1>3, <2>1, <2>2, <2>3
<1> QED BY <1>1, <1>7, <1>8, <1>9 DEF InputsStamped

(* ... or the answer to a request, which is none.                          *)
LEMMA InputsReply ==
  ASSUME TypeOK, InputsStamped, NEW answered \in BOOLEAN, DaemonAnswer(answered)
  PROVE  InputsStamped'
<1> DEFINE L == Len(toHost)
           e == ReplyFrame(rid[Head(toDaemon)])
<1>1. /\ UNCHANGED <<daemon, pipe, stopReq, hidQueue, seen, inputs>> /\ ~PipeDead
      /\ toHost' = IF answered THEN Append(toHost, e) ELSE toHost
      /\ toDaemon # <<>>
  BY DEF DaemonAnswer, stopVars, histVars, readerVars
<1>2. CASE ~answered
  BY <1>1, <1>2, InputsKept DEF PipeDead
<1>3. CASE answered
  <2>1. /\ toHost \in Seq(Frames) /\ L \in Nat /\ DOMAIN toHost = 1 .. L
        /\ e \in Frames /\ e.type = "FEATURE_REPLY"
    BY <1>1 DEF TypeOK, PipeTypes, ClientTypes, ReplyFrame, Frames
  <2> HIDE DEF e
  <2>2. /\ DOMAIN toHost' = 1 .. L + 1 /\ toHost'[L + 1] = e
        /\ \A i \in 1 .. L : toHost'[i] = toHost[i]
    BY <1>1, <1>3, <2>1
  <2> HIDE DEF L
  <2>3. \A i \in 0 .. L : InputsAfter(i)' = InputsAfter(i)
    BY <2>1, <2>2 DEF InputsAfter
  <2>4. NewestRead' = NewestRead
    BY <1>1 DEF NewestRead
  <2>5. ASSUME NEW i \in DOMAIN toHost', toHost'[i].type = "HID_IN"
        PROVE  toHost'[i].stamp + Cardinality(InputsAfter(i)') = inputs
    <3>1. i \in 1 .. L /\ toHost'[i] = toHost[i]
      BY <2>1, <2>2, <2>5
    <3> QED BY <2>1, <2>3, <2>5, <3>1 DEF InputsStamped
  <2>6. InputsAfter(0)' = InputsAfter(0) /\ daemon # "starting"
    BY <1>1, <2>1, <2>3 DEF PipeDead
  <2> QED BY <1>1, <2>4, <2>5, <2>6 DEF InputsStamped
<1> QED BY <1>2, <1>3

(* The host polls the oldest report of the queue.                          *)
LEMMA InputsTake ==
  ASSUME TypeOK, InputsStamped, TakeInput
  PROVE  InputsStamped'
<1>1. /\ UNCHANGED <<daemon, pipe, stopReq, inputs, toHost>>
      /\ hidQueue # <<>> /\ seen' = Head(hidQueue) /\ hidQueue' = Tail(hidQueue)
  BY DEF TakeInput, stopVars, pipeVars
<1>2. hidQueue \in Seq(Nat)
  BY DEF TypeOK, ReaderTypes
<1>3. NewestRead' = NewestRead
  BY <1>1, <1>2, TakeLast DEF NewestRead
<1>4. \A i : InputsAfter(i)' = InputsAfter(i)
  BY <1>1 DEF InputsAfter
<1> QED BY <1>1, <1>3, <1>4 DEF InputsStamped, PipeDead

(* No step puts the input reports out of order.                            *)
LEMMA InputsStep ==
  ASSUME TypeOK, InputsStamped, [Next]_vars
  PROVE  InputsStamped'
<1> USE DEF pipeVars, readerVars, stopVars, histVars
<1>1. CASE ClientConnect
  BY <1>1, InputsKept DEF ClientConnect, PipeDead
<1>2. CASE ClientClose
  BY <1>2, InputsKept DEF ClientClose, PipeDead
<1>3. CASE AcceptDead
  BY <1>3, InputsKept DEF AcceptDead, PipeDead
<1>4. CASE Publish
  BY <1>4, InputsKept DEF Publish, PipeDead
<1>5. ASSUME NEW code \in {"import", "devlist"}, ReceiveHeader(code)
      PROVE  InputsStamped'
  BY <1>5, InputsKept DEF ReceiveHeader, PipeDead
<1>6. CASE Listen
  BY <1>6, InputsKept DEF Listen, PipeDead
<1>7. CASE ConnectPipe
  BY <1>7, InputsKept DEF ConnectPipe, PipeDead
<1>8. CASE ReceiveFails
  BY <1>8, InputsKept DEF ReceiveFails, PipeDead
<1>9. CASE TakeReply
  BY <1>9, InputsKept DEF TakeReply, PipeDead
<1>10. CASE ReplyTimeout
  BY <1>10, InputsKept DEF ReplyTimeout, PipeDead
<1>11. CASE TakeInput
  BY <1>11, InputsTake
<1>12. CASE InputTimeout
  BY <1>12, InputsKept DEF InputTimeout, PipeDead
<1>13. CASE ReplyHeader
  BY <1>13, InputsKept DEF ReplyHeader, PipeDead
<1>14. CASE ReplyBody
  BY <1>14, InputsKept DEF ReplyBody, PipeDead
<1>15. CASE Pace
  BY <1>15, InputsKept DEF Pace, PipeDead
<1>16. CASE ClearPaced
  BY <1>16, InputsKept DEF ClearPaced, PipeDead
<1>17. CASE DisconnectPipe
  <2>1. /\ UNCHANGED <<daemon, inputs, hidQueue, seen>>
        /\ toHost' = <<>> /\ pipe' = "disconnected"
    BY <1>17 DEF DisconnectPipe
  <2> QED BY <2>1 DEF InputsStamped, PipeDead
<1>18. CASE CloseSocket
  BY <1>18, InputsKept DEF CloseSocket, PipeDead
<1>19. CASE ReadFrame
  BY <1>19, InputsRead
<1>20. CASE ReaderExit
  BY <1>20, InputsKept DEF ReaderExit, PipeDead
<1>21. CASE DaemonOpen
  <2>1. /\ inputs' = 0 /\ toHost' = <<>> /\ hidQueue' = <<>> /\ seen' = 0
    BY <1>21 DEF DaemonOpen, InputsStamped
  <2> QED BY <2>1, InputsNone
<1>22. CASE DaemonInput
  BY <1>22, InputsWrite
<1>23. CASE DaemonClose
  BY <1>23, InputsKept DEF DaemonClose, PipeDead
<1>24. CASE PacerCheck
  BY <1>24, InputsKept DEF PacerCheck, PipeDead
<1>25. CASE PacerWait
  BY <1>25, InputsKept DEF PacerWait, PipeDead
<1>26. CASE PacerTimer
  BY <1>26, InputsKept DEF PacerTimer, PipeDead
<1>27. CASE PacerTake
  BY <1>27, InputsKept DEF PacerTake, PipeDead
<1>28. CASE PacerSend
  BY <1>28, InputsKept DEF PacerSend, PipeDead
<1>29. CASE StopBegin
  BY <1>29, InputsKept DEF StopBegin, PipeDead
<1>30. CASE StopShutdown
  BY <1>30, InputsKept DEF StopShutdown, PipeDead
<1>31. CASE StopPoke
  BY <1>31, InputsKept DEF StopPoke, PipeDead
<1>32. CASE StopJoinTcp
  BY <1>32, InputsKept DEF StopJoinTcp, PipeDead
<1>33. CASE StopJoinReader
  BY <1>33, InputsKept DEF StopJoinReader, PipeDead
<1>34. CASE StopJoinPacer
  BY <1>34, InputsKept DEF StopJoinPacer, PipeDead
<1>35. CASE Tick
  BY <1>35, InputsKept DEF Tick, PipeDead
<1>36. ASSUME NEW c \in Cmds, NEW k \in AllKinds,
              NEW r \in Reports \cup {NoReport}, ClientSubmit(c, k, r)
      PROVE  InputsStamped'
  BY <1>36, InputsKept DEF ClientSubmit, PipeDead
<1>37. ASSUME NEW c \in Cmds, ClientUnlink(c)
      PROVE  InputsStamped'
  BY <1>37, InputsKept DEF ClientUnlink, PipeDead
<1>38. ASSUME NEW h \in Handles, Accept(h)
      PROVE  InputsStamped'
  BY <1>38, InputsKept DEF Accept, PipeDead
<1>39. ASSUME NEW c \in Cmds, ReceiveUnlink(c)
      PROVE  InputsStamped'
  BY <1>39, InputsKept DEF ReceiveUnlink, PipeDead
<1>40. ASSUME NEW c \in Cmds, ReceiveSubmit(c)
      PROVE  InputsStamped'
  BY <1>40, InputsKept DEF ReceiveSubmit, PipeDead
<1>41. ASSUME NEW answered \in BOOLEAN, DaemonAnswer(answered)
      PROVE  InputsStamped'
  BY <1>41, InputsReply
<1>42. CASE UNCHANGED vars
  BY <1>42, InputsKept DEF vars, PipeDead
<1>43. CASE ImportHeader \/ Devlist \/ DevlistEnd
  BY <1>43, InputsKept DEF ImportHeader, Devlist, DevlistEnd, SendUnlocked, PipeDead
<1> QED
  BY <1>1, <1>2, <1>3, <1>4, <1>5, <1>6, <1>7, <1>8, <1>9, <1>10, <1>11,
     <1>12, <1>13, <1>14, <1>15, <1>16, <1>17, <1>18, <1>19, <1>20, <1>21,
     <1>22, <1>23, <1>24, <1>25, <1>26, <1>27, <1>28, <1>29, <1>30, <1>31,
     <1>32, <1>33, <1>34, <1>35, <1>36, <1>37, <1>38, <1>39, <1>40, <1>41,
     <1>42, <1>43
  DEF Next, ClientStep, TcpStep, ReaderStep, DaemonStep, PacerStep, StopStep

-----------------------------------------------------------------------------
(* The socket.                                                             *)

Tearing == TornOnlyByLeftover /\ torn \subseteq Logged

(* Most steps send nothing.                                                *)
LEMMA TornKept ==
  ASSUME Tearing, UNCHANGED <<torn, late, sess, imports, paceLog>>
  PROVE  Tearing' /\ (late => late')
BY DEF Tearing, TornOnlyByLeftover, Logged

(* The pacer sends only when tcp_thread is not inside a message, except    *)
(* inside one that answers a new client, whose session has no audio yet;   *)
(* and a late answer is not forgotten.                                     *)
LEMMA TornStep ==
  ASSUME TypeOK, Placement, SessionOrder, PacerHolds, Tearing, [Next]_vars
  PROVE  Tearing' /\ (late => late')
<1> USE DEF Tearing, clientVars, pacerVars, histVars
<1>1. CASE ClientConnect
  BY <1>1 DEF ClientConnect, TornOnlyByLeftover, Logged, TypeOK, ClientTypes,
     StopTypes, SessionOrder
<1>2. CASE ClientClose
  BY <1>2, TornKept DEF ClientClose
<1>3. CASE AcceptDead
  BY <1>3, TornKept DEF AcceptDead
<1>4. CASE Publish
  BY <1>4, TornKept DEF Publish
<1>5. ASSUME NEW code \in {"import", "devlist"}, ReceiveHeader(code)
      PROVE  Tearing' /\ (late => late')
  BY <1>5, TornKept DEF ReceiveHeader
<1>6. CASE Listen
  BY <1>6, TornKept DEF Listen
<1>7. CASE ConnectPipe
  BY <1>7, TornKept DEF ConnectPipe
<1>8. CASE ReceiveFails
  BY <1>8, TornKept DEF ReceiveFails
<1>9. CASE TakeReply
  BY <1>9, TornKept DEF TakeReply
<1>10. CASE ReplyTimeout
  BY <1>10 DEF ReplyTimeout, TornOnlyByLeftover, Logged
<1>11. CASE TakeInput
  BY <1>11, TornKept DEF TakeInput
<1>12. CASE InputTimeout
  BY <1>12, TornKept DEF InputTimeout
<1>13. CASE ReplyHeader
  BY <1>13, TornKept DEF ReplyHeader
<1>14. CASE ReplyBody
  BY <1>14, TornKept DEF ReplyBody
<1>15. CASE Pace
  <2>1. cur \in Cmds /\ paceLog \in Seq(Cmds)
    BY <1>15 DEF Pace, Handling, TypeOK, PacerTypes, Placement, OnePlace
  <2>2. Logged \subseteq Logged'
    BY <1>15, <2>1, AppendElements DEF Pace, Logged
  <2> QED BY <1>15, <2>2 DEF Pace, TornOnlyByLeftover
<1>16. CASE ClearPaced
  BY <1>16, TornKept DEF ClearPaced
<1>17. CASE DisconnectPipe
  BY <1>17, TornKept DEF DisconnectPipe
<1>18. CASE CloseSocket
  BY <1>18, TornKept DEF CloseSocket
<1>19. CASE ReadFrame
  BY <1>19, TornKept DEF ReadFrame
<1>20. CASE ReaderExit
  BY <1>20, TornKept DEF ReaderExit
<1>21. CASE DaemonOpen
  BY <1>21, TornKept DEF DaemonOpen
<1>22. CASE DaemonInput
  BY <1>22, TornKept DEF DaemonInput
<1>23. CASE DaemonClose
  BY <1>23, TornKept DEF DaemonClose
<1>24. CASE PacerCheck
  BY <1>24, TornKept DEF PacerCheck
<1>25. CASE PacerWait
  BY <1>25, TornKept DEF PacerWait
<1>26. CASE PacerTimer
  BY <1>26, TornKept DEF PacerTimer
<1>27. CASE PacerTake
  BY <1>27, TornKept DEF PacerTake
<1>28. CASE PacerSend
  <2>1. inHand \in Logged /\ ~sending /\ UNCHANGED <<sess, imports, paceLog, late>>
    BY <1>28 DEF PacerSend, PacerHolds
  <2>2. Inside(inHand) => inHand \notin Current
    BY <2>1 DEF Inside, SessionOrder, Unserved, Greeting
  <2>3. Inside(inHand) => sess[inHand] < imports
    BY <2>1, <2>2, LogEntries DEF Current, SessionOrder, TypeOK, ClientTypes
  <2>4. torn' = torn \/ (Inside(inHand) /\ torn' = torn \cup {inHand})
    BY <1>28 DEF PacerSend
  <2> QED BY <2>1, <2>3, <2>4 DEF TornOnlyByLeftover, Logged
<1>29. CASE StopBegin
  BY <1>29, TornKept DEF StopBegin
<1>30. CASE StopShutdown
  BY <1>30, TornKept DEF StopShutdown
<1>31. CASE StopPoke
  BY <1>31, TornKept DEF StopPoke
<1>32. CASE StopJoinTcp
  BY <1>32, TornKept DEF StopJoinTcp
<1>33. CASE StopJoinReader
  BY <1>33, TornKept DEF StopJoinReader
<1>34. CASE StopJoinPacer
  BY <1>34, TornKept DEF StopJoinPacer
<1>35. CASE Tick
  BY <1>35, TornKept DEF Tick
<1>36. ASSUME NEW c \in Cmds, NEW k \in AllKinds,
              NEW r \in Reports \cup {NoReport}, ClientSubmit(c, k, r)
      PROVE  Tearing' /\ (late => late')
  <2>1. c \notin torn /\ \A x \in torn : sess'[x] = sess[x]
    BY <1>36 DEF ClientSubmit, Placement, OnePlace, TypeOK, ClientTypes, StopTypes
  <2> QED BY <1>36, <2>1 DEF ClientSubmit, TornOnlyByLeftover, Logged
<1>37. ASSUME NEW c \in Cmds, ClientUnlink(c)
      PROVE  Tearing' /\ (late => late')
  BY <1>37, TornKept DEF ClientUnlink
<1>38. ASSUME NEW h \in Handles, Accept(h)
      PROVE  Tearing' /\ (late => late')
  BY <1>38, TornKept DEF Accept
<1>39. ASSUME NEW c \in Cmds, ReceiveUnlink(c)
      PROVE  Tearing' /\ (late => late')
  BY <1>39, TornKept DEF ReceiveUnlink
<1>40. ASSUME NEW c \in Cmds, ReceiveSubmit(c)
      PROVE  Tearing' /\ (late => late')
  BY <1>40, TornKept DEF ReceiveSubmit
<1>41. ASSUME NEW answered \in BOOLEAN, DaemonAnswer(answered)
      PROVE  Tearing' /\ (late => late')
  BY <1>41, TornKept DEF DaemonAnswer
<1>42. CASE UNCHANGED vars
  BY <1>42, TornKept DEF vars
<1>43. CASE ImportHeader \/ Devlist \/ DevlistEnd
  BY <1>43, TornKept DEF ImportHeader, Devlist, DevlistEnd, SendUnlocked
<1> QED
  BY <1>1, <1>2, <1>3, <1>4, <1>5, <1>6, <1>7, <1>8, <1>9, <1>10, <1>11,
     <1>12, <1>13, <1>14, <1>15, <1>16, <1>17, <1>18, <1>19, <1>20, <1>21,
     <1>22, <1>23, <1>24, <1>25, <1>26, <1>27, <1>28, <1>29, <1>30, <1>31,
     <1>32, <1>33, <1>34, <1>35, <1>36, <1>37, <1>38, <1>39, <1>40, <1>41,
     <1>42, <1>43
  DEF Next, ClientStep, TcpStep, ReaderStep, DaemonStep, PacerStep, StopStep

-----------------------------------------------------------------------------
(* CMD_UNLINK.                                                             *)

Unlinking == UnlinkFollows /\ AckedHandled

(* Every operation in the socket names a command.                          *)
LEMMA InboundNames ==
  ASSUME TypeOK
  PROVE  \A i \in DOMAIN inbound : inbound[i].cmd \in Cmds
<1>1. ASSUME NEW i \in DOMAIN inbound PROVE inbound[i] \in Ops
  BY DEF TypeOK, ClientTypes
<1> QED BY <1>1 DEF Ops

(* Most steps move no command through the socket.                          *)
LEMMA UnlinkKept ==
  ASSUME TypeOK, Unlinking, UNCHANGED <<inbound, acked>>,
         \A x \in Cmds : st'[x] = "new" => st[x] = "new",
         Handling' => Handling /\ cur' = cur
  PROVE  Unlinking'
<1>1. acked \subseteq Cmds /\ Unread' = Unread
  BY DEF Unread, TypeOK, ClientTypes
<1>2. AckedHandled'
  BY <1>1 DEF Unlinking, AckedHandled
<1>3. \A i \in DOMAIN inbound' : st'[inbound'[i].cmd] # "new"
  BY InboundNames DEF Unlinking, UnlinkFollows
<1>4. UnlinkFollows'
  BY <1>3 DEF Unlinking, UnlinkFollows
<1> QED BY <1>2, <1>4 DEF Unlinking

(* What is left in the socket keeps its order.                             *)
LEMMA InboundRest ==
  ASSUME TypeOK, UnlinkFollows, NEW op, NEW c, Receive(op, c), UNCHANGED st
  PROVE  /\ UnlinkFollows' /\ st[c] # "new"
         /\ op = "unlink" => \A j \in DOMAIN inbound' :
               inbound'[j] # [op |-> "submit", cmd |-> c]
<1> DEFINE L == Len(inbound)
<1>1. /\ inbound \in Seq(Ops) /\ inbound # <<>>
      /\ Head(inbound) = [op |-> op, cmd |-> c] /\ inbound' = Tail(inbound)
  BY DEF TypeOK, ClientTypes, Receive
<1>2. /\ DOMAIN inbound = 1 .. L /\ L \in Nat /\ L > 0
      /\ inbound[1] = [op |-> op, cmd |-> c]
      /\ DOMAIN inbound' = 1 .. L - 1
      /\ \A n \in 1 .. L - 1 : inbound'[n] = inbound[n + 1]
  BY <1>1
<1> HIDE DEF L
<1>3. \A n \in DOMAIN inbound' : n + 1 \in DOMAIN inbound /\ inbound'[n] = inbound[n + 1]
  BY <1>2
<1>4. 1 \in DOMAIN inbound /\ \A n \in DOMAIN inbound' : 1 < n + 1
  BY <1>2
<1>5. \A i, j \in DOMAIN inbound' : i < j => i + 1 < j + 1
  BY <1>2
<1>6. \A i \in DOMAIN inbound' : st'[inbound'[i].cmd] # "new"
  BY <1>3 DEF UnlinkFollows
<1>7. \A i, j \in DOMAIN inbound' :
        i < j /\ inbound'[i].op = "unlink" /\ inbound'[j].op = "submit"
            => inbound'[i].cmd # inbound'[j].cmd
  BY <1>3, <1>5 DEF UnlinkFollows
<1>8. st[c] # "new"
  BY <1>2, <1>4 DEF UnlinkFollows
<1>9. ASSUME op = "unlink", NEW j \in DOMAIN inbound',
             inbound'[j] = [op |-> "submit", cmd |-> c]
      PROVE  FALSE
  <2>1. inbound[j + 1].op = "submit" /\ inbound[j + 1].cmd = c
    BY <1>3, <1>9
  <2> QED BY <1>2, <1>3, <1>4, <1>9, <2>1 DEF UnlinkFollows
<1>10. UnlinkFollows'
  BY <1>6, <1>7 DEF UnlinkFollows
<1> QED BY <1>8, <1>9, <1>10

(* The client appends e, which keeps the order when e is not a submission  *)
(* of a command the socket holds.                                          *)
LEMMA InboundSent ==
  ASSUME TypeOK, UnlinkFollows, NEW e \in Ops, inbound' = Append(inbound, e),
         st'[e.cmd] # "new", \A x \in Cmds : st'[x] = "new" => st[x] = "new",
         e.op = "submit" => st[e.cmd] = "new"
  PROVE  UnlinkFollows'
<1>1. PICK L \in Nat : /\ DOMAIN inbound = 1 .. L /\ DOMAIN inbound' = 1 .. L + 1
                       /\ inbound'[L + 1] = e
                       /\ \A n \in 1 .. L : inbound'[n] = inbound[n]
  <2>1. inbound \in Seq(Ops)
    BY DEF TypeOK, ClientTypes
  <2> DEFINE L == Len(inbound)
  <2>2. /\ L \in Nat /\ DOMAIN inbound = 1 .. L /\ DOMAIN inbound' = 1 .. L + 1
        /\ inbound'[L + 1] = e /\ \A n \in 1 .. L : inbound'[n] = inbound[n]
    BY <2>1
  <2> QED BY <2>2
<1>2. \A n \in 1 .. L : inbound[n].cmd \in Cmds /\ st[inbound[n].cmd] # "new"
  BY <1>1, InboundNames DEF UnlinkFollows
<1>3. ASSUME NEW i \in DOMAIN inbound' PROVE i = L + 1 \/ i \in 1 .. L
  BY <1>1
<1>4. ASSUME NEW i \in DOMAIN inbound' PROVE st'[inbound'[i].cmd] # "new"
  BY <1>1, <1>2, <1>3
<1>5. ASSUME NEW i \in DOMAIN inbound', NEW j \in DOMAIN inbound', i < j,
             inbound'[i].op = "unlink", inbound'[j].op = "submit"
      PROVE  inbound'[i].cmd # inbound'[j].cmd
  <2>1. i \in 1 .. L
    BY <1>1, <1>5
  <2>2. CASE j = L + 1
    <3>1. inbound'[j] = e /\ e.op = "submit" /\ st[e.cmd] = "new"
      BY <1>1, <1>5, <2>2
    <3> QED BY <1>1, <1>2, <2>1, <3>1
  <2>3. CASE j \in 1 .. L
    BY <1>1, <1>5, <2>1, <2>3 DEF UnlinkFollows
  <2> QED BY <1>3, <2>2, <2>3
<1> QED BY <1>4, <1>5 DEF UnlinkFollows

(* A submission, of a command that is new.                                 *)
LEMMA UnlinkSubmit ==
  ASSUME TypeOK, Placement, Unlinking, NEW c \in Cmds, NEW k, NEW r,
         ClientSubmit(c, k, r)
  PROVE  Unlinking'
<1> DEFINE e == [op |-> "submit", cmd |-> c]
<1>1. /\ inbound' = Append(inbound, e) /\ UNCHANGED <<acked, tcpPc, cur>>
      /\ st[c] = "new" /\ st'[c] # "new"
      /\ \A x \in Cmds : st'[x] = "new" => st[x] = "new"
  BY DEF ClientSubmit, tcpVars, TypeOK, ClientTypes
<1>2. e \in Ops /\ e.cmd = c /\ e.op = "submit"
  BY DEF Ops
<1>3. Unread' = Unread \cup {c}
  BY <1>1, InboundAppend
<1> HIDE DEF e
<1>4. UnlinkFollows'
  BY <1>1, <1>2, InboundSent DEF Unlinking
<1>5. AckedHandled'
  <2>1. acked \subseteq Cmds
    BY DEF TypeOK, ClientTypes
  <2> QED BY <1>1, <1>3, <2>1 DEF Unlinking, AckedHandled, Handling
<1> QED BY <1>4, <1>5 DEF Unlinking

(* An unlink, of a command that was sent.                                  *)
LEMMA UnlinkSent ==
  ASSUME TypeOK, Unlinking, NEW c \in Cmds, ClientUnlink(c)
  PROVE  Unlinking'
<1> DEFINE e == [op |-> "unlink", cmd |-> c]
<1>1. /\ inbound' = Append(inbound, e) /\ UNCHANGED <<acked, st, tcpPc, cur>>
      /\ st[c] = "sent"
  BY DEF ClientUnlink, tcpVars
<1>2. e \in Ops /\ e.cmd = c /\ e.op = "unlink"
  BY DEF Ops
<1>3. Unread' = Unread
  BY <1>1, InboundAppend
<1> HIDE DEF e
<1>4. UnlinkFollows'
  BY <1>1, <1>2, InboundSent DEF Unlinking
<1>5. AckedHandled'
  BY <1>1, <1>3 DEF Unlinking, AckedHandled, Handling
<1> QED BY <1>4, <1>5 DEF Unlinking

(* The unlink is acknowledged.                                             *)
LEMMA UnlinkRead ==
  ASSUME TypeOK, Placement, Unlinking, NEW c \in Cmds, ReceiveUnlink(c)
  PROVE  Unlinking'
<1>1. /\ Receive("unlink", c) /\ UNCHANGED st /\ acked' = acked \cup {c}
      /\ ~Handling'
  BY DEF ReceiveUnlink, ServeTop, Handling
<1>2. Unread' \subseteq Unread
  BY <1>1, InboundTake DEF Placement
<1>3. /\ UnlinkFollows' /\ st[c] # "new"
      /\ \A j \in DOMAIN inbound' : inbound'[j] # [op |-> "submit", cmd |-> c]
  BY <1>1, InboundRest DEF Unlinking
<1>4. c \notin Unread'
  BY <1>3 DEF Unread, ToSet
<1>5. AckedHandled'
  BY <1>1, <1>2, <1>3, <1>4 DEF Unlinking, AckedHandled
<1> QED BY <1>3, <1>5 DEF Unlinking

(* No step lets an unlink overtake its submission.                         *)
LEMMA UnlinkStep ==
  ASSUME TypeOK, Placement, Unlinking, [Next]_vars
  PROVE  Unlinking'
<1> USE DEF clientVars, tcpVars
<1>0. ReadOnce
  BY DEF Placement
<1>1. CASE ClientConnect
  <2>1. /\ inbound' = <<>> /\ UNCHANGED <<acked, st>>
        /\ Handling' => Handling /\ cur' = cur
    BY <1>1 DEF ClientConnect, Handling
  <2>2. Unread' = {} /\ DOMAIN inbound' = {}
    BY <2>1 DEF Unread, ToSet
  <2> QED BY <2>1, <2>2 DEF Unlinking, UnlinkFollows, AckedHandled
<1>2. CASE ClientClose
  <2>1. /\ inbound' = <<>> /\ UNCHANGED <<acked, st>>
        /\ Handling' => Handling /\ cur' = cur
    BY <1>2 DEF ClientClose, Handling
  <2>2. Unread' = {} /\ DOMAIN inbound' = {}
    BY <2>1 DEF Unread, ToSet
  <2> QED BY <2>1, <2>2 DEF Unlinking, UnlinkFollows, AckedHandled
<1>3. CASE AcceptDead
  BY <1>0, <1>3, UnlinkKept DEF AcceptDead, LoopTop, Handling
<1>4. CASE Publish
  BY <1>0, <1>4, UnlinkKept DEF Publish, Handling
<1>5. ASSUME NEW code \in {"import", "devlist"}, ReceiveHeader(code)
      PROVE  Unlinking'
  BY <1>0, <1>5, UnlinkKept DEF ReceiveHeader, Handling
<1>6. CASE Listen
  BY <1>0, <1>6, UnlinkKept DEF Listen, Handling
<1>7. CASE ConnectPipe
  BY <1>0, <1>7, UnlinkKept DEF ConnectPipe, ServeTop, Handling
<1>8. CASE ReceiveFails
  BY <1>0, <1>8, UnlinkKept DEF ReceiveFails, Handling
<1>9. CASE TakeReply
  BY <1>0, <1>9, UnlinkKept DEF TakeReply, Handling
<1>10. CASE ReplyTimeout
  BY <1>0, <1>10, UnlinkKept DEF ReplyTimeout, Handling
<1>11. CASE TakeInput
  BY <1>0, <1>11, UnlinkKept DEF TakeInput, Handling
<1>12. CASE InputTimeout
  BY <1>0, <1>12, UnlinkKept DEF InputTimeout, Handling
<1>13. CASE ReplyHeader
  BY <1>0, <1>13, UnlinkKept DEF ReplyHeader, Handling
<1>14. CASE ReplyBody
  <2>1. \A x \in Cmds : st'[x] = "new" => st[x] = "new"
    BY <1>14 DEF ReplyBody, TypeOK, ClientTypes
  <2> QED BY <1>14, <2>1, UnlinkKept DEF ReplyBody, ServeTop, Handling
<1>15. CASE Pace
  BY <1>0, <1>15, UnlinkKept DEF Pace, ServeTop, Handling
<1>16. CASE ClearPaced
  BY <1>0, <1>16, UnlinkKept DEF ClearPaced, Handling
<1>17. CASE DisconnectPipe
  BY <1>0, <1>17, UnlinkKept DEF DisconnectPipe, Handling
<1>18. CASE CloseSocket
  <2>1. /\ inbound' = <<>> /\ UNCHANGED <<acked, st>>
        /\ Handling' => Handling /\ cur' = cur
    BY <1>18 DEF CloseSocket, LoopTop, Handling
  <2>2. Unread' = {} /\ DOMAIN inbound' = {}
    BY <2>1 DEF Unread, ToSet
  <2> QED BY <2>1, <2>2 DEF Unlinking, UnlinkFollows, AckedHandled
<1>19. CASE ReadFrame
  BY <1>0, <1>19, UnlinkKept DEF ReadFrame, Handling
<1>20. CASE ReaderExit
  BY <1>0, <1>20, UnlinkKept DEF ReaderExit, Handling
<1>21. CASE DaemonOpen
  BY <1>0, <1>21, UnlinkKept DEF DaemonOpen, Handling
<1>22. CASE DaemonInput
  BY <1>0, <1>22, UnlinkKept DEF DaemonInput, Handling
<1>23. CASE DaemonClose
  BY <1>0, <1>23, UnlinkKept DEF DaemonClose, Handling
<1>24. CASE PacerCheck
  BY <1>0, <1>24, UnlinkKept DEF PacerCheck, Handling
<1>25. CASE PacerWait
  BY <1>0, <1>25, UnlinkKept DEF PacerWait, Handling
<1>26. CASE PacerTimer
  BY <1>0, <1>26, UnlinkKept DEF PacerTimer, Handling
<1>27. CASE PacerTake
  BY <1>0, <1>27, UnlinkKept DEF PacerTake, Handling
<1>28. CASE PacerSend
  <2>1. \A x \in Cmds : st'[x] = "new" => st[x] = "new"
    BY <1>28 DEF PacerSend, Deliver, TypeOK, ClientTypes
  <2> QED BY <1>28, <2>1, UnlinkKept DEF PacerSend, Deliver, Handling
<1>29. CASE StopBegin
  BY <1>0, <1>29, UnlinkKept DEF StopBegin, Handling
<1>30. CASE StopShutdown
  BY <1>0, <1>30, UnlinkKept DEF StopShutdown, Handling
<1>31. CASE StopPoke
  BY <1>0, <1>31, UnlinkKept DEF StopPoke, Handling
<1>32. CASE StopJoinTcp
  BY <1>0, <1>32, UnlinkKept DEF StopJoinTcp, Handling
<1>33. CASE StopJoinReader
  BY <1>0, <1>33, UnlinkKept DEF StopJoinReader, Handling
<1>34. CASE StopJoinPacer
  BY <1>0, <1>34, UnlinkKept DEF StopJoinPacer, Handling
<1>35. CASE Tick
  BY <1>0, <1>35, UnlinkKept DEF Tick, Handling
<1>36. ASSUME NEW c \in Cmds, NEW k \in AllKinds,
              NEW r \in Reports \cup {NoReport}, ClientSubmit(c, k, r)
      PROVE  Unlinking'
  BY <1>36, UnlinkSubmit
<1>37. ASSUME NEW c \in Cmds, ClientUnlink(c)
      PROVE  Unlinking'
  BY <1>37, UnlinkSent
<1>38. ASSUME NEW h \in Handles, Accept(h)
      PROVE  Unlinking'
  BY <1>0, <1>38, UnlinkKept DEF Accept, Handling
<1>39. ASSUME NEW c \in Cmds, ReceiveUnlink(c)
      PROVE  Unlinking'
  BY <1>39, UnlinkRead
<1>40. ASSUME NEW c \in Cmds, ReceiveSubmit(c)
      PROVE  Unlinking'
  <2>1. Receive("submit", c) /\ cur' = c /\ UNCHANGED <<acked, st>>
    BY <1>40 DEF ReceiveSubmit
  <2>2. Unread' \subseteq Unread /\ c \in Unread
    BY <1>0, <2>1, InboundTake
  <2>3. UnlinkFollows'
    BY <2>1, InboundRest DEF Unlinking
  <2>4. AckedHandled'
    BY <2>1, <2>2 DEF Unlinking, AckedHandled
  <2> QED BY <2>3, <2>4 DEF Unlinking
<1>41. ASSUME NEW answered \in BOOLEAN, DaemonAnswer(answered)
      PROVE  Unlinking'
  BY <1>0, <1>41, UnlinkKept DEF DaemonAnswer, Handling
<1>42. CASE UNCHANGED vars
  BY <1>0, <1>42, UnlinkKept DEF vars, Handling
<1>43. CASE ImportHeader \/ Devlist \/ DevlistEnd
  BY <1>0, <1>43, UnlinkKept DEF ImportHeader, Devlist, DevlistEnd, SendUnlocked, Handling
<1> QED
  BY <1>1, <1>2, <1>3, <1>4, <1>5, <1>6, <1>7, <1>8, <1>9, <1>10, <1>11,
     <1>12, <1>13, <1>14, <1>15, <1>16, <1>17, <1>18, <1>19, <1>20, <1>21,
     <1>22, <1>23, <1>24, <1>25, <1>26, <1>27, <1>28, <1>29, <1>30, <1>31,
     <1>32, <1>33, <1>34, <1>35, <1>36, <1>37, <1>38, <1>39, <1>40, <1>41,
     <1>42, <1>43
  DEF Next, ClientStep, TcpStep, ReaderStep, DaemonStep, PacerStep, StopStep

-----------------------------------------------------------------------------
(* The feature replies.                                                    *)

RepliesPaired == AwaitedMatch /\ NothingLate /\ AnswersSent /\ AnswersReportAsked

(* Most steps touch no request of the daemon.                              *)
LEMMA RepliesKept ==
  ASSUME TypeOK, RepliesPaired,
         UNCHANGED <<toDaemon, toHost, featQueue, rid, answer>>,
         \A x \in Cmds : st'[x] = "new" => st[x] = "new",
         tcpPc' = "feature" <=> tcpPc = "feature",
         tcpPc' = "feature" => cur' = cur,
         ~PipeDead' => ~PipeDead, daemon' = "starting" => daemon = "starting",
         stopReq' => daemon' = "closed"
  PROVE  RepliesPaired'
<1>1. ReplyFrames' = ReplyFrames /\ OneAwaited' = OneAwaited
  BY DEF ReplyFrames, OneAwaited
<1>2. AwaitedMatch'
  BY <1>1 DEF RepliesPaired, AwaitedMatch
<1>3. NothingLate'
  BY <1>1 DEF RepliesPaired, NothingLate
<1>4. AnswersSent'
  <2>1. ToSet(toDaemon) \subseteq Cmds
    BY DEF ToSet, TypeOK, PipeTypes
  <2> QED BY <2>1 DEF RepliesPaired, AnswersSent
<1>5. AnswersReportAsked'
  BY DEF RepliesPaired, AnswersReportAsked
<1> QED BY <1>2, <1>3, <1>4, <1>5 DEF RepliesPaired

(* A new request asks for its own report.                                  *)
LEMMA RepliesSubmit ==
  ASSUME TypeOK, Placement, RepliesPaired, NEW c \in Cmds, NEW k, NEW r,
         ClientSubmit(c, k, r)
  PROVE  RepliesPaired'
<1>1. /\ UNCHANGED <<toDaemon, toHost, featQueue, answer, tcpPc, cur, pipe,
                     daemon, stopReq>>
      /\ st[c] = "new" /\ st' = [st EXCEPT ![c] = "sent"]
      /\ rid' = [rid EXCEPT ![c] = r]
  BY DEF ClientSubmit, tcpVars, pipeVars, readerVars, stopVars
<1>2. /\ \A x \in Cmds \ {c} : rid'[x] = rid[x] /\ st'[x] = st[x]
      /\ st'[c] = "sent"
  BY <1>1 DEF TypeOK, ClientTypes
<1>3. ToSet(toDaemon) \subseteq Cmds \ {c} /\ answer[c] = NoReport
  <2>1. ToSet(toDaemon) \subseteq Cmds
    BY DEF ToSet, TypeOK, PipeTypes
  <2> QED BY <1>1, <2>1 DEF RepliesPaired, AnswersSent
<1>4. tcpPc = "feature" => cur \in Cmds \ {c}
  BY <1>1 DEF Placement, OnePlace, Handling
<1>5. /\ ReplyFrames' = ReplyFrames /\ OneAwaited' = OneAwaited
      /\ PipeDead' = PipeDead
  BY <1>1 DEF ReplyFrames, OneAwaited, PipeDead
<1>6. AwaitedMatch'
  BY <1>1, <1>2, <1>3, <1>4, <1>5 DEF RepliesPaired, AwaitedMatch
<1>7. NothingLate'
  BY <1>1, <1>5 DEF RepliesPaired, NothingLate
<1>8. AnswersSent'
  BY <1>1, <1>2, <1>3 DEF RepliesPaired, AnswersSent
<1>9. AnswersReportAsked'
  BY <1>1, <1>2, <1>3 DEF RepliesPaired, AnswersReportAsked
<1> QED BY <1>6, <1>7, <1>8, <1>9 DEF RepliesPaired

(* A FEATURE_GET is sent when no other is under way.                       *)
LEMMA RepliesAsk ==
  ASSUME TypeOK, Placement, SessionOrder, RepliesPaired, NEW c \in Cmds,
         ReceiveSubmit(c)
  PROVE  RepliesPaired'
<1>1. /\ UNCHANGED <<toHost, featQueue, rid, st, answer, pipe, daemon, stopReq>>
      /\ tcpPc = "recv" /\ cur' = c /\ Receive("submit", c)
      /\ PipeDead' = PipeDead
  BY DEF ReceiveSubmit, Receive, readerVars, stopVars, PipeDead
<1>2. CASE tcpPc' # "feature" /\ UNCHANGED toDaemon
  BY <1>1, <1>2, RepliesKept DEF RepliesPaired, NothingLate
<1>3. CASE ~(tcpPc' # "feature" /\ UNCHANGED toDaemon)
  <2>1. /\ ~PipeDead /\ toDaemon' = Append(toDaemon, c)
        /\ tcpPc' = "feature"
    BY <1>3 DEF ReceiveSubmit, Forwards
  <2>2. toDaemon = <<>> /\ ReplyFrames = {} /\ featQueue = <<>>
    BY <1>1, <2>1 DEF RepliesPaired, NothingLate
  <2>3. toDaemon' = <<c>> /\ Len(toDaemon') = 1 /\ ToSet(toDaemon') = {c}
    BY <2>1, <2>2 DEF ToSet
  <2>4. ReplyFrames' = {} /\ featQueue' = <<>> /\ ToSet(featQueue') = {}
    BY <1>1, <2>2 DEF ReplyFrames, ToSet
  <2>5. st[c] # "new"
    <3>1. c \in Unread
      BY <1>1, InboundTake DEF Placement
    <3> QED BY <3>1 DEF SessionOrder
  <2>6. AwaitedMatch'
    BY <1>1, <2>3, <2>4 DEF AwaitedMatch
  <2>7. OneAwaited'
    BY <2>3, <2>4 DEF OneAwaited
  <2>8. daemon # "starting"
    BY <2>1 DEF PipeDead
  <2>9. NothingLate'
    BY <1>1, <2>1, <2>7, <2>8 DEF RepliesPaired, NothingLate
  <2>10. AnswersSent' /\ AnswersReportAsked'
    BY <1>1, <2>3, <2>5 DEF RepliesPaired, AnswersSent, AnswersReportAsked
  <2> QED BY <2>6, <2>9, <2>10 DEF RepliesPaired
<1> QED BY <1>2, <1>3

(* Nothing is under way.                                                   *)
LEMMA EmptyAwaited ==
  ASSUME toDaemon' = <<>>, ReplyFrames' = {}, featQueue' = <<>>
  PROVE  OneAwaited'
BY DEF OneAwaited

(* The reply is taken by the request it answers.                           *)
LEMMA RepliesTake ==
  ASSUME TypeOK, Placement, RepliesPaired, TakeReply
  PROVE  RepliesPaired'
<1>1. /\ UNCHANGED <<toHost, toDaemon, rid, st, pipe, daemon, stopReq>>
      /\ tcpPc = "feature" /\ tcpPc' = "reply" /\ featQueue # <<>>
      /\ answer' = [answer EXCEPT ![cur] = Head(featQueue)]
      /\ featQueue' = Tail(featQueue)
  BY DEF TakeReply, pipeVars, stopVars
<1>2. cur \in Cmds /\ st[cur] # "new"
  BY <1>1 DEF Placement, OnePlace, Handling
<1>3. /\ featQueue \in Seq(Reports \cup {NoReport}) /\ Len(featQueue) \in Nat
      /\ Len(featQueue) > 0 /\ Head(featQueue) \in ToSet(featQueue)
      /\ Len(featQueue) <= 1 => Tail(featQueue) = <<>>
  BY <1>1 DEF TypeOK, ReaderTypes, ToSet
<1>4. Head(featQueue) = rid[cur]
  BY <1>1, <1>3 DEF RepliesPaired, AwaitedMatch
<1>5. \A x \in Cmds : answer'[x] = IF x = cur THEN rid[cur] ELSE answer[x]
  BY <1>1, <1>2, <1>4 DEF TypeOK, ClientTypes
<1>6. AwaitedMatch'
  BY <1>1 DEF AwaitedMatch
<1>7. ~PipeDead' => toDaemon' = <<>> /\ ReplyFrames' = {} /\ featQueue' = <<>>
  <2>1. ReplyFrames' = ReplyFrames /\ PipeDead' = PipeDead
    BY <1>1 DEF ReplyFrames, PipeDead
  <2> QED BY <1>1, <1>3, <2>1 DEF RepliesPaired, NothingLate, OneAwaited
<1>8. ~PipeDead' => OneAwaited'
  BY <1>7, EmptyAwaited
<1>9. daemon # "starting"
  BY <1>1 DEF RepliesPaired, NothingLate
<1>10. NothingLate'
  BY <1>1, <1>7, <1>8, <1>9 DEF RepliesPaired, NothingLate
<1>11. AnswersSent' /\ AnswersReportAsked'
  BY <1>1, <1>2, <1>5 DEF RepliesPaired, AnswersSent, AnswersReportAsked
<1> QED BY <1>6, <1>10, <1>11 DEF RepliesPaired

(* A wait that ends while its answer is under way is recorded in late.     *)
LEMMA RepliesTimeout ==
  ASSUME TypeOK, RepliesPaired, ~late', ReplyTimeout
  PROVE  RepliesPaired'
<1>1. /\ UNCHANGED <<toHost, toDaemon, featQueue, rid, st, answer, pipe, daemon,
                     stopReq>>
      /\ tcpPc = "feature" /\ tcpPc' = "reply" /\ featQueue = <<>>
      /\ ~AnswerUnderWay
  BY DEF ReplyTimeout, clientVars, pipeVars, readerVars, stopVars
<1>2. /\ ReplyFrames' = ReplyFrames /\ PipeDead' = PipeDead
      /\ OneAwaited' = OneAwaited
  BY <1>1 DEF ReplyFrames, PipeDead, OneAwaited
<1>3. ~PipeDead => toDaemon = <<>> /\ ReplyFrames = {} /\ featQueue = <<>>
  BY <1>1 DEF AnswerUnderWay, ReplyFrames
<1>4. AwaitedMatch'
  BY <1>1 DEF AwaitedMatch
<1>5. NothingLate'
  BY <1>1, <1>2, <1>3 DEF RepliesPaired, NothingLate
<1>6. AnswersSent' /\ AnswersReportAsked'
  BY <1>1 DEF RepliesPaired, AnswersSent, AnswersReportAsked
<1> QED BY <1>4, <1>5, <1>6 DEF RepliesPaired

(* pipe_reader_loop moves a reply from the pipe to its queue.              *)
LEMMA RepliesRead ==
  ASSUME TypeOK, RepliesPaired, ReadFrame
  PROVE  RepliesPaired'
<1> DEFINE e == Head(toHost)
           L == Len(toHost)
<1>1. /\ UNCHANGED <<toDaemon, rid, st, answer, pipe, daemon, stopReq, tcpPc, cur>>
      /\ toHost # <<>> /\ toHost' = Tail(toHost)
      /\ featQueue' = IF ~stopReq /\ e.type = "FEATURE_REPLY"
                      THEN Append(featQueue, e.rid) ELSE featQueue
  BY DEF ReadFrame, clientVars, tcpVars, stopVars
<1>2. /\ toHost \in Seq(Frames) /\ e = toHost[1]
      /\ L \in Nat /\ L >= 1 /\ DOMAIN toHost = 1 .. L
      /\ DOMAIN toHost' = 1 .. L - 1
      /\ \A i \in 1 .. L - 1 : toHost'[i] = toHost[i + 1]
  BY <1>1 DEF TypeOK, PipeTypes
<1> HIDE DEF e, L
<1>3. \A i \in ReplyFrames' : i + 1 \in ReplyFrames /\ toHost'[i] = toHost[i + 1] /\ i \in Nat
  BY <1>2 DEF ReplyFrames
<1>4. e.type = "FEATURE_REPLY" => 1 \in ReplyFrames
  BY <1>2 DEF ReplyFrames
<1>5. \A i \in ReplyFrames' : i + 1 # 1
  BY <1>2 DEF ReplyFrames
<1>6. PipeDead' = PipeDead /\ daemon # "starting"
  BY <1>1 DEF PipeDead, RepliesPaired, NothingLate
<1>7. /\ featQueue \in Seq(Reports \cup {NoReport}) /\ toDaemon \in Seq(Cmds)
      /\ ToSet(featQueue') \subseteq ToSet(featQueue)
                  \cup (IF e.type = "FEATURE_REPLY" THEN {e.rid} ELSE {})
  <2>1. featQueue \in Seq(Reports \cup {NoReport}) /\ toDaemon \in Seq(Cmds)
    BY DEF TypeOK, ReaderTypes, PipeTypes
  <2>2. e \in Frames
    BY <1>2
  <2>3. e.rid \in Reports \cup {NoReport}
    BY <2>2 DEF Frames
  <2>4. ToSet(Append(featQueue, e.rid)) = ToSet(featQueue) \cup {e.rid}
    BY <2>1, <2>3, AppendElements
  <2> QED BY <1>1, <2>1, <2>4
<1>8. AwaitedMatch'
  <2> SUFFICES ASSUME tcpPc = "feature"
               PROVE  /\ \A d \in ToSet(toDaemon) : rid[d] = rid[cur]
                      /\ \A i \in ReplyFrames' : toHost'[i].rid = rid[cur]
                      /\ \A r \in ToSet(featQueue') : r = rid[cur]
    BY <1>1 DEF AwaitedMatch
  <2>1. /\ \A d \in ToSet(toDaemon) : rid[d] = rid[cur]
        /\ \A i \in ReplyFrames : toHost[i].rid = rid[cur]
        /\ \A r \in ToSet(featQueue) : r = rid[cur]
    BY DEF RepliesPaired, AwaitedMatch
  <2>2. e.type = "FEATURE_REPLY" => e.rid = rid[cur]
    BY <1>2, <1>4, <2>1
  <2> QED BY <1>3, <1>7, <2>1, <2>2
<1>9. ASSUME ~PipeDead PROVE OneAwaited'
  <2>1. OneAwaited
    BY <1>9 DEF RepliesPaired, NothingLate
  <2>2. \A i, j \in ReplyFrames' : i = j
    BY <1>3, <2>1 DEF OneAwaited
  <2>3. CASE ~stopReq /\ e.type = "FEATURE_REPLY"
    <3>1. 1 \in ReplyFrames /\ featQueue = <<>> /\ toDaemon = <<>>
      BY <1>4, <2>1, <2>3 DEF OneAwaited
    <3>2. ReplyFrames' = {}
      BY <1>3, <1>5, <2>1, <3>1 DEF OneAwaited
    <3>3. Len(featQueue') = 1
      BY <1>1, <2>3, <3>1
    <3> QED BY <1>1, <2>1, <3>1, <3>2, <3>3 DEF OneAwaited
  <2>4. CASE ~(~stopReq /\ e.type = "FEATURE_REPLY")
    <3>1. featQueue' = featQueue
      BY <1>1, <2>4
    <3>2. ReplyFrames = {} => ReplyFrames' = {}
      BY <1>3
    <3> QED BY <1>1, <2>1, <2>2, <3>1, <3>2 DEF OneAwaited
  <2> QED BY <2>3, <2>4
<1>10. ASSUME ~PipeDead, tcpPc # "feature"
       PROVE  toDaemon = <<>> /\ ReplyFrames' = {} /\ featQueue' = <<>>
  <2>1. toDaemon = <<>> /\ ReplyFrames = {} /\ featQueue = <<>>
    BY <1>10 DEF RepliesPaired, NothingLate
  <2> QED BY <1>1, <1>3, <1>4, <2>1
<1>11. NothingLate'
  BY <1>1, <1>6, <1>9, <1>10 DEF RepliesPaired, NothingLate
<1>12. AnswersSent' /\ AnswersReportAsked'
  BY <1>1 DEF RepliesPaired, AnswersSent, AnswersReportAsked
<1> QED BY <1>8, <1>11, <1>12 DEF RepliesPaired

(* The daemon writes an input report, which answers nothing.               *)
LEMMA RepliesInput ==
  ASSUME TypeOK, RepliesPaired, DaemonInput
  PROVE  RepliesPaired'
<1> DEFINE e == InputFrame(inputs + 1)
<1>1. /\ UNCHANGED <<toDaemon, featQueue, rid, st, answer, pipe, daemon, stopReq,
                     tcpPc, cur>>
      /\ toHost' = Append(toHost, e) /\ ~PipeDead /\ e.type = "HID_IN"
  BY DEF DaemonInput, InputFrame, clientVars, tcpVars, readerVars, stopVars
<1> HIDE DEF e
<1>2. /\ ReplyFrames' = ReplyFrames
      /\ \A i \in ReplyFrames : toHost'[i] = toHost[i]
  BY <1>1 DEF ReplyFrames, TypeOK, PipeTypes
<1>3. /\ OneAwaited' = OneAwaited /\ PipeDead' = PipeDead /\ daemon # "starting"
  BY <1>1, <1>2 DEF OneAwaited, PipeDead
<1>4. AwaitedMatch'
  BY <1>1, <1>2 DEF RepliesPaired, AwaitedMatch
<1>5. NothingLate'
  BY <1>1, <1>2, <1>3 DEF RepliesPaired, NothingLate
<1>6. AnswersSent' /\ AnswersReportAsked'
  BY <1>1 DEF RepliesPaired, AnswersSent, AnswersReportAsked
<1> QED BY <1>4, <1>5, <1>6 DEF RepliesPaired

(* It answers the request, or drops it.                                    *)
LEMMA RepliesAnswer ==
  ASSUME TypeOK, RepliesPaired, NEW answered \in BOOLEAN, DaemonAnswer(answered)
  PROVE  RepliesPaired'
<1> DEFINE d == Head(toDaemon)
           e == ReplyFrame(rid[d])
<1>1. /\ UNCHANGED <<featQueue, rid, st, answer, pipe, daemon, stopReq, tcpPc, cur>>
      /\ toDaemon # <<>> /\ toDaemon' = Tail(toDaemon) /\ ~PipeDead
      /\ toHost' = IF answered THEN Append(toHost, e) ELSE toHost
      /\ e.type = "FEATURE_REPLY" /\ e.rid = rid[d]
  BY DEF DaemonAnswer, ReplyFrame, clientVars, tcpVars, readerVars, stopVars
<1>2. /\ ToSet(toDaemon) = ToSet(toDaemon') \cup {d}
      /\ Len(toDaemon) <= 1 => toDaemon' = <<>> /\ Len(toDaemon') = 0
  <2>1. toDaemon \in Seq(Cmds)
    BY DEF TypeOK, PipeTypes
  <2>2. Len(toDaemon) <= 1 => Tail(toDaemon) = <<>>
    BY <1>1, <2>1
  <2> QED BY <1>1, <2>1, <2>2, TailElements
<1> HIDE DEF d, e
<1>3. /\ ReplyFrames = {} /\ featQueue = <<>> /\ toDaemon' = <<>> /\ OneAwaited
      /\ tcpPc = "feature" /\ rid[d] = rid[cur] /\ daemon # "starting"
      /\ PipeDead' = PipeDead
  BY <1>1, <1>2 DEF RepliesPaired, NothingLate, OneAwaited, AwaitedMatch, PipeDead
<1>4. PICK L \in Nat : /\ ReplyFrames' \subseteq {L}
                       /\ \A i \in ReplyFrames' : toHost'[i].rid = rid[d]
  <2>1. CASE answered
    <3>1. toHost' = Append(toHost, e) /\ toHost \in Seq(Frames)
      BY <1>1, <2>1 DEF TypeOK, PipeTypes
    <3>2. /\ Len(toHost) + 1 \in Nat /\ DOMAIN toHost' = 1 .. Len(toHost) + 1
          /\ toHost'[Len(toHost) + 1] = e /\ DOMAIN toHost = 1 .. Len(toHost)
          /\ \A i \in 1 .. Len(toHost) : toHost'[i] = toHost[i]
      BY <3>1
    <3>3. ReplyFrames' \subseteq {Len(toHost) + 1}
      BY <1>3, <3>2 DEF ReplyFrames
    <3>4. \A i \in ReplyFrames' : toHost'[i].rid = rid[d]
      BY <1>1, <3>2, <3>3
    <3> QED BY <3>2, <3>3, <3>4
  <2>2. CASE ~answered
    <3>1. ReplyFrames' = {}
      BY <1>1, <1>3, <2>2 DEF ReplyFrames
    <3> QED BY <3>1
  <2> QED BY <2>1, <2>2
<1>5. AwaitedMatch'
  <2>1. ToSet(toDaemon') = {} /\ ToSet(featQueue') = {}
    BY <1>1, <1>3 DEF ToSet
  <2> QED BY <1>1, <1>3, <1>4, <2>1 DEF AwaitedMatch
<1>6. OneAwaited'
  <2>1. Len(toDaemon') = 0 /\ Len(featQueue') = 0
    BY <1>1, <1>3
  <2> QED BY <1>1, <1>3, <1>4, <2>1 DEF OneAwaited
<1>7. NothingLate'
  BY <1>1, <1>3, <1>6 DEF RepliesPaired, NothingLate
<1>8. AnswersSent' /\ AnswersReportAsked'
  BY <1>1, <1>2 DEF RepliesPaired, AnswersSent, AnswersReportAsked
<1> QED BY <1>5, <1>7, <1>8 DEF RepliesPaired

(* DisconnectNamedPipe discards what is under way.                         *)
LEMMA RepliesDisconnect ==
  ASSUME TypeOK, RepliesPaired, DisconnectPipe
  PROVE  RepliesPaired'
<1>1. /\ UNCHANGED <<featQueue, rid, st, answer, daemon, stopReq>>
      /\ toDaemon' = <<>> /\ toHost' = <<>> /\ pipe' = "disconnected"
      /\ tcpPc' = "close"
  BY DEF DisconnectPipe, clientVars, readerVars, stopVars
<1>2. PipeDead' /\ ToSet(toDaemon') = {}
  BY <1>1 DEF PipeDead, ToSet
<1>3. AwaitedMatch'
  BY <1>1 DEF AwaitedMatch
<1>4. NothingLate'
  BY <1>1, <1>2 DEF RepliesPaired, NothingLate
<1>5. AnswersSent' /\ AnswersReportAsked'
  BY <1>1, <1>2 DEF RepliesPaired, AnswersSent, AnswersReportAsked
<1> QED BY <1>3, <1>4, <1>5 DEF RepliesPaired

(* The daemon opens a pipe in which there is nothing.                      *)
LEMMA RepliesOpen ==
  ASSUME TypeOK, RepliesPaired, DaemonOpen
  PROVE  RepliesPaired'
<1>1. /\ UNCHANGED <<toDaemon, toHost, featQueue, rid, st, answer, stopReq, tcpPc,
                     cur>>
      /\ daemon = "starting" /\ daemon' = "open"
  BY DEF DaemonOpen, clientVars, tcpVars, readerVars, stopVars
<1>2. /\ toDaemon = <<>> /\ toHost = <<>> /\ featQueue = <<>> /\ ~stopReq
  BY <1>1 DEF RepliesPaired, NothingLate
<1>3. ReplyFrames' = {}
  BY <1>1, <1>2 DEF ReplyFrames
<1>4. OneAwaited'
  BY <1>1, <1>2, <1>3, EmptyAwaited
<1>5. AwaitedMatch'
  BY <1>1, <1>3 DEF RepliesPaired, AwaitedMatch
<1>6. NothingLate'
  BY <1>1, <1>2, <1>3, <1>4 DEF NothingLate
<1>7. AnswersSent' /\ AnswersReportAsked'
  BY <1>1 DEF RepliesPaired, AnswersSent, AnswersReportAsked
<1> QED BY <1>5, <1>6, <1>7 DEF RepliesPaired

(* As long as no reply is late, no step lets one answer another request.   *)
LEMMA RepliesStep ==
  ASSUME TypeOK, Placement, SessionOrder, ~late', RepliesPaired, [Next]_vars
  PROVE  RepliesPaired'
<1> USE DEF clientVars, tcpVars, pipeVars, readerVars, stopVars
<1>0. stopReq => daemon = "closed"
  BY DEF RepliesPaired, NothingLate
<1>1. CASE ClientConnect
  BY <1>0, <1>1, RepliesKept DEF ClientConnect, PipeDead
<1>2. CASE ClientClose
  BY <1>0, <1>2, RepliesKept DEF ClientClose, PipeDead
<1>3. CASE AcceptDead
  BY <1>0, <1>3, RepliesKept DEF AcceptDead, LoopTop, PipeDead
<1>4. CASE Publish
  BY <1>0, <1>4, RepliesKept DEF Publish, PipeDead
<1>5. ASSUME NEW code \in {"import", "devlist"}, ReceiveHeader(code)
      PROVE  RepliesPaired'
  BY <1>0, <1>5, RepliesKept DEF ReceiveHeader, PipeDead
<1>6. CASE Listen
  BY <1>0, <1>6, RepliesKept DEF Listen, PipeDead
<1>7. CASE ConnectPipe
  BY <1>0, <1>7, RepliesKept DEF ConnectPipe, ServeTop, PipeDead
<1>8. CASE ReceiveFails
  BY <1>0, <1>8, RepliesKept DEF ReceiveFails, PipeDead
<1>9. CASE TakeReply
  BY <1>9, RepliesTake
<1>10. CASE ReplyTimeout
  BY <1>10, RepliesTimeout
<1>11. CASE TakeInput
  BY <1>0, <1>11, RepliesKept DEF TakeInput, PipeDead
<1>12. CASE InputTimeout
  BY <1>0, <1>12, RepliesKept DEF InputTimeout, PipeDead
<1>13. CASE ReplyHeader
  BY <1>0, <1>13, RepliesKept DEF ReplyHeader, PipeDead
<1>14. CASE ReplyBody
  <2>1. \A x \in Cmds : st'[x] = "new" => st[x] = "new"
    BY <1>14 DEF ReplyBody, TypeOK, ClientTypes
  <2> QED BY <1>0, <1>14, <2>1, RepliesKept DEF ReplyBody, ServeTop, PipeDead
<1>15. CASE Pace
  BY <1>0, <1>15, RepliesKept DEF Pace, ServeTop, PipeDead
<1>16. CASE ClearPaced
  BY <1>0, <1>16, RepliesKept DEF ClearPaced, PipeDead
<1>17. CASE DisconnectPipe
  BY <1>17, RepliesDisconnect
<1>18. CASE CloseSocket
  BY <1>0, <1>18, RepliesKept DEF CloseSocket, LoopTop, PipeDead
<1>19. CASE ReadFrame
  BY <1>19, RepliesRead
<1>20. CASE ReaderExit
  BY <1>0, <1>20, RepliesKept DEF ReaderExit, PipeDead
<1>21. CASE DaemonOpen
  BY <1>21, RepliesOpen
<1>22. CASE DaemonInput
  BY <1>22, RepliesInput
<1>23. CASE DaemonClose
  BY <1>0, <1>23, RepliesKept DEF DaemonClose, PipeDead
<1>24. CASE PacerCheck
  BY <1>0, <1>24, RepliesKept DEF PacerCheck, PipeDead
<1>25. CASE PacerWait
  BY <1>0, <1>25, RepliesKept DEF PacerWait, PipeDead
<1>26. CASE PacerTimer
  BY <1>0, <1>26, RepliesKept DEF PacerTimer, PipeDead
<1>27. CASE PacerTake
  BY <1>0, <1>27, RepliesKept DEF PacerTake, PipeDead
<1>28. CASE PacerSend
  <2>1. \A x \in Cmds : st'[x] = "new" => st[x] = "new"
    BY <1>28 DEF PacerSend, Deliver, TypeOK, ClientTypes
  <2> QED BY <1>0, <1>28, <2>1, RepliesKept DEF PacerSend, PipeDead
<1>29. CASE StopBegin
  BY <1>0, <1>29, RepliesKept DEF StopBegin, PipeDead
<1>30. CASE StopShutdown
  BY <1>0, <1>30, RepliesKept DEF StopShutdown, PipeDead
<1>31. CASE StopPoke
  BY <1>0, <1>31, RepliesKept DEF StopPoke, PipeDead
<1>32. CASE StopJoinTcp
  BY <1>0, <1>32, RepliesKept DEF StopJoinTcp, PipeDead
<1>33. CASE StopJoinReader
  BY <1>0, <1>33, RepliesKept DEF StopJoinReader, PipeDead
<1>34. CASE StopJoinPacer
  BY <1>0, <1>34, RepliesKept DEF StopJoinPacer, PipeDead
<1>35. CASE Tick
  BY <1>0, <1>35, RepliesKept DEF Tick, PipeDead
<1>36. ASSUME NEW c \in Cmds, NEW k \in AllKinds,
              NEW r \in Reports \cup {NoReport}, ClientSubmit(c, k, r)
      PROVE  RepliesPaired'
  BY <1>36, RepliesSubmit
<1>37. ASSUME NEW c \in Cmds, ClientUnlink(c)
      PROVE  RepliesPaired'
  BY <1>0, <1>37, RepliesKept DEF ClientUnlink, PipeDead
<1>38. ASSUME NEW h \in Handles, Accept(h)
      PROVE  RepliesPaired'
  BY <1>0, <1>38, RepliesKept DEF Accept, PipeDead
<1>39. ASSUME NEW c \in Cmds, ReceiveUnlink(c)
      PROVE  RepliesPaired'
  BY <1>0, <1>39, RepliesKept DEF ReceiveUnlink, Receive, ServeTop, PipeDead
<1>40. ASSUME NEW c \in Cmds, ReceiveSubmit(c)
      PROVE  RepliesPaired'
  BY <1>40, RepliesAsk
<1>41. ASSUME NEW answered \in BOOLEAN, DaemonAnswer(answered)
      PROVE  RepliesPaired'
  BY <1>41, RepliesAnswer
<1>42. CASE UNCHANGED vars
  BY <1>0, <1>42, RepliesKept DEF vars, PipeDead
<1>43. CASE ImportHeader \/ Devlist \/ DevlistEnd
  BY <1>0, <1>43, RepliesKept DEF ImportHeader, Devlist, DevlistEnd, SendUnlocked, PipeDead
<1> QED
  BY <1>1, <1>2, <1>3, <1>4, <1>5, <1>6, <1>7, <1>8, <1>9, <1>10, <1>11,
     <1>12, <1>13, <1>14, <1>15, <1>16, <1>17, <1>18, <1>19, <1>20, <1>21,
     <1>22, <1>23, <1>24, <1>25, <1>26, <1>27, <1>28, <1>29, <1>30, <1>31,
     <1>32, <1>33, <1>34, <1>35, <1>36, <1>37, <1>38, <1>39, <1>40, <1>41,
     <1>42, <1>43
  DEF Next, ClientStep, TcpStep, ReaderStep, DaemonStep, PacerStep, StopStep

-----------------------------------------------------------------------------
(* Replies after an unlink.                                                *)

(* Only tcp_thread's reply to the command it handles and the pacer's reply *)
(* to an audio command are RET_SUBMITs, and an acknowledged unlink names   *)
(* no command that is still to be handled.                                 *)
LEMMA SilentStep ==
  ASSUME TypeOK, SessionOrder, Pacing, Unlinking, [Next]_vars
  PROVE  \A c \in acked : kind[c] \notin IsoKinds =>
            (st[c] = "sent" => st'[c] = "sent")
<1> DEFINE Silent == \A c \in acked : kind[c] \notin IsoKinds =>
                        (st[c] = "sent" => st'[c] = "sent")
<1> USE DEF clientVars
<1>0. st \in [Cmds -> {"new", "sent", "replied"}] /\ acked \subseteq Cmds
  BY DEF TypeOK, ClientTypes
<1>1. CASE ClientConnect
  BY <1>1 DEF ClientConnect
<1>2. CASE ClientClose
  BY <1>2 DEF ClientClose
<1>3. CASE AcceptDead
  BY <1>3 DEF AcceptDead
<1>4. CASE Publish
  BY <1>4 DEF Publish
<1>5. ASSUME NEW code \in {"import", "devlist"}, ReceiveHeader(code)
      PROVE  Silent
  BY <1>5 DEF ReceiveHeader
<1>6. CASE Listen
  BY <1>6 DEF Listen
<1>7. CASE ConnectPipe
  BY <1>7 DEF ConnectPipe
<1>8. CASE ReceiveFails
  BY <1>8 DEF ReceiveFails
<1>9. CASE TakeReply
  BY <1>9 DEF TakeReply
<1>10. CASE ReplyTimeout
  BY <1>10 DEF ReplyTimeout
<1>11. CASE TakeInput
  BY <1>11 DEF TakeInput
<1>12. CASE InputTimeout
  BY <1>12 DEF InputTimeout
<1>13. CASE ReplyHeader
  BY <1>13 DEF ReplyHeader
<1>14. CASE ReplyBody
  <2>1. Handling /\ (st' = st \/ st' = [st EXCEPT ![cur] = "replied"])
    BY <1>14 DEF ReplyBody, Handling
  <2> QED BY <1>0, <2>1 DEF Unlinking, AckedHandled
<1>15. CASE Pace
  BY <1>15 DEF Pace
<1>16. CASE ClearPaced
  BY <1>16 DEF ClearPaced
<1>17. CASE DisconnectPipe
  BY <1>17 DEF DisconnectPipe
<1>18. CASE CloseSocket
  BY <1>18 DEF CloseSocket
<1>19. CASE ReadFrame
  BY <1>19 DEF ReadFrame
<1>20. CASE ReaderExit
  BY <1>20 DEF ReaderExit
<1>21. CASE DaemonOpen
  BY <1>21 DEF DaemonOpen
<1>22. CASE DaemonInput
  BY <1>22 DEF DaemonInput
<1>23. CASE DaemonClose
  BY <1>23 DEF DaemonClose
<1>24. CASE PacerCheck
  BY <1>24 DEF PacerCheck
<1>25. CASE PacerWait
  BY <1>25 DEF PacerWait
<1>26. CASE PacerTimer
  BY <1>26 DEF PacerTimer
<1>27. CASE PacerTake
  BY <1>27 DEF PacerTake
<1>28. CASE PacerSend
  <2>1. inHand \in Logged /\ (st' = st \/ st' = [st EXCEPT ![inHand] = "replied"])
    BY <1>28 DEF PacerSend, Deliver, Pacing, PacerHolds
  <2> QED BY <1>0, <2>1 DEF SessionOrder
<1>29. CASE StopBegin
  BY <1>29 DEF StopBegin
<1>30. CASE StopShutdown
  BY <1>30 DEF StopShutdown
<1>31. CASE StopPoke
  BY <1>31 DEF StopPoke
<1>32. CASE StopJoinTcp
  BY <1>32 DEF StopJoinTcp
<1>33. CASE StopJoinReader
  BY <1>33 DEF StopJoinReader
<1>34. CASE StopJoinPacer
  BY <1>34 DEF StopJoinPacer
<1>35. CASE Tick
  BY <1>35 DEF Tick
<1>36. ASSUME NEW c \in Cmds, NEW k \in AllKinds,
              NEW r \in Reports \cup {NoReport}, ClientSubmit(c, k, r)
      PROVE  Silent
  BY <1>0, <1>36 DEF ClientSubmit
<1>37. ASSUME NEW c \in Cmds, ClientUnlink(c)
      PROVE  Silent
  BY <1>37 DEF ClientUnlink
<1>38. ASSUME NEW h \in Handles, Accept(h)
      PROVE  Silent
  BY <1>38 DEF Accept
<1>39. ASSUME NEW c \in Cmds, ReceiveUnlink(c)
      PROVE  Silent
  BY <1>39 DEF ReceiveUnlink
<1>40. ASSUME NEW c \in Cmds, ReceiveSubmit(c)
      PROVE  Silent
  BY <1>40 DEF ReceiveSubmit
<1>41. ASSUME NEW answered \in BOOLEAN, DaemonAnswer(answered)
      PROVE  Silent
  BY <1>41 DEF DaemonAnswer
<1>42. CASE UNCHANGED vars
  BY <1>42 DEF vars
<1>43. CASE ImportHeader \/ Devlist \/ DevlistEnd
  BY <1>43 DEF ImportHeader, Devlist, DevlistEnd, SendUnlocked
<1> QED
  BY <1>1, <1>2, <1>3, <1>4, <1>5, <1>6, <1>7, <1>8, <1>9, <1>10, <1>11,
     <1>12, <1>13, <1>14, <1>15, <1>16, <1>17, <1>18, <1>19, <1>20, <1>21,
     <1>22, <1>23, <1>24, <1>25, <1>26, <1>27, <1>28, <1>29, <1>30, <1>31,
     <1>32, <1>33, <1>34, <1>35, <1>36, <1>37, <1>38, <1>39, <1>40, <1>41,
     <1>42, <1>43
  DEF Next, ClientStep, TcpStep, ReaderStep, DaemonStep, PacerStep, StopStep

-----------------------------------------------------------------------------
(* The theorems.                                                           *)

(* A port that start() has just brought up satisfies the invariant.        *)
LEMMA InitIInv == Init => IInv
<1> SUFFICES ASSUME Init PROVE IInv
  OBVIOUS
<1>1. TypeOK
  <2>1. ClientTypes
    BY DEF Init, ClientTypes, AllKinds
  <2>2. TcpTypes
    BY DEF Init, TcpTypes
  <2>3. PipeTypes
    BY DEF Init, PipeTypes
  <2>4. ReaderTypes
    BY BoundsNat DEF Init, ReaderTypes
  <2>5. PacerTypes
    BY DEF Init, PacerTypes
  <2>6. StopTypes
    BY DEF Init, StopTypes
  <2> QED BY <2>1, <2>2, <2>3, <2>4, <2>5, <2>6 DEF TypeOK
<1>2. Unread = {} /\ Logged = {} /\ ToSet(paced) = {} /\ ~Handling
  BY DEF Init, Unread, Logged, ToSet, Handling
<1>3. ReadOnce /\ PacedSorted
  BY DEF Init, ReadOnce, PacedSorted
<1>4. OnePlace
  BY <1>2 DEF OnePlace
<1>5. SessionOrder
  <2>1. Current = {}
    BY <1>2 DEF Current
  <2> QED BY <1>2, <2>1 DEF Init, SessionOrder, Unserved, Greeting, Serving
<1>6. PacerHolds /\ NoneLost /\ Spaced /\ InOrder
  BY <1>2 DEF Init, PacerHolds, NoneLost, Current, Spaced, InOrder
<1>7. InputsStamped /\ TornOnlyByLeftover /\ torn \subseteq Logged
  <2>1. DOMAIN toHost = {} /\ InputsAfter(0) = {}
    BY DEF Init, InputsAfter
  <2>2. Cardinality(InputsAfter(0)) = 0
    BY <2>1, FS_EmptySet
  <2> QED BY <2>1, <2>2 DEF Init, InputsStamped, NewestRead, TornOnlyByLeftover
<1>8. UnlinkFollows /\ AckedHandled
  BY DEF Init, UnlinkFollows, AckedHandled
<1>9. AwaitedMatch /\ NothingLate /\ AnswersSent /\ AnswersReportAsked
  <2>1. ReplyFrames = {} /\ ToSet(toDaemon) = {} /\ Len(toDaemon) = 0 /\ Len(featQueue) = 0
    BY DEF Init, ReplyFrames, ToSet
  <2>2. AwaitedMatch /\ NothingLate
    BY <2>1 DEF Init, AwaitedMatch, NothingLate, OneAwaited
  <2>3. AnswersSent /\ AnswersReportAsked
    BY <2>1 DEF Init, AnswersSent, AnswersReportAsked
  <2> QED BY <2>2, <2>3
<1> QED BY <1>1, <1>3, <1>4, <1>5, <1>6, <1>7, <1>8, <1>9 DEF IInv

(* Every step preserves it.                                                *)
LEMMA NextIInv == IInv /\ [Next]_vars => IInv'
<1> SUFFICES ASSUME IInv, [Next]_vars PROVE IInv'
  OBVIOUS
<1>1. /\ TypeOK /\ Placement /\ (Handling => cur \in Cmds)
      /\ SessionOrder /\ Pacing /\ InputsStamped /\ Tearing /\ Unlinking
      /\ ~late => RepliesPaired
      /\ pacerPc = "sending" => inHand \in Cmds
  BY LogEntries DEF IInv, PacerHolds, Placement, OnePlace, Pacing, Tearing, Unlinking, RepliesPaired
<1>2. TypeOK' /\ Placement'
  BY <1>1, TypeStep, PlacementStep
<1>3. SessionOrder' /\ Pacing'
  <2>1. PacerHolds
    BY <1>1 DEF Pacing
  <2> QED BY <1>1, <2>1, SessionStep, PacingStep
<1>4. InputsStamped' /\ Unlinking'
  BY <1>1, InputsStep, UnlinkStep
<1>5. Tearing' /\ (late => late')
  <2>1. PacerHolds
    BY <1>1 DEF Pacing
  <2> QED BY <1>1, <2>1, TornStep
<1>6. ~late' => RepliesPaired'
  BY <1>1, <1>5, RepliesStep
<1> QED
  BY <1>2, <1>3, <1>4, <1>5, <1>6
  DEF IInv, Placement, Pacing, Tearing, Unlinking, RepliesPaired

(* The inductive invariant holds of every behaviour of the port.           *)
THEOREM Invariance == Spec => []IInv
<1> QED BY InitIInv, NextIInv, PTL DEF Spec

(* Every field of VirtualPort::Impl keeps its type, and hid_in_queue its   *)
(* bound.                                                                  *)
THEOREM Typing == Spec => []TypeOK
<1>1. IInv => TypeOK
  BY DEF IInv
<1> QED BY <1>1, Invariance, PTL

(* The pacer's queue is sorted by due time whatever the speaker and the    *)
(* microphone submit, so that neither stream holds up the other.           *)
THEOREM PacerSorted == Spec => []PacedSorted
<1>1. IInv => PacedSorted
  BY DEF IInv
<1> QED BY <1>1, Invariance, PTL

(* handle_cmd_submit and pacer_thread_main send every stream at real time: *)
(* its replies are due a packet's duration apart and none is sent early,   *)
(* nor before those ahead of it while their connection is the current one. *)
THEOREM RealTime == Spec => []PacedAtRealTime
<1>1. IInv => PacedAtRealTime
  <2> SUFFICES ASSUME IInv, NEW i \in DOMAIN paceLog, NEW j \in DOMAIN paceLog,
                      i < j, kind[paceLog[i]] = kind[paceLog[j]],
                      sess[paceLog[i]] = sess[paceLog[j]]
               PROVE  /\ due[paceLog[j]] >= due[paceLog[i]] + IsoTicks
                      /\ st[paceLog[j]] = "replied" => now >= due[paceLog[j]]
                      /\ st[paceLog[j]] = "replied" /\ sess[paceLog[j]] = imports
                             => st[paceLog[i]] = "replied"
    BY DEF PacedAtRealTime
  <2> DEFINE c == paceLog[i]
             d == paceLog[j]
  <2>1. c \in Logged /\ d \in Logged /\ Precedes(c, d)
    BY LogEntries DEF IInv, Precedes
  <2>2. due[d] \in Nat /\ now \in Nat
    BY <2>1, LogEntries DEF IInv, TypeOK, StopTypes
  <2>3. due[d] >= due[c] + IsoTicks
    BY <2>1 DEF IInv, Spaced
  <2>4. st[d] = "replied" => now >= due[d]
    BY <2>1, <2>2 DEF IInv, PacerHolds
  <2>5. st[d] = "replied" /\ sess[d] = imports => st[c] = "replied"
    BY <2>1 DEF IInv, InOrder
  <2> QED BY <2>3, <2>4, <2>5
<1> QED BY <1>1, Invariance, PTL

(* paced_replies is sorted by due time, and each stream leaves in order    *)
(* and at real time, over any number of sessions.                          *)
THEOREM PacerOrdered == Spec => []PacedInOrder
BY PacerSorted, RealTime, PTL DEF PacedInOrder

(* The pacer and tcp_thread never interleave the messages of a connection: *)
(* only a reply of an earlier one, sent to a reused SOCKET, gets inside a  *)
(* message, and then inside one that is sent without socket_send_mutex.    *)
THEOREM MessagesWhole == Spec => []TornOnlyByLeftover
<1>1. IInv => TornOnlyByLeftover
  BY DEF IInv
<1> QED BY <1>1, Invariance, PTL

(* hid_in_queue drops the stale reports and never the newest: while the    *)
(* pipe is up, the last report that was read is queued or with the host.   *)
THEOREM NewestInput == Spec => []NewestInputKept
<1>1. IInv => NewestInputKept
  <2> SUFFICES ASSUME IInv, ~PipeDead, ~stopReq PROVE NewestInputKept
    BY DEF NewestInputKept
  <2> DEFINE H == {i \in DOMAIN toHost : toHost[i].type = "HID_IN"}
  <2>1. TypeOK
    BY DEF IInv
  <2>2. H = InputsAfter(0)
    <3>1. \A i \in DOMAIN toHost : i > 0
      BY <2>1 DEF TypeOK, PipeTypes
    <3> QED BY <3>1 DEF InputsAfter
  <2>3. Cardinality(H) \in Nat /\ inputs \in Nat
    BY <2>1, <2>2, InputsCount DEF TypeOK, PipeTypes
  <2>4. NewestRead \in Nat
    BY <2>1 DEF NewestRead, Last, TypeOK, ReaderTypes, StopTypes
  <2>5. NewestRead + Cardinality(H) = inputs
    BY <2>2 DEF IInv, InputsStamped
  <2> HIDE DEF H
  <2>6. inputs - Cardinality(H) = NewestRead
    BY <2>3, <2>4, <2>5
  <2> QED BY <2>6 DEF NewestInputKept, NewestRead, H
<1> QED BY <1>1, Invariance, PTL

(* handle_cmd_submit pairs the FEATURE_REPLY frames with its requests by   *)
(* their order alone: until a wait ends while its answer is under way,     *)
(* every GET_REPORT is answered with the report it asked for.              *)
THEOREM AnswersPaired == Spec => []PairedUnlessLate
<1>1. IInv => PairedUnlessLate
  BY DEF IInv, PairedUnlessLate
<1> QED BY <1>1, Invariance, PTL

(* Once the unlink of a request other than audio has been                  *)
(* acknowledged, no step sends a RET_SUBMIT for it.                        *)
THEOREM UnlinkSilences == Spec => SilentAfterUnlink
<1>1. IInv /\ [Next]_vars =>
        [\A c \in acked : kind[c] \notin IsoKinds =>
            (st[c] = "sent" => st'[c] = "sent")]_vars
  BY SilentStep DEF IInv, Pacing, Unlinking
<1> QED BY <1>1, Invariance, PTL DEF Spec, SilentAfterUnlink

=============================================================================
