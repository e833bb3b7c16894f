--------------------------- MODULE VdsHcd_proofs ---------------------------
(***************************************************************************)
(* Theorems about the URB engine VdsHcd, for every set of URBs and reports *)
(* and every bound.                                                        *)
(***************************************************************************)
EXTENDS VdsHcd, Lists_proofs

USE DEF urbVars, ctxVars, listVars, timeVars, gbVars, daemonVars

-----------------------------------------------------------------------------
(* Type correctness.                                                       *)

(* vds_queue_urb_giveback_locked keeps completed_urbs a list of URBs.      *)
LEMMA AddCompletedType ==
  ASSUME NEW s \in Seq(Urbs), NEW t, NEW rd, completed \in Seq(Urbs),
         AddCompleted(s, t, rd)
  PROVE  completed' \in Seq(Urbs)
BY SpliceElements DEF AddCompleted

(* Completing one URB keeps the list of completions a list of URBs.        *)
LEMMA AddOneType ==
  ASSUME NEW u \in Urbs, NEW t, NEW rd, completed \in Seq(Urbs),
         AddCompleted(<<u>>, t, rd)
  PROVE  completed' \in Seq(Urbs)
<1>1. <<u>> \in Seq(Urbs)
  OBVIOUS
<1> QED BY <1>1, AddCompletedType

(* The elements of a list.                                                 *)
LEMMA SeqSubset ==
  ASSUME NEW S, NEW q \in Seq(S)
  PROVE  ToSet(q) \in SUBSET S
BY DEF ToSet

(* list_splice of some entries of a list, in its order.                    *)
LEMMA InListOrderType ==
  ASSUME NEW q \in Seq(Urbs), NEW S \in SUBSET ToSet(q),
         NEW s \in InListOrder(S, q)
  PROVE  s \in Seq(Urbs) /\ ToSet(s) = S /\ NoDup(s)
<1>1. S \in SUBSET Urbs
  BY SeqSubset
<1>2. IsFiniteSet(S)
  BY <1>1, UrbsFinite, FS_Subset
<1> QED BY <1>1, <1>2, InListOrderElements

(* list_del leaves a list over the same set.                               *)
LEMMA UnlistedType ==
  ASSUME NEW S, NEW q \in Seq(S), NEW e, NEW r \in Unlisted(q, e)
  PROVE  r \in Seq(S)
BY RemoveAtEntries DEF Unlisted

(* vds_enqueue_frame keeps the queue within its bound.                     *)
LEMMA FrameBound ==
  ASSUME events \in Seq(Urbs), Len(events) <= EventMax, NEW u \in Urbs,
         ~FrameRefused
  PROVE  Append(events, u) \in Seq(Urbs) /\ Len(Append(events, u)) <= EventMax
BY BoundsNat DEF FrameRefused

(* A frame that is sent best-effort respects the bound of the event queue. *)
LEMMA SendFrameType ==
  ASSUME events \in Seq(Urbs), Len(events) <= EventMax, NEW u \in Urbs,
         SendBestEffort(u)
  PROVE  events' \in Seq(Urbs) /\ Len(events') <= EventMax
BY FrameBound DEF SendBestEffort

(* The later of a time and now.                                            *)
LEMMA LaterType ==
  ASSUME now \in Nat, NEW t \in Nat
  PROVE  Later(t) \in Nat
BY DEF Later

(* Scheduling a HID IN URB sets a time.                                    *)
LEMMA ScheduleType ==
  ASSUME now \in Nat, nextHid \in Nat, ready \in [Urbs -> Nat], NEW u \in Urbs,
         ScheduleHidIn(u)
  PROVE  ready' \in [Urbs -> Nat] /\ nextHid' \in Nat
BY LaterType, BoundsNat DEF ScheduleHidIn

(* Cancelling the pending URBs keeps the types.                            *)
LEMMA CancelType ==
  ASSUME hidPending \in Seq(Urbs), featPending \in Seq(Urbs),
         completed \in Seq(Urbs), cstate \in [Urbs -> ContextStates],
         status \in [Urbs -> Statuses], CancelPending("ESHUTDOWN")
  PROVE  /\ hidPending' \in Seq(Urbs) /\ featPending' \in Seq(Urbs)
         /\ completed' \in Seq(Urbs) /\ cstate' \in [Urbs -> ContextStates]
         /\ status' \in [Urbs -> Statuses]
<1> DEFINE q == hidPending \o featPending
<1>1. q \in Seq(Urbs)
  OBVIOUS
<1>2. completed' \in Seq(Urbs)
  BY <1>1, AddCompletedType DEF CancelPending
<1> QED BY <1>2 DEF CancelPending, ContextStates, Statuses

(* Dropping what is buffered keeps the types.                              *)
LEMMA FlushType ==
  ASSUME FlushBuffered
  PROVE  events' \in Seq(Urbs) /\ Len(events') <= EventMax /\ input' \in Nat
BY BoundsNat DEF FlushBuffered

(* A port that has just been created has its types.                        *)
LEMMA TypeInit == Init => TypeOK
<1> SUFFICES ASSUME Init PROVE TypeOK
  OBVIOUS
<1>1. events \in Seq(Urbs) /\ Len(events) <= EventMax
  BY BoundsNat DEF Init
<1>2. hidPending \in Seq(Urbs) /\ featPending \in Seq(Urbs) /\ completed \in Seq(Urbs)
  BY DEF Init
<1>3. /\ kind \in [Urbs -> AllKinds] /\ ret \in [Urbs -> Statuses]
      /\ cstate \in [Urbs -> ContextStates] /\ status \in [Urbs -> Statuses]
      /\ data \in [Urbs -> Nat] /\ ready \in [Urbs -> Nat]
      /\ unlinked \in [Urbs -> BOOLEAN]
  BY DEF Init, AllKinds, Statuses, ContextStates
<1>4. /\ rid \in [Urbs -> Reports \cup {NoReport}]
      /\ pc \in [Urbs -> {"idle", "entered", "defer", "frame", "queue", "returned"}]
  BY DEF Init
<1>5. /\ now \in Nat \ {0} /\ stamp \in Nat /\ conns \in Nat /\ lastIn \in Nat
      /\ input \in Nat /\ nextIsoOut \in Nat /\ nextIsoIn \in Nat
      /\ nextHid \in Nat /\ gbWake \in Nat
  BY DEF Init
<1>6. /\ stopping \in BOOLEAN /\ connected \in BOOLEAN
      /\ resetting \in BOOLEAN /\ corrupt \in BOOLEAN
      /\ cache \subseteq Reports /\ asked \subseteq Urbs
      /\ gb \in Urbs \cup {NoUrb} /\ gbPc \in {"deliver", "giveback"}
      /\ replying \in Reports \cup {NoReport}
  BY DEF Init
<1> QED BY <1>1, <1>2, <1>3, <1>4, <1>5, <1>6 DEF TypeOK

(* Every step keeps the types.                                             *)
LEMMA TypeStep == TypeOK /\ [Next]_vars => TypeOK'
<1> SUFFICES ASSUME TypeOK, [Next]_vars PROVE TypeOK'
  OBVIOUS
<1> USE DEF TypeOK, At, AllKinds, Statuses, ContextStates
<1>1. ASSUME NEW u \in Urbs, NEW k \in Kinds, NEW r \in Reports \cup {NoReport},
             Submit(u, k, r)
      PROVE  TypeOK'
  BY <1>1, KindsKnown DEF Submit
<1>2. ASSUME NEW u \in Urbs, NEW s \in {"ok", "EPIPE"}, AnswerNow(u, s)
      PROVE  TypeOK'
  BY <1>2 DEF AnswerNow
<1>3. ASSUME NEW u \in Urbs, GetFeature(u)
      PROVE  TypeOK'
  BY <1>3 DEF GetFeature
<1>4. ASSUME NEW u \in Urbs, DeferFeatureGet(u)
      PROVE  TypeOK'
  BY <1>4 DEF DeferFeatureGet
<1>5. ASSUME NEW u \in Urbs, DeferRefused(u)
      PROVE  TypeOK'
  BY <1>5 DEF DeferRefused
<1>6. ASSUME NEW u \in Urbs, FrameFeatureGet(u)
      PROVE  TypeOK'
  <2>1. events' \in Seq(Urbs) /\ Len(events') <= EventMax
    BY <1>6, FrameBound, SendFrameType DEF FrameFeatureGet
  <2>2. ret' \in [Urbs -> Statuses]
    BY <1>6 DEF FrameFeatureGet, FrameError
  <2> QED BY <1>6, <2>1, <2>2 DEF FrameFeatureGet
<1>7. ASSUME NEW u \in Urbs, SendFrame(u)
      PROVE  TypeOK'
  <2>1. events' \in Seq(Urbs) /\ Len(events') <= EventMax
    BY <1>7, SendFrameType DEF SendFrame
  <2>2. ret' \in [Urbs -> Statuses]
    BY <1>7 DEF SendFrame, FrameError
  <2> QED BY <1>7, <2>1, <2>2 DEF SendFrame
<1>8. ASSUME NEW u \in Urbs, HidInTake(u)
      PROVE  TypeOK'
  <2>1. ready' \in [Urbs -> Nat] /\ nextHid' \in Nat
    BY <1>8, ScheduleType DEF HidInTake
  <2> QED BY <1>8, <2>1 DEF HidInTake
<1>9. ASSUME NEW u \in Urbs, HidInWait(u)
      PROVE  TypeOK'
  BY <1>9 DEF HidInWait
<1>10. ASSUME NEW u \in Urbs, ScheduleIso(u)
       PROVE  TypeOK'
  <2>1. ready' \in [Urbs -> Nat] /\ nextIsoOut' \in Nat /\ nextIsoIn' \in Nat
    <3>1. /\ Later(nextIsoOut) + IsoTicks \in Nat
          /\ Later(nextIsoIn) + IsoTicks \in Nat
      <4>1. now \in Nat /\ nextIsoOut \in Nat /\ nextIsoIn \in Nat
        OBVIOUS
      <4>2. Later(nextIsoOut) \in Nat /\ Later(nextIsoIn) \in Nat
        BY <4>1, LaterType
      <4> HIDE DEF TypeOK
      <4> QED BY <4>2, BoundsNat
    <3> QED BY <1>10, <3>1 DEF ScheduleIso
  <2> QED BY <1>10, <2>1 DEF ScheduleIso
<1>11. ASSUME NEW u \in Urbs, QueueGiveback(u)
       PROVE  TypeOK'
  <2>1. completed' \in Seq(Urbs)
    <3>1. CASE AddCompleted(<<u>>, ready[u], ready)
      BY <3>1, AddOneType
    <3>2. CASE completed' = completed
      BY <3>2
    <3> QED BY <1>11, <3>1, <3>2 DEF QueueGiveback
  <2>2. featPending' \in Seq(Urbs)
    BY <1>11, UnlistedType DEF QueueGiveback
  <2> QED BY <1>11, <2>1, <2>2 DEF QueueGiveback
<1>12. ASSUME NEW u \in Urbs, StaleContext(u)
       PROVE  TypeOK'
  BY <1>12 DEF StaleContext
<1>13. ASSUME NEW u \in Urbs, Unlink(u)
       PROVE  TypeOK'
  <2>1. completed' \in Seq(Urbs)
    <3>1. CASE AddCompleted(<<u>>, ready[u], ready)
      BY <3>1, AddOneType
    <3>2. CASE completed' = completed
      BY <3>2
    <3> QED BY <1>13, <3>1, <3>2 DEF Unlink
  <2>2. hidPending' \in Seq(Urbs) /\ featPending' \in Seq(Urbs)
    BY <1>13, UnlistedType DEF Unlink
  <2>3. unlinked' \in [Urbs -> BOOLEAN]
    BY <1>13 DEF Unlink
  <2>4. status' \in [Urbs -> Statuses]
    BY <1>13 DEF Unlink
  <2>5. cstate' \in [Urbs -> ContextStates]
    BY <1>13 DEF Unlink
  <2>6. ready' \in [Urbs -> Nat]
    <3>1. ready' = [ready EXCEPT ![u] = 0] \/ ready' = ready
      BY <1>13 DEF Unlink
    <3>2. ready \in [Urbs -> Nat]
      OBVIOUS
    <3> HIDE DEF TypeOK
    <3> QED BY <3>1, <3>2
  <2> QED BY <1>13, <2>1, <2>2, <2>3, <2>4, <2>5, <2>6 DEF Unlink
<1>14. CASE GbSleep
  BY <1>14 DEF GbSleep, GbIdle
<1>15. CASE GbWakeUp
  BY <1>15 DEF GbWakeUp
<1>16. CASE GbTake
  BY <1>16, SMTT(30) DEF GbTake, GbIdle
<1>17. CASE GbDeliver
  <2>1. gb \in Urbs
    BY <1>17 DEF GbDeliver, GbBusy
  <2>2. events' \in Seq(Urbs) /\ Len(events') <= EventMax
    BY <1>17, <2>1, SendFrameType DEF GbDeliver
  <2> QED BY <1>17, <2>2 DEF GbDeliver
<1>18. CASE GbGiveback
  BY <1>18 DEF GbGiveback, GbBusy
<1>19. CASE ReadFrame
  <2>1. /\ Head(events) \in Urbs /\ Tail(events) \in Seq(Urbs)
        /\ Len(Tail(events)) <= EventMax
    BY <1>19, BoundsNat DEF ReadFrame
  <2> QED BY <1>19, <2>1 DEF ReadFrame
<1>20. CASE WriteInput
  <2>1. CASE hidPending # <<>>
    <3>1. Head(hidPending) \in Urbs /\ Tail(hidPending) \in Seq(Urbs)
      BY <2>1
    <3>2. ready' \in [Urbs -> Nat] /\ nextHid' \in Nat
      BY <1>20, <2>1, <3>1, ScheduleType DEF WriteInput
    <3>3. completed' \in Seq(Urbs)
      <4>1. AddCompleted(<<Head(hidPending)>>, ready'[Head(hidPending)], ready)
        BY <1>20, <2>1 DEF WriteInput
      <4> QED BY <3>1, <4>1, AddOneType
    <3>4. stamp' \in Nat /\ data' \in [Urbs -> Nat]
      <4>1. stamp' = stamp + 1 /\ data' = [data EXCEPT ![Head(hidPending)] = stamp']
        BY <1>20, <2>1 DEF WriteInput
      <4>2. stamp' \in Nat
        BY <4>1
      <4> QED BY <4>1, <4>2, <3>1
    <3> QED BY <1>20, <2>1, <3>1, <3>2, <3>3, <3>4 DEF WriteInput
  <2>2. CASE hidPending = <<>>
    BY <1>20, <2>2 DEF WriteInput
  <2> QED BY <2>1, <2>2
<1>21. ASSUME NEW r \in Reports, CacheReply(r)
       PROVE  TypeOK'
  BY <1>21 DEF CacheReply
<1>22. CASE DeliverReply
  <2>1. CASE stopping
    BY <1>22, <2>1 DEF DeliverReply
  <2>2. CASE ~stopping
    <3>1. Answered \in SUBSET ToSet(featPending)
      BY DEF Answered
    <3>2. featPending' \in Seq(Urbs)
      BY <1>22, <2>2, <3>1, InListOrderType DEF DeliverReply
    <3>3. completed' \in Seq(Urbs)
      <4>1. PICK s \in InListOrder(Answered, featPending) :
              AddCompleted(s, 0, ready)
        BY <1>22, <2>2 DEF DeliverReply
      <4>2. s \in Seq(Urbs)
        BY <3>1, InListOrderType
      <4> QED BY <4>1, <4>2, AddCompletedType
    <3> QED BY <1>22, <2>2, <3>2, <3>3 DEF DeliverReply
  <2> QED BY <2>1, <2>2
<1>23. CASE SetProfile
  BY <1>23 DEF SetProfile
<1>24. CASE Connect
  BY <1>24 DEF Connect
<1>25. CASE Disconnect
  BY <1>25, CancelType, FlushType DEF Disconnect
<1>26. CASE ResetUsb
  BY <1>26 DEF ResetUsb
<1>27. CASE Stop
  BY <1>27, CancelType, FlushType DEF Stop
<1>28. CASE Tick
  BY <1>28 DEF Tick
<1>29. CASE UNCHANGED vars
  BY <1>29 DEF vars
<1> HIDE DEF TypeOK
<1> QED
  BY <1>1, <1>2, <1>3, <1>4, <1>5, <1>6, <1>7, <1>8, <1>9, <1>10, <1>11,
     <1>12, <1>13, <1>14, <1>15, <1>16, <1>17, <1>18, <1>19, <1>20, <1>21,
     <1>22, <1>23, <1>24, <1>25, <1>26, <1>27, <1>28, <1>29
     DEF Next, SubmitterStep, GivebackStep, DaemonStep

(* Every field keeps its type and the frame queue its bound.               *)
THEOREM Typing == Spec => []TypeOK
<1> QED BY TypeInit, TypeStep, PTL DEF Spec

-----------------------------------------------------------------------------
(* Contexts and lists.                                                     *)

(* vds_queue_urb_giveback_locked adds exactly the contexts s.              *)
LEMMA AddCompletedElements ==
  ASSUME NEW s \in Seq(Urbs), NEW t, NEW rd, completed \in Seq(Urbs),
         NoDup(completed), NoDup(s), ToSet(completed) \cap ToSet(s) = {},
         AddCompleted(s, t, rd)
  PROVE  /\ ToSet(completed') = ToSet(completed) \cup ToSet(s)
         /\ NoDup(completed')
BY SpliceElements, SpliceNoDup DEF AddCompleted

(* A list of one URB.                                                      *)
LEMMA Singleton ==
  ASSUME NEW u \in Urbs
  PROVE  <<u>> \in Seq(Urbs) /\ ToSet(<<u>>) = {u} /\ NoDup(<<u>>)
BY DEF ToSet, NoDup

(* A list of none.                                                         *)
LEMMA EmptyList == ToSet(<<>>) = {} /\ NoDup(<<>>)
BY DEF ToSet, NoDup

(* The state part of ListsMatchStates, for one URB.                        *)
Match(u) ==
  /\ u \in ToSet(hidPending) <=> cstate[u] = "PENDING_HID_IN"
  /\ u \in ToSet(featPending) <=> cstate[u] = "PENDING_FEATURE_GET"
  /\ u \in ToSet(completed) <=> cstate[u] = "PENDING_GIVEBACK"
  /\ gb = u <=> cstate[u] = "GIVING_BACK"

(* A step that touches neither the lists nor the states of the contexts.   *)
LEMMA ListsUntouched ==
  ASSUME ListsMatchStates, UNCHANGED <<listVars, cstate, gb>>
  PROVE  ListsMatchStates'
BY DEF ListsMatchStates

(* Cancelling moves both pending lists to completed_urbs.                  *)
LEMMA CancelLists ==
  ASSUME TypeOK, ListsMatchStates, CancelPending("ESHUTDOWN"), gb' = gb
  PROVE  ListsMatchStates'
<1> DEFINE q == hidPending \o featPending
<1>1. /\ hidPending \in Seq(Urbs) /\ featPending \in Seq(Urbs)
      /\ completed \in Seq(Urbs)
  BY DEF TypeOK
<1>2. NoDup(hidPending) /\ NoDup(featPending) /\ NoDup(completed)
  BY DEF ListsMatchStates
<1>3. \A u \in Urbs : Match(u)
  BY DEF ListsMatchStates, Match
<1>4. /\ ToSet(hidPending) \subseteq Urbs /\ ToSet(featPending) \subseteq Urbs
      /\ ToSet(completed) \subseteq Urbs
  BY <1>1, SeqSubset
<1>5. /\ ToSet(hidPending) \cap ToSet(featPending) = {}
      /\ ToSet(completed) \cap (ToSet(hidPending) \cup ToSet(featPending)) = {}
  BY <1>3, <1>4 DEF Match
<1>6. /\ q \in Seq(Urbs) /\ NoDup(q)
      /\ ToSet(q) = ToSet(hidPending) \cup ToSet(featPending)
  BY <1>1, <1>2, <1>5, ConcatElements
<1>7. AddCompleted(q, 0, ready)
  BY DEF CancelPending
<1>8. ToSet(completed') = ToSet(completed) \cup ToSet(q) /\ NoDup(completed')
  BY <1>1, <1>2, <1>5, <1>6, <1>7, AddCompletedElements
<1>9. hidPending' = <<>> /\ featPending' = <<>>
  BY DEF CancelPending
<1>10. \A u \in Urbs : cstate'[u] = IF u \in ToSet(q) THEN "PENDING_GIVEBACK"
                                                     ELSE cstate[u]
  BY DEF CancelPending
<1> HIDE DEF q
<1>11. ASSUME NEW u \in Urbs PROVE Match(u)'
  BY <1>3, <1>6, <1>8, <1>9, <1>10, EmptyList DEF Match
<1> QED BY <1>8, <1>9, <1>11, EmptyList DEF ListsMatchStates, Match

(* Each step keeps every context on the list its state names.              *)
LEMMA ListsStep ==
  ASSUME IInv, [Next]_vars
  PROVE  ListsMatchStates'
<1> USE DEF At
<1>1. /\ hidPending \in Seq(Urbs) /\ featPending \in Seq(Urbs)
      /\ completed \in Seq(Urbs) /\ cstate \in [Urbs -> ContextStates]
      /\ gb \in Urbs \cup {NoUrb}
  BY DEF IInv, TypeOK
<1>2. NoDup(hidPending) /\ NoDup(featPending) /\ NoDup(completed)
  BY DEF IInv, ListsMatchStates
<1>3. \A u \in Urbs : Match(u)
  BY DEF IInv, ListsMatchStates, Match
<1>4. /\ ToSet(hidPending) \subseteq Urbs /\ ToSet(featPending) \subseteq Urbs
      /\ ToSet(completed) \subseteq Urbs
  BY <1>1, SeqSubset
<1>5. TypeOK /\ ListsMatchStates /\ NotStarted
  BY DEF IInv
<1>6. ASSUME NoDup(hidPending'), NoDup(featPending'), NoDup(completed'),
             \A u \in Urbs : Match(u)'
      PROVE  ListsMatchStates'
  BY <1>6 DEF ListsMatchStates, Match
<1>7. ASSUME NEW u \in Urbs, NEW t, NEW rd, u \notin ToSet(completed),
             AddCompleted(<<u>>, t, rd)
      PROVE  ToSet(completed') = ToSet(completed) \cup {u} /\ NoDup(completed')
  <2>1. <<u>> \in Seq(Urbs) /\ ToSet(<<u>>) = {u} /\ NoDup(<<u>>)
    BY Singleton
  <2>2. ToSet(completed) \cap ToSet(<<u>>) = {}
    BY <1>7, <2>1
  <2>3. /\ ToSet(completed') = ToSet(completed) \cup ToSet(<<u>>)
        /\ NoDup(completed')
    BY <1>1, <1>2, <1>7, <2>1, <2>2, AddCompletedElements
  <2> QED BY <2>1, <2>3
<1>8. NoUrb \notin Urbs
  BY NoneDistinct
<1>10. ASSUME NEW u \in Urbs, NEW k \in Kinds, NEW r \in Reports \cup {NoReport},
              Submit(u, k, r)
       PROVE  ListsMatchStates'
  <2>1. cstate[u] = "none"
    BY <1>5, <1>10 DEF Submit, NotStarted
  <2>2. \A v \in Urbs : cstate'[v] = IF v = u THEN IF stopping THEN "freed" ELSE "ACTIVE"
                                     ELSE cstate[v]
    BY <1>1, <1>10 DEF Submit
  <2>3. UNCHANGED <<listVars, gb>>
    BY <1>10 DEF Submit
  <2>4. ASSUME NEW v \in Urbs PROVE Match(v)'
    BY <1>3, <2>1, <2>2, <2>3 DEF Match
  <2> QED BY <1>2, <1>6, <2>3, <2>4
<1>11. ASSUME NEW u \in Urbs, DeferFeatureGet(u)
       PROVE  ListsMatchStates'
  <2>1. cstate[u] = "ACTIVE" /\ featPending' = Append(featPending, u)
    BY <1>11 DEF DeferFeatureGet
  <2>2. u \notin ToSet(featPending)
    BY <1>3, <2>1 DEF Match
  <2>3. ToSet(featPending') = ToSet(featPending) \cup {u} /\ NoDup(featPending')
    BY <1>1, <1>2, <2>1, <2>2, AppendElements
  <2>4. \A v \in Urbs : cstate'[v] = IF v = u THEN "PENDING_FEATURE_GET"
                                     ELSE cstate[v]
    BY <1>1, <1>11 DEF DeferFeatureGet
  <2>5. UNCHANGED <<hidPending, completed, gb>>
    BY <1>11 DEF DeferFeatureGet
  <2>6. ASSUME NEW v \in Urbs PROVE Match(v)'
    BY <1>3, <2>1, <2>3, <2>4, <2>5 DEF Match
  <2> QED BY <1>2, <1>6, <2>3, <2>5, <2>6
<1>12. ASSUME NEW u \in Urbs, HidInWait(u)
       PROVE  ListsMatchStates'
  <2>1. cstate[u] = "ACTIVE" /\ hidPending' = Append(hidPending, u)
    BY <1>12 DEF HidInWait
  <2>2. u \notin ToSet(hidPending)
    BY <1>3, <2>1 DEF Match
  <2>3. ToSet(hidPending') = ToSet(hidPending) \cup {u} /\ NoDup(hidPending')
    BY <1>1, <1>2, <2>1, <2>2, AppendElements
  <2>4. \A v \in Urbs : cstate'[v] = IF v = u THEN "PENDING_HID_IN"
                                     ELSE cstate[v]
    BY <1>1, <1>12 DEF HidInWait
  <2>5. UNCHANGED <<featPending, completed, gb>>
    BY <1>12 DEF HidInWait
  <2>6. ASSUME NEW v \in Urbs PROVE Match(v)'
    BY <1>3, <2>1, <2>3, <2>4, <2>5 DEF Match
  <2> QED BY <1>2, <1>6, <2>3, <2>5, <2>6
<1>13. ASSUME NEW u \in Urbs, QueueGiveback(u)
       PROVE  ListsMatchStates'
  <2>1. CASE UNCHANGED <<cstate, status, featPending, completed>>
    BY <1>5, <1>13, <2>1, ListsUntouched DEF QueueGiveback
  <2>2. CASE /\ cstate[u] \in {"ACTIVE", "PENDING_FEATURE_GET"}
             /\ cstate' = [cstate EXCEPT ![u] = "PENDING_GIVEBACK"]
             /\ featPending' \in Unlisted(featPending, u)
             /\ AddCompleted(<<u>>, ready[u], ready)
    <3>1. u \notin ToSet(completed) /\ u \notin ToSet(hidPending) /\ gb # u
      BY <1>3, <2>2 DEF Match
    <3>2. ToSet(completed') = ToSet(completed) \cup {u} /\ NoDup(completed')
      BY <1>7, <2>2, <3>1
    <3>3. ToSet(featPending') = ToSet(featPending) \ {u} /\ NoDup(featPending')
      BY <1>1, <1>2, <2>2, UnlistedElements
    <3>4. \A v \in Urbs : cstate'[v] = IF v = u THEN "PENDING_GIVEBACK"
                                       ELSE cstate[v]
      BY <1>1, <2>2
    <3>5. UNCHANGED <<hidPending, gb>>
      BY <1>13 DEF QueueGiveback
    <3>6. ASSUME NEW v \in Urbs PROVE Match(v)'
      BY <1>3, <3>1, <3>2, <3>3, <3>4, <3>5 DEF Match
    <3> QED BY <1>2, <1>6, <3>2, <3>3, <3>5, <3>6
  <2> QED BY <1>13, <2>1, <2>2 DEF QueueGiveback
<1>14. ASSUME NEW u \in Urbs, Unlink(u)
       PROVE  ListsMatchStates'
  <2>1. CASE UNCHANGED <<cstate, listVars>>
    BY <1>5, <1>14, <2>1, ListsUntouched DEF Unlink
  <2>2. CASE /\ cstate[u] # "PENDING_GIVEBACK"
             /\ cstate' = [cstate EXCEPT ![u] = "PENDING_GIVEBACK"]
             /\ hidPending' \in Unlisted(hidPending, u)
             /\ featPending' \in Unlisted(featPending, u)
             /\ AddCompleted(<<u>>, ready[u], ready)
    <3>1. u \notin ToSet(completed) /\ gb # u
      BY <1>3, <1>14, <2>2 DEF Match, Unlink, Linked
    <3>2. ToSet(completed') = ToSet(completed) \cup {u} /\ NoDup(completed')
      BY <1>7, <2>2, <3>1
    <3>3. ToSet(featPending') = ToSet(featPending) \ {u} /\ NoDup(featPending')
      BY <1>1, <1>2, <2>2, UnlistedElements
    <3>4. ToSet(hidPending') = ToSet(hidPending) \ {u} /\ NoDup(hidPending')
      BY <1>1, <1>2, <2>2, UnlistedElements
    <3>5. \A v \in Urbs : cstate'[v] = IF v = u THEN "PENDING_GIVEBACK"
                                       ELSE cstate[v]
      BY <1>1, <2>2
    <3>6. UNCHANGED gb
      BY <1>14 DEF Unlink
    <3>7. ASSUME NEW v \in Urbs PROVE Match(v)'
      BY <1>3, <3>1, <3>2, <3>3, <3>4, <3>5, <3>6 DEF Match
    <3> QED BY <1>6, <3>2, <3>3, <3>4, <3>7
  <2> QED BY <1>14, <2>1, <2>2 DEF Unlink
<1>15. CASE GbTake
  <2> DEFINE h == Head(completed)
  <2>1. completed # <<>> /\ completed' = Tail(completed) /\ gb = NoUrb /\ gb' = h
    BY <1>15 DEF GbTake, GbIdle
  <2>2. /\ h \in Urbs /\ ToSet(completed) = ToSet(completed') \cup {h}
        /\ NoDup(completed') /\ h \notin ToSet(completed')
    BY <1>1, <1>2, <2>1, TailElements
  <2>3. cstate[h] = "PENDING_GIVEBACK"
    BY <1>3, <2>2 DEF Match
  <2>4. \A v \in Urbs : cstate'[v] = IF v = h THEN "GIVING_BACK" ELSE cstate[v]
    BY <1>1, <1>15 DEF GbTake
  <2>5. UNCHANGED <<hidPending, featPending>>
    BY <1>15 DEF GbTake
  <2> HIDE DEF h
  <2>6. ASSUME NEW v \in Urbs PROVE Match(v)'
    <3>1. v \in ToSet(completed') <=> v \in ToSet(completed) /\ v # h
      BY <2>2
    <3>2. CASE v = h
      BY <1>3, <2>1, <2>2, <2>3, <2>4, <2>5, <3>2 DEF Match
    <3>3. CASE v # h
      <4>1. gb # v /\ gb' # v
        BY <1>8, <2>1, <3>3
      <4> QED BY <1>3, <2>4, <2>5, <3>1, <3>3, <4>1 DEF Match
    <3> QED BY <3>2, <3>3
  <2> QED BY <1>2, <1>6, <2>2, <2>5, <2>6
<1>16. CASE GbGiveback
  <2>1. gb \in Urbs /\ gb' = NoUrb
    BY <1>1, <1>16 DEF GbGiveback, GbBusy
  <2>2. \A v \in Urbs : cstate'[v] = IF v = gb THEN "freed" ELSE cstate[v]
    BY <1>1, <1>16 DEF GbGiveback
  <2>3. UNCHANGED listVars
    BY <1>16 DEF GbGiveback
  <2>4. ASSUME NEW v \in Urbs PROVE Match(v)'
    BY <1>3, <1>8, <2>1, <2>2, <2>3 DEF Match
  <2> QED BY <1>2, <1>6, <2>3, <2>4
<1>17. CASE WriteInput
  <2>1. CASE hidPending = <<>>
    BY <1>5, <1>17, <2>1, ListsUntouched DEF WriteInput
  <2>2. CASE hidPending # <<>>
    <3> DEFINE h == Head(hidPending)
    <3>1. /\ hidPending' = Tail(hidPending)
          /\ AddCompleted(<<h>>, ready'[h], ready)
          /\ cstate' = [cstate EXCEPT ![h] = "PENDING_GIVEBACK"]
          /\ UNCHANGED <<featPending, gb>>
      BY <1>17, <2>2 DEF WriteInput
    <3>2. /\ h \in Urbs /\ ToSet(hidPending) = ToSet(hidPending') \cup {h}
          /\ NoDup(hidPending') /\ h \notin ToSet(hidPending')
      BY <1>1, <1>2, <2>2, <3>1, TailElements
    <3>3. cstate[h] = "PENDING_HID_IN"
      BY <1>3, <3>2 DEF Match
    <3>4. h \notin ToSet(completed)
      BY <1>3, <3>2, <3>3 DEF Match
    <3>5. ToSet(completed') = ToSet(completed) \cup {h} /\ NoDup(completed')
      BY <1>7, <3>1, <3>2, <3>4
    <3>6. \A v \in Urbs : cstate'[v] = IF v = h THEN "PENDING_GIVEBACK" ELSE cstate[v]
      BY <1>1, <3>1
    <3> HIDE DEF h
    <3>7. ASSUME NEW v \in Urbs PROVE Match(v)'
      <4>1. v \in ToSet(hidPending') <=> v \in ToSet(hidPending) /\ v # h
        BY <3>2
      <4> QED BY <1>3, <3>1, <3>3, <3>5, <3>6, <4>1 DEF Match
    <3> QED BY <1>2, <1>6, <3>1, <3>2, <3>5, <3>7
  <2> QED BY <2>1, <2>2
<1>18. CASE DeliverReply
  <2>1. CASE stopping
    BY <1>5, <1>18, <2>1, ListsUntouched DEF DeliverReply
  <2>2. CASE ~stopping
    <3> DEFINE S == Answered
    <3>1. S \in SUBSET ToSet(featPending)
      BY DEF Answered
    <3>2. PICK s \in InListOrder(S, featPending) : AddCompleted(s, 0, ready)
      BY <1>18, <2>2 DEF DeliverReply
    <3>3. /\ featPending' \in InListOrder(ToSet(featPending) \ S, featPending)
          /\ cstate' = [u \in Urbs |-> IF u \in S THEN "PENDING_GIVEBACK" ELSE cstate[u]]
          /\ UNCHANGED <<hidPending, gb>>
      BY <1>18, <2>2 DEF DeliverReply
    <3> HIDE DEF S
    <3>4. s \in Seq(Urbs) /\ ToSet(s) = S /\ NoDup(s)
      BY <1>1, <3>1, <3>2, InListOrderType
    <3>5. ToSet(featPending') = ToSet(featPending) \ S /\ NoDup(featPending')
      BY <1>1, <3>1, <3>3, InListOrderType
    <3>6. ToSet(completed) \cap S = {}
      BY <1>3, <1>4, <3>1 DEF Match
    <3>7. ToSet(completed') = ToSet(completed) \cup S /\ NoDup(completed')
      BY <1>1, <1>2, <3>2, <3>4, <3>6, AddCompletedElements
    <3>8. ASSUME NEW v \in Urbs PROVE Match(v)'
      BY <1>3, <3>1, <3>3, <3>5, <3>7 DEF Match
    <3> QED BY <1>2, <1>6, <3>3, <3>5, <3>7, <3>8
  <2> QED BY <2>1, <2>2
<1>19. CASE Disconnect
  BY <1>5, <1>19, CancelLists DEF Disconnect
<1>20. CASE Stop
  BY <1>5, <1>20, CancelLists DEF Stop
<1>21. ASSUME UNCHANGED <<listVars, cstate, gb>> PROVE ListsMatchStates'
  BY <1>5, <1>21, ListsUntouched
<1>22. ASSUME NEW u \in Urbs,
              \/ \E s \in {"ok", "EPIPE"} : AnswerNow(u, s)
              \/ GetFeature(u) \/ DeferRefused(u) \/ FrameFeatureGet(u)
              \/ SendFrame(u) \/ HidInTake(u) \/ ScheduleIso(u) \/ StaleContext(u)
       PROVE  UNCHANGED <<listVars, cstate, gb>>
  BY <1>22 DEF AnswerNow, GetFeature, DeferRefused, FrameFeatureGet, SendFrame,
               HidInTake, ScheduleIso, StaleContext
<1>23. ASSUME \/ GbSleep \/ GbWakeUp \/ GbDeliver \/ ReadFrame
              \/ \E r \in Reports : CacheReply(r)
              \/ SetProfile \/ Connect \/ ResetUsb \/ Tick \/ UNCHANGED vars
       PROVE  UNCHANGED <<listVars, cstate, gb>>
  BY <1>23 DEF GbSleep, GbWakeUp, GbDeliver, ReadFrame, CacheReply, SetProfile,
               Connect, ResetUsb, Tick, vars
<1> QED
  BY <1>10, <1>11, <1>12, <1>13, <1>14, <1>15, <1>16, <1>17, <1>18, <1>19,
     <1>20, <1>21, <1>22, <1>23
     DEF Next, SubmitterStep, GivebackStep, DaemonStep

-----------------------------------------------------------------------------
(* Feature GETs and their frames.                                          *)

(* NotStarted, OnlyGetsDeferred, NoOrphanedFeatureGet and QueuedBeforeSeen *)
(* for one URB; sent says whether its frame is queued or read.             *)
Sent(u) == u \in ToSet(events) \cup asked

FeatureOK(u) ==
  /\ pc[u] = "idle" => cstate[u] = "none" /\ ~Sent(u)
  /\ pc[u] \in {"defer", "frame"} \/ cstate[u] = "PENDING_FEATURE_GET"
        => kind[u] = "getFeature"
  /\ pc[u] = "frame" => cstate[u] \notin {"none", "ACTIVE"}
  /\ cstate[u] = "PENDING_FEATURE_GET" /\ pc[u] = "returned" => Sent(u)
  /\ Sent(u) /\ kind[u] = "getFeature" => cstate[u] \notin {"none", "ACTIVE"}

Features == NotStarted /\ OnlyGetsDeferred /\ NoOrphanedFeatureGet /\ QueuedBeforeSeen

(* The four claims about feature requests, URB by URB.                     *)
LEMMA FeaturesPointwise ==
  ASSUME TypeOK
  PROVE  Features <=> \A u \in Urbs : FeatureOK(u)
<1>1. ToSet(events) \cup asked \subseteq Urbs
  BY SeqSubset DEF TypeOK
<1> QED BY <1>1 DEF Features, FeatureOK, Sent, NotStarted, OnlyGetsDeferred,
                    NoOrphanedFeatureGet, QueuedBeforeSeen

(* Sending a frame for one URB makes no difference to the others.          *)
LEMMA SendBestEffortSent ==
  ASSUME events \in Seq(Urbs), NEW u \in Urbs, SendBestEffort(u), asked' = asked
  PROVE  /\ \A v \in Urbs : v # u => (Sent(v)' <=> Sent(v))
         /\ Sent(u) => Sent(u)'
<1>1. ToSet(Append(events, u)) = ToSet(events) \cup {u}
  BY AppendElements
<1> QED BY <1>1 DEF SendBestEffort, Sent

(* A step that touches no feature request.                                 *)
LEMMA FeaturesUntouched ==
  ASSUME NEW u, FeatureOK(u), UNCHANGED <<pc, cstate, kind, events, asked>>
  PROVE  FeatureOK(u)'
BY DEF FeatureOK, Sent

(* Cancelling what is pending leaves no deferred request behind.           *)
LEMMA CancelFeatures ==
  ASSUME IInv, CancelPending("ESHUTDOWN"), FlushBuffered,
         UNCHANGED <<pc, kind, asked>>, NEW v \in Urbs, FeatureOK(v)
  PROVE  FeatureOK(v)'
<1> DEFINE q == hidPending \o featPending
<1>1. ToSet(q) = ToSet(hidPending) \cup ToSet(featPending)
  BY ConcatElements DEF IInv, TypeOK
<1>2. cstate'[v] = IF v \in ToSet(q) THEN "PENDING_GIVEBACK" ELSE cstate[v]
  BY DEF CancelPending
<1>3. /\ v \in ToSet(hidPending) <=> cstate[v] = "PENDING_HID_IN"
      /\ v \in ToSet(featPending) <=> cstate[v] = "PENDING_FEATURE_GET"
  BY DEF IInv, ListsMatchStates
<1>4. Sent(v)' => Sent(v)
  BY EmptyList DEF FlushBuffered, Sent
<1> HIDE DEF q
<1> QED BY <1>1, <1>2, <1>3, <1>4 DEF FeatureOK

(* No step orphans a feature request.                                      *)
LEMMA FeaturesStep ==
  ASSUME IInv, [Next]_vars
  PROVE  \A v \in Urbs : FeatureOK(v)'
<1> USE DEF At
<1>1. TypeOK /\ ListsMatchStates
  BY DEF IInv
<1>2. \A v \in Urbs : FeatureOK(v)
  BY <1>1, FeaturesPointwise DEF IInv, Features
<1>3. /\ kind \in [Urbs -> AllKinds] /\ cstate \in [Urbs -> ContextStates]
      /\ pc \in [Urbs -> {"idle", "entered", "defer", "frame", "queue", "returned"}]
      /\ events \in Seq(Urbs) /\ featPending \in Seq(Urbs)
      /\ hidPending \in Seq(Urbs) /\ completed \in Seq(Urbs)
  BY <1>1 DEF TypeOK
<1>4. \A v \in Urbs : Match(v)
  BY <1>1 DEF ListsMatchStates, Match
<1> SUFFICES ASSUME NEW v \in Urbs PROVE FeatureOK(v)'
  OBVIOUS
<1>5. FeatureOK(v)
  BY <1>2
<1>10. ASSUME NEW u \in Urbs, NEW k \in Kinds, NEW r \in Reports \cup {NoReport},
              Submit(u, k, r)
       PROVE  FeatureOK(v)'
  <2>1. Sent(v)' <=> Sent(v)
    BY <1>10 DEF Submit, Sent
  <2>2. FeatureOK(u)
    BY <1>2
  <2> QED BY <1>3, <1>5, <1>10, <2>1, <2>2 DEF Submit, FeatureOK
<1>11. ASSUME NEW u \in Urbs, NEW s \in {"ok", "EPIPE"}, AnswerNow(u, s)
       PROVE  FeatureOK(v)'
  <2>1. Sent(v)' <=> Sent(v)
    BY <1>11 DEF AnswerNow, Sent
  <2> QED BY <1>3, <1>5, <1>11, <2>1 DEF AnswerNow, FeatureOK
<1>12. ASSUME NEW u \in Urbs, GetFeature(u)
       PROVE  FeatureOK(v)'
  <2>1. Sent(v)' <=> Sent(v)
    BY <1>12 DEF GetFeature, Sent
  <2> QED BY <1>3, <1>5, <1>12, <2>1 DEF GetFeature, FeatureOK
<1>13. ASSUME NEW u \in Urbs, DeferFeatureGet(u)
       PROVE  FeatureOK(v)'
  <2>1. Sent(v)' <=> Sent(v)
    BY <1>13 DEF DeferFeatureGet, Sent
  <2> QED BY <1>3, <1>5, <1>13, <2>1 DEF DeferFeatureGet, FeatureOK
<1>14. ASSUME NEW u \in Urbs, DeferRefused(u)
       PROVE  FeatureOK(v)'
  <2>1. Sent(v)' <=> Sent(v)
    BY <1>14 DEF DeferRefused, Sent
  <2> QED BY <1>3, <1>5, <1>14, <2>1 DEF DeferRefused, FeatureOK
<1>15. ASSUME NEW u \in Urbs, FrameFeatureGet(u)
       PROVE  FeatureOK(v)'
  <2>1. CASE FrameRefused
    <3>1. Sent(v)' <=> Sent(v)
      BY <1>15, <2>1 DEF FrameFeatureGet, Sent
    <3> QED BY <1>3, <1>5, <1>15, <2>1, <3>1 DEF FrameFeatureGet, FeatureOK
  <2>2. CASE ~FrameRefused
    <3>1. Sent(v)' <=> Sent(v) \/ v = u
      <4>1. events' = Append(events, u) /\ asked' = asked
        BY <1>15, <2>2 DEF FrameFeatureGet
      <4>2. ToSet(events') = ToSet(events) \cup {u}
        BY <1>3, <4>1, AppendElements
      <4> QED BY <4>1, <4>2 DEF Sent
    <3> QED BY <1>3, <1>5, <1>15, <2>2, <3>1 DEF FrameFeatureGet, FeatureOK
  <2> QED BY <2>1, <2>2
<1>16. ASSUME NEW u \in Urbs, SendFrame(u)
       PROVE  FeatureOK(v)'
  <2>1. v # u => (Sent(v)' <=> Sent(v))
    BY <1>3, <1>16, SendBestEffortSent DEF SendFrame
  <2>2. Sent(v) => Sent(v)'
    BY <1>3, <1>16, SendBestEffortSent DEF SendFrame
  <2> QED BY <1>3, <1>5, <1>16, <2>1, <2>2 DEF SendFrame, FeatureOK
<1>17. ASSUME NEW u \in Urbs, HidInTake(u)
       PROVE  FeatureOK(v)'
  <2>1. Sent(v)' <=> Sent(v)
    BY <1>17 DEF HidInTake, Sent
  <2> QED BY <1>3, <1>5, <1>17, <2>1 DEF HidInTake, FeatureOK
<1>18. ASSUME NEW u \in Urbs, HidInWait(u)
       PROVE  FeatureOK(v)'
  <2>1. Sent(v)' <=> Sent(v)
    BY <1>18 DEF HidInWait, Sent
  <2> QED BY <1>3, <1>5, <1>18, <2>1 DEF HidInWait, FeatureOK
<1>19. ASSUME NEW u \in Urbs, ScheduleIso(u)
       PROVE  FeatureOK(v)'
  <2>1. Sent(v)' <=> Sent(v)
    BY <1>19 DEF ScheduleIso, Sent
  <2>2. UNCHANGED <<cstate, kind>> /\ pc' = [pc EXCEPT ![u] = "queue"]
    BY <1>19 DEF ScheduleIso
  <2> QED BY <1>3, <1>5, <2>1, <2>2 DEF FeatureOK
<1>20. ASSUME NEW u \in Urbs, QueueGiveback(u)
       PROVE  FeatureOK(v)'
  <2>1. Sent(v)' <=> Sent(v)
    BY <1>20 DEF QueueGiveback, Sent
  <2>2. /\ pc' = [pc EXCEPT ![u] = "returned"] /\ kind' = kind
        /\ \/ cstate' = [cstate EXCEPT ![u] = "PENDING_GIVEBACK"]
           \/ cstate' = cstate /\ cstate[u] \in {"PENDING_GIVEBACK", "GIVING_BACK"}
    BY <1>20 DEF QueueGiveback
  <2>3. pc[u] = "queue"
    BY <1>20 DEF QueueGiveback
  <2> QED BY <1>3, <1>5, <2>1, <2>2, <2>3 DEF FeatureOK
<1>21. ASSUME NEW u \in Urbs, Unlink(u)
       PROVE  FeatureOK(v)'
  <2>1. Sent(v)' <=> Sent(v)
    BY <1>21 DEF Unlink, Sent
  <2>2. /\ UNCHANGED <<pc, kind>>
        /\ cstate' = [cstate EXCEPT ![u] = "PENDING_GIVEBACK"] \/ cstate' = cstate
        /\ cstate[u] # "none"
    BY <1>21 DEF Unlink, Linked
  <2> QED BY <1>3, <1>5, <2>1, <2>2 DEF FeatureOK
<1>22. CASE GbTake
  <2>1. completed # <<>>
    BY <1>22 DEF GbTake
  <2>2. Head(completed) \in Urbs /\ Head(completed) \in ToSet(completed)
    BY <1>3, <2>1, TailElements
  <2>3. cstate[Head(completed)] = "PENDING_GIVEBACK"
    BY <1>4, <2>2 DEF Match
  <2>4. Sent(v)' <=> Sent(v)
    BY <1>22 DEF GbTake, Sent
  <2>5. /\ cstate' = [cstate EXCEPT ![Head(completed)] = "GIVING_BACK"]
        /\ UNCHANGED <<pc, kind>>
    BY <1>22 DEF GbTake
  <2> QED BY <1>3, <1>5, <2>2, <2>3, <2>4, <2>5 DEF FeatureOK
<1>23. CASE GbDeliver
  <2>1. gb \in Urbs /\ cstate[gb] = "GIVING_BACK" /\ kind[gb] = "isoOut"
    BY <1>1, <1>4, <1>23 DEF GbDeliver, GbBusy, TypeOK, Match, DeliversIsoOut
  <2>2. /\ v # gb => (Sent(v)' <=> Sent(v))
        /\ Sent(v) => Sent(v)'
    BY <1>3, <1>23, <2>1, SendBestEffortSent DEF GbDeliver
  <2>3. UNCHANGED <<pc, kind, cstate>>
    BY <1>23 DEF GbDeliver
  <2> QED BY <1>3, <1>5, <2>1, <2>2, <2>3 DEF FeatureOK
<1>24. CASE GbGiveback
  <2>1. gb \in Urbs /\ cstate[gb] = "GIVING_BACK"
    BY <1>1, <1>4, <1>24 DEF GbGiveback, GbBusy, TypeOK, Match
  <2>2. Sent(v)' <=> Sent(v)
    BY <1>24 DEF GbGiveback, Sent
  <2>3. UNCHANGED <<pc, kind>> /\ cstate' = [cstate EXCEPT ![gb] = "freed"]
    BY <1>24 DEF GbGiveback
  <2> QED BY <1>3, <1>5, <2>1, <2>2, <2>3 DEF FeatureOK
<1>25. CASE ReadFrame
  <2>1. events # <<>> /\ events' = Tail(events)
    BY <1>25 DEF ReadFrame
  <2>2. ToSet(events) = ToSet(events') \cup {Head(events)}
    BY <1>3, <2>1, TailElements
  <2>3. UNCHANGED <<pc, kind, cstate>>
    BY <1>25 DEF ReadFrame
  <2>4. Sent(v)' => Sent(v)
    BY <1>25, <2>2 DEF ReadFrame, Sent
  <2>5. kind[v] = "getFeature" /\ Sent(v) => Sent(v)'
    BY <1>25, <2>2 DEF ReadFrame, Sent
  <2> QED BY <1>5, <2>3, <2>4, <2>5 DEF FeatureOK
<1>26. CASE WriteInput
  <2>1. Sent(v)' <=> Sent(v)
    BY <1>26 DEF WriteInput, Sent
  <2>2. CASE hidPending = <<>>
    BY <1>5, <1>26, <2>1, <2>2 DEF WriteInput, FeatureOK
  <2>3. CASE hidPending # <<>>
    <3>1. Head(hidPending) \in Urbs /\ Head(hidPending) \in ToSet(hidPending)
      BY <1>3, <2>3, TailElements
    <3>2. cstate[Head(hidPending)] = "PENDING_HID_IN"
      BY <1>4, <3>1 DEF Match
    <3>3. /\ cstate' = [cstate EXCEPT ![Head(hidPending)] = "PENDING_GIVEBACK"]
          /\ UNCHANGED <<pc, kind>>
      BY <1>26, <2>3 DEF WriteInput
    <3> QED BY <1>3, <1>5, <2>1, <3>1, <3>2, <3>3 DEF FeatureOK
  <2> QED BY <2>2, <2>3
<1>27. CASE DeliverReply
  <2>1. Sent(v)' <=> Sent(v)
    BY <1>27 DEF DeliverReply, Sent
  <2>2. v \in Answered => cstate[v] = "PENDING_FEATURE_GET"
    BY <1>4 DEF Answered, Match
  <2>3. /\ cstate'[v] = cstate[v] \/ (v \in Answered /\ cstate'[v] = "PENDING_GIVEBACK")
        /\ UNCHANGED <<pc, kind>>
    BY <1>27 DEF DeliverReply
  <2> QED BY <1>5, <2>1, <2>2, <2>3 DEF FeatureOK
<1>28. CASE Disconnect
  BY <1>5, <1>28, CancelFeatures DEF Disconnect
<1>29. CASE Stop
  BY <1>5, <1>29, CancelFeatures DEF Stop
<1>30. ASSUME \/ \E u \in Urbs : StaleContext(u)
              \/ GbSleep \/ GbWakeUp
              \/ \E r \in Reports : CacheReply(r)
              \/ SetProfile \/ Connect \/ ResetUsb \/ Tick \/ UNCHANGED vars
       PROVE  UNCHANGED <<pc, cstate, kind, events, asked>>
  BY <1>30 DEF StaleContext, GbSleep, GbWakeUp, CacheReply, SetProfile,
               Connect, ResetUsb, Tick, vars
<1>31. ASSUME UNCHANGED <<pc, cstate, kind, events, asked>> PROVE FeatureOK(v)'
  BY <1>5, <1>31, FeaturesUntouched
<1> QED
  BY <1>10, <1>11, <1>12, <1>13, <1>14, <1>15, <1>16, <1>17, <1>18, <1>19,
     <1>20, <1>21, <1>22, <1>23, <1>24, <1>25, <1>26, <1>27, <1>28, <1>29,
     <1>30, <1>31
     DEF Next, SubmitterStep, GivebackStep, DaemonStep

-----------------------------------------------------------------------------
(* Input reports.                                                          *)

(* No step strands an input report beside a waiting URB.                   *)
LEMMA InputStep ==
  ASSUME IInv, [Next]_vars
  PROVE  InputNotStranded'
<1>1. InputNotStranded /\ hidPending \in Seq(Urbs) /\ stamp \in Nat
  BY DEF IInv, TypeOK
<1>2. ASSUME NEW u \in Urbs, HidInWait(u) PROVE InputNotStranded'
  BY <1>2 DEF HidInWait, InputNotStranded
<1>3. ASSUME NEW u \in Urbs, HidInTake(u) PROVE InputNotStranded'
  BY <1>3 DEF HidInTake, InputNotStranded
<1>4. ASSUME NEW u \in Urbs, Unlink(u) PROVE InputNotStranded'
  <2>1. input' = input
    BY <1>4 DEF Unlink
  <2>2. hidPending = <<>> => hidPending' = <<>>
    BY <1>4, EmptyList DEF Unlink, Unlisted
  <2> QED BY <1>1, <2>1, <2>2 DEF InputNotStranded
<1>5. CASE WriteInput
  <2>1. CASE hidPending = <<>>
    BY <1>5, <2>1 DEF WriteInput, InputNotStranded
  <2>2. CASE hidPending # <<>>
    BY <1>1, <1>5, <2>2 DEF WriteInput, InputNotStranded
  <2> QED BY <2>1, <2>2
<1>6. CASE Disconnect \/ Stop
  BY <1>6 DEF Disconnect, Stop, FlushBuffered, InputNotStranded
<1>7. ASSUME UNCHANGED <<input, hidPending>> PROVE InputNotStranded'
  BY <1>1, <1>7 DEF InputNotStranded
<1>8. ASSUME \/ \E u \in Urbs, k \in Kinds, r \in Reports \cup {NoReport} : Submit(u, k, r)
             \/ \E u \in Urbs :
                  \/ \E s \in {"ok", "EPIPE"} : AnswerNow(u, s)
                  \/ GetFeature(u) \/ DeferFeatureGet(u) \/ DeferRefused(u)
                  \/ FrameFeatureGet(u) \/ SendFrame(u) \/ ScheduleIso(u)
                  \/ QueueGiveback(u) \/ StaleContext(u)
      PROVE  UNCHANGED <<input, hidPending>>
  BY <1>8, ZenonT(60)
     DEF Submit, AnswerNow, GetFeature, DeferFeatureGet, DeferRefused,
         FrameFeatureGet, SendFrame, ScheduleIso, QueueGiveback, StaleContext
<1>9. ASSUME \/ GivebackStep \/ ReadFrame \/ \E r \in Reports : CacheReply(r)
             \/ DeliverReply \/ SetProfile \/ Connect \/ ResetUsb \/ Tick
             \/ UNCHANGED vars
      PROVE  UNCHANGED <<input, hidPending>>
  BY <1>9 DEF GivebackStep, GbSleep, GbWakeUp, GbTake, GbDeliver, GbGiveback,
              ReadFrame, CacheReply, DeliverReply, SetProfile, Connect, ResetUsb,
              Tick, vars
<1> QED
  BY <1>2, <1>3, <1>4, <1>5, <1>6, <1>7, <1>8, <1>9
     DEF Next, SubmitterStep, DaemonStep

-----------------------------------------------------------------------------
(* The inductive invariant.                                                *)

(* A new port satisfies the invariant.                                     *)
LEMMA IInvInit == Init => IInv
<1> SUFFICES ASSUME Init PROVE IInv
  OBVIOUS
<1>1. TypeOK
  BY TypeInit
<1>2. ListsMatchStates
  BY EmptyList, NoneDistinct DEF Init, ListsMatchStates
<1>3. NotStarted /\ OnlyGetsDeferred /\ NoOrphanedFeatureGet /\ QueuedBeforeSeen
  BY EmptyList DEF Init, NotStarted, OnlyGetsDeferred, NoOrphanedFeatureGet,
                   QueuedBeforeSeen
<1>4. InputNotStranded
  BY DEF Init, InputNotStranded
<1> QED BY <1>1, <1>2, <1>3, <1>4 DEF IInv

(* Every step preserves it.                                                *)
LEMMA IInvStep == IInv /\ [Next]_vars => IInv'
<1> SUFFICES ASSUME IInv, [Next]_vars PROVE IInv'
  OBVIOUS
<1>1. TypeOK'
  BY TypeStep DEF IInv
<1>2. \A u \in Urbs : FeatureOK(u)'
  BY FeaturesStep
<1>3. ToSet(events') \cup asked' \subseteq Urbs
  BY <1>1, SeqSubset DEF TypeOK
<1>4. NotStarted' /\ OnlyGetsDeferred' /\ NoOrphanedFeatureGet' /\ QueuedBeforeSeen'
  BY <1>2, <1>3 DEF FeatureOK, Sent, NotStarted, OnlyGetsDeferred,
                    NoOrphanedFeatureGet, QueuedBeforeSeen
<1> QED BY <1>1, <1>4, ListsStep, InputStep DEF IInv

(* The inductive invariant holds in every reachable state.                 *)
THEOREM Invariance == Spec => []IInv
<1> QED BY IInvInit, IInvStep, PTL DEF Spec

(* A context is on exactly the list its state names, at every interleaving *)
(* of submitters, unlinks, the giveback thread and the daemon.             *)
THEOREM ListsAgree == Spec => []ListsMatchStates
<1>1. IInv => ListsMatchStates
  BY DEF IInv
<1> QED BY <1>1, Invariance, PTL

(* No input report is buffered while a HID IN URB waits for one.           *)
THEOREM InputReachesHost == Spec => []InputNotStranded
<1>1. IInv => InputNotStranded
  BY DEF IInv
<1> QED BY <1>1, Invariance, PTL

(* No deferred feature GET is forgotten: its request is queued or read.    *)
THEOREM FeatureGetsRemembered == Spec => []NoOrphanedFeatureGet
<1>1. IInv => NoOrphanedFeatureGet
  BY DEF IInv
<1> QED BY <1>1, Invariance, PTL

(* No waiting URB is overlooked: not by vds_write_input_frame and not by   *)
(* the queue of FEATURE_GET frames.                                        *)
THEOREM WaitersServed == Spec => []NothingLeftBehind
BY InputReachesHost, FeatureGetsRemembered, PTL DEF NothingLeftBehind

(* The daemon sees a FEATURE_GET frame only after its URB was deferred.    *)
THEOREM DeferredBeforeSeen == Spec => []QueuedBeforeSeen
<1>1. IInv => QueuedBeforeSeen
  BY DEF IInv
<1> QED BY <1>1, Invariance, PTL

-----------------------------------------------------------------------------
(* The order of completed_urbs.                                            *)

(* A step that leaves the list and the times of its entries alone.         *)
LEMMA SortedKept ==
  ASSUME SortedButUnlinked, completed \in Seq(Urbs), completed' = completed,
         \A v \in ToSet(completed) : ready'[v] = ready[v] /\ (unlinked[v] => unlinked'[v])
  PROVE  SortedButUnlinked'
<1>1. \A i \in DOMAIN completed : completed[i] \in ToSet(completed)
  BY DEF ToSet
<1> QED BY <1>1 DEF SortedButUnlinked

(* Where the entries of completed_urbs come from when s is inserted at i.  *)
LEMMA SplicedCompleted ==
  ASSUME completed \in Seq(Urbs), NEW s \in Seq(Urbs),
         NEW i \in 1 .. Len(completed) + 1, completed' = Splice(completed, i, s)
  PROVE  \A m \in DOMAIN completed' :
           /\ m \in Nat
           /\ \/ m < i /\ m \in DOMAIN completed /\ completed'[m] = completed[m]
              \/ /\ m >= i /\ m < i + Len(s)
                 /\ m - i + 1 \in DOMAIN s /\ completed'[m] = s[m - i + 1]
              \/ /\ m >= i + Len(s)
                 /\ m - Len(s) \in DOMAIN completed /\ m - Len(s) >= i
                 /\ completed'[m] = completed[m - Len(s)]
<1> DEFINE q == completed
<1>1. /\ Splice(q, i, s) \in Seq(Urbs) /\ Len(Splice(q, i, s)) = Len(q) + Len(s)
      /\ \A n \in 1 .. Len(q) + Len(s) :
           Splice(q, i, s)[n] = IF n < i THEN q[n]
                                ELSE IF n < i + Len(s) THEN s[n - i + 1]
                                ELSE q[n - Len(s)]
  BY SpliceEntries, Zenon
<1>2. /\ Len(q) \in Nat /\ DOMAIN q = 1 .. Len(q)
      /\ Len(s) \in Nat /\ DOMAIN s = 1 .. Len(s)
      /\ i \in Nat /\ i >= 1 /\ i <= Len(q) + 1
  OBVIOUS
<1>3. DOMAIN completed' = 1 .. Len(q) + Len(s)
  BY <1>1
<1> SUFFICES ASSUME NEW m \in 1 .. Len(q) + Len(s)
             PROVE  /\ m \in Nat
                    /\ \/ m < i /\ m \in DOMAIN q /\ completed'[m] = q[m]
                       \/ /\ m >= i /\ m < i + Len(s)
                          /\ m - i + 1 \in DOMAIN s /\ completed'[m] = s[m - i + 1]
                       \/ /\ m >= i + Len(s)
                          /\ m - Len(s) \in DOMAIN q /\ m - Len(s) >= i
                          /\ completed'[m] = q[m - Len(s)]
  BY <1>3
<1>4. completed'[m] = IF m < i THEN q[m]
                      ELSE IF m < i + Len(s) THEN s[m - i + 1] ELSE q[m - Len(s)]
  BY <1>1, Zenon
<1>5. m \in Nat /\ m >= 1 /\ m <= Len(q) + Len(s)
  BY <1>2
<1> HIDE DEF q
<1>6. CASE m < i
  BY <1>2, <1>4, <1>5, <1>6
<1>7. CASE ~(m < i) /\ m < i + Len(s)
  BY <1>2, <1>4, <1>5, <1>7
<1>8. CASE ~(m < i) /\ ~(m < i + Len(s))
  BY <1>2, <1>4, <1>5, <1>8
<1> QED BY <1>6, <1>7, <1>8

(* vds_queue_urb_giveback_locked inserts in order: everything before the   *)
(* slot is due no later, and the first entry behind it is due later, hence *)
(* every entry behind it that has not been unlinked.                       *)
LEMMA InsertSorted ==
  ASSUME TypeOK, SortedButUnlinked, NEW s \in Seq(Urbs), NEW t \in Nat,
         AddCompleted(s, t, ready),
         \A v \in ToSet(completed) : ready'[v] = ready[v] /\ (unlinked[v] => unlinked'[v]),
         \A v \in ToSet(s) : ready'[v] = t
  PROVE  SortedButUnlinked'
<1> DEFINE q == completed
<1>1. PICK i \in 1 .. Len(q) + 1 : IsSlot(ready, t, i) /\ completed' = Splice(q, i, s)
  BY DEF AddCompleted
<1>2. /\ q \in Seq(Urbs) /\ Len(q) \in Nat /\ DOMAIN q = 1 .. Len(q)
      /\ Len(s) \in Nat /\ DOMAIN s = 1 .. Len(s) /\ i \in Nat
      /\ ready \in [Urbs -> Nat]
  BY DEF TypeOK
<1>3. \A m \in DOMAIN completed' :
        /\ m \in Nat
        /\ \/ m < i /\ m \in DOMAIN q /\ completed'[m] = q[m]
           \/ /\ m >= i /\ m < i + Len(s)
              /\ m - i + 1 \in DOMAIN s /\ completed'[m] = s[m - i + 1]
           \/ /\ m >= i + Len(s)
              /\ m - Len(s) \in DOMAIN q /\ m - Len(s) >= i
              /\ completed'[m] = q[m - Len(s)]
  BY <1>1, <1>2, SplicedCompleted, Zenon
<1>4. /\ \A k \in DOMAIN q : /\ q[k] \in Urbs /\ ready[q[k]] \in Nat
                             /\ ready'[q[k]] = ready[q[k]]
                             /\ unlinked[q[k]] => unlinked'[q[k]]
      /\ \A k \in DOMAIN s : ready'[s[k]] = t
  BY <1>2 DEF ToSet
<1>5. \A k \in DOMAIN q : k < i => ready[q[k]] <= t
  BY <1>1, <1>2 DEF IsSlot
<1>6. \A k, l \in DOMAIN q :
        k < l => ready[q[k]] <= ready[q[l]] \/ (ready[q[l]] = 0 /\ unlinked[q[l]])
  BY DEF SortedButUnlinked
<1>10. \A k, l \in DOMAIN q :
        k < l => \/ ready'[q[k]] <= ready'[q[l]]
                 \/ ready'[q[l]] = 0 /\ unlinked'[q[l]]
  BY <1>4, <1>6
<1>7. \A k \in DOMAIN q :
        k >= i => t <= ready[q[k]] \/ (ready[q[k]] = 0 /\ unlinked[q[k]])
  <2> SUFFICES ASSUME NEW k \in DOMAIN q, k >= i
               PROVE  t <= ready[q[k]] \/ (ready[q[k]] = 0 /\ unlinked[q[k]])
    OBVIOUS
  <2>1. i \in DOMAIN q /\ ready[q[i]] > t
    BY <1>1, <1>2 DEF IsSlot
  <2>2. CASE k = i
    BY <1>4, <2>1, <2>2
  <2>3. CASE k > i
    BY <1>4, <1>6, <2>1, <2>3
  <2> QED BY <1>2, <2>2, <2>3
<1> HIDE DEF q
<1>8. ASSUME NEW m \in DOMAIN completed'
      PROVE  \/ m < i /\ m \in DOMAIN q /\ completed'[m] = q[m]
             \/ m >= i /\ m < i + Len(s) /\ ready'[completed'[m]] = t
             \/ /\ m >= i + Len(s) /\ m - Len(s) \in DOMAIN q /\ m - Len(s) >= i
                /\ completed'[m] = q[m - Len(s)]
  <2>1. \/ m < i /\ m \in DOMAIN q /\ completed'[m] = q[m]
        \/ /\ m >= i /\ m < i + Len(s)
           /\ m - i + 1 \in DOMAIN s /\ completed'[m] = s[m - i + 1]
        \/ /\ m >= i + Len(s) /\ m - Len(s) \in DOMAIN q /\ m - Len(s) >= i
           /\ completed'[m] = q[m - Len(s)]
    BY <1>3, Zenon
  <2>2. m - i + 1 \in DOMAIN s => ready'[s[m - i + 1]] = t
    BY <1>4
  <2> QED BY <2>1, <2>2, Zenon
<1>9. ASSUME NEW m \in DOMAIN completed', NEW n \in DOMAIN completed', m < n
      PROVE  \/ ready'[completed'[m]] <= ready'[completed'[n]]
             \/ ready'[completed'[n]] = 0 /\ unlinked'[completed'[n]]
  <2>1. m \in Nat /\ n \in Nat /\ i \in Nat /\ Len(s) \in Nat /\ m < n
    BY <1>2, <1>3, <1>9, Zenon
  <2>5. \/ m < i /\ m \in DOMAIN q /\ completed'[m] = q[m]
        \/ m >= i /\ m < i + Len(s) /\ ready'[completed'[m]] = t
        \/ /\ m >= i + Len(s) /\ m - Len(s) \in DOMAIN q /\ m - Len(s) >= i
           /\ completed'[m] = q[m - Len(s)]
    BY <1>8, Zenon
  <2>6. \/ n < i /\ n \in DOMAIN q /\ completed'[n] = q[n]
        \/ n >= i /\ n < i + Len(s) /\ ready'[completed'[n]] = t
        \/ /\ n >= i + Len(s) /\ n - Len(s) \in DOMAIN q /\ n - Len(s) >= i
           /\ completed'[n] = q[n - Len(s)]
    BY <1>8, Zenon
  <2>2. CASE n < i
    <3>1. /\ m \in DOMAIN q /\ completed'[m] = q[m]
          /\ n \in DOMAIN q /\ completed'[n] = q[n]
      BY <2>1, <2>2, <2>5, <2>6
    <3> QED BY <1>10, <2>1, <3>1
  <2>3. CASE n >= i /\ n < i + Len(s)
    <3>1. ready'[completed'[n]] = t
      BY <2>1, <2>3, <2>6
    <3>2. CASE m < i
      <4>1. m \in DOMAIN q /\ completed'[m] = q[m]
        BY <2>1, <2>5, <3>2
      <4>2. ready[q[m]] <= t /\ ready'[q[m]] = ready[q[m]]
        BY <1>4, <1>5, <3>2, <4>1
      <4> QED BY <3>1, <4>1, <4>2
    <3>3. CASE m >= i
      <4>1. ready'[completed'[m]] = t
        BY <2>1, <2>3, <2>5, <3>3
      <4> QED BY <3>1, <4>1
    <3> QED BY <2>1, <3>2, <3>3
  <2>4. CASE n >= i + Len(s)
    <3>1. /\ n - Len(s) \in DOMAIN q /\ n - Len(s) >= i
          /\ completed'[n] = q[n - Len(s)]
      BY <2>1, <2>4, <2>6
    <3>2. CASE m < i
      <4>1. m \in DOMAIN q /\ completed'[m] = q[m]
        BY <2>1, <2>5, <3>2
      <4>2. m < n - Len(s)
        BY <2>1, <3>1, <3>2
      <4> QED BY <1>10, <3>1, <4>1, <4>2
    <3>3. CASE m >= i /\ m < i + Len(s)
      <4>1. ready'[completed'[m]] = t
        BY <2>1, <2>5, <3>3
      <4>2. \/ t <= ready'[completed'[n]]
            \/ ready'[completed'[n]] = 0 /\ unlinked'[completed'[n]]
        BY <1>4, <1>7, <3>1
      <4> QED BY <4>1, <4>2
    <3>4. CASE m >= i + Len(s)
      <4>1. /\ m - Len(s) \in DOMAIN q /\ completed'[m] = q[m - Len(s)]
        BY <2>1, <2>5, <3>4
      <4>2. m - Len(s) < n - Len(s)
        BY <2>1
      <4> QED BY <1>10, <3>1, <4>1, <4>2
    <3> QED BY <2>1, <3>2, <3>3, <3>4
  <2> QED BY <2>1, <2>2, <2>3, <2>4
<1> QED BY <1>9 DEF SortedButUnlinked

(* SubmitterOwns for one URB.                                              *)
Owns(u) ==
  /\ pc[u] \in {"entered", "defer"} => cstate[u] = "ACTIVE"
  /\ pc[u] \in {"idle", "entered", "defer", "frame"} => ready[u] = 0
  /\ cstate[u] \in {"PENDING_HID_IN", "PENDING_FEATURE_GET"} => ready[u] = 0
  /\ cstate[u] = "PENDING_HID_IN" => pc[u] = "returned"

(* Cancelling takes no context from its submitter.                         *)
LEMMA CancelOwns ==
  ASSUME IInv, CancelPending("ESHUTDOWN"), UNCHANGED <<pc, ready>>,
         NEW v \in Urbs, Owns(v)
  PROVE  Owns(v)'
<1>1. /\ cstate'[v] \in {cstate[v], "PENDING_GIVEBACK"}
      /\ cstate[v] = "ACTIVE" => cstate'[v] = cstate[v]
  <2> DEFINE q == hidPending \o featPending
  <2>1. ToSet(q) = ToSet(hidPending) \cup ToSet(featPending)
    BY ConcatElements DEF IInv, TypeOK
  <2>2. cstate'[v] = IF v \in ToSet(q) THEN "PENDING_GIVEBACK" ELSE cstate[v]
    BY DEF CancelPending
  <2>3. v \in ToSet(q) => cstate[v] # "ACTIVE"
    BY <2>1 DEF IInv, ListsMatchStates
  <2> QED BY <2>2, <2>3
<1> QED BY <1>1 DEF Owns

(* As long as an unlink waits for vds_urb_enqueue, no step takes a context *)
(* from its submitter.                                                     *)
LEMMA OwnsStep ==
  ASSUME IInv, ~UnlinkMidSubmit, SubmitterOwns, [Next]_vars, NEW v \in Urbs
  PROVE  Owns(v)'
<1> USE DEF At
<1>1. /\ pc \in [Urbs -> {"idle", "entered", "defer", "frame", "queue", "returned"}]
      /\ cstate \in [Urbs -> ContextStates] /\ ready \in [Urbs -> Nat]
      /\ hidPending \in Seq(Urbs) /\ featPending \in Seq(Urbs)
  BY DEF IInv, TypeOK
<1>2. Owns(v)
  BY DEF SubmitterOwns, Owns
<1>3. \A u \in Urbs : Match(u)
  BY DEF IInv, ListsMatchStates, Match
<1>4. pc[v] = "idle" => cstate[v] = "none"
  BY DEF IInv, NotStarted
<1>10. ASSUME NEW u \in Urbs, NEW k \in Kinds, NEW r \in Reports \cup {NoReport},
              Submit(u, k, r)
       PROVE  Owns(v)'
  BY <1>1, <1>2, <1>10 DEF Submit, Owns
<1>11. ASSUME NEW u \in Urbs, NEW x \in {"ok", "EPIPE"}, AnswerNow(u, x)
       PROVE  Owns(v)'
  BY <1>1, <1>2, <1>11 DEF AnswerNow, Owns, ctxVars
<1>12. ASSUME NEW u \in Urbs, GetFeature(u) PROVE Owns(v)'
  BY <1>1, <1>2, <1>12 DEF GetFeature, Owns, ctxVars
<1>13. ASSUME NEW u \in Urbs, DeferFeatureGet(u) PROVE Owns(v)'
  BY <1>1, <1>2, <1>13 DEF DeferFeatureGet, Owns
<1>14. ASSUME NEW u \in Urbs, DeferRefused(u) PROVE Owns(v)'
  BY <1>1, <1>2, <1>14 DEF DeferRefused, Owns, ctxVars
<1>15. ASSUME NEW u \in Urbs, FrameFeatureGet(u) PROVE Owns(v)'
  BY <1>1, <1>2, <1>15 DEF FrameFeatureGet, Owns, ctxVars
<1>16. ASSUME NEW u \in Urbs, SendFrame(u) PROVE Owns(v)'
  BY <1>1, <1>2, <1>16 DEF SendFrame, Owns, ctxVars
<1>17. ASSUME NEW u \in Urbs, HidInTake(u) PROVE Owns(v)'
  <2>1. /\ pc' = [pc EXCEPT ![u] = "queue"] /\ pc[u] = "entered" /\ cstate' = cstate
        /\ \E t : ready' = [ready EXCEPT ![u] = t]
    BY <1>17 DEF HidInTake, ScheduleHidIn
  <2>2. cstate[u] = "ACTIVE"
    BY <2>1 DEF SubmitterOwns
  <2> QED BY <1>1, <1>2, <2>1, <2>2 DEF Owns
<1>18. ASSUME NEW u \in Urbs, HidInWait(u) PROVE Owns(v)'
  BY <1>1, <1>2, <1>18 DEF HidInWait, Owns
<1>19. ASSUME NEW u \in Urbs, ScheduleIso(u) PROVE Owns(v)'
  <2>1. /\ pc' = [pc EXCEPT ![u] = "queue"] /\ pc[u] = "entered" /\ cstate' = cstate
        /\ \E t : ready' = [ready EXCEPT ![u] = t]
    BY <1>19 DEF ScheduleIso
  <2>2. cstate[u] = "ACTIVE"
    BY <2>1 DEF SubmitterOwns
  <2> QED BY <1>1, <1>2, <2>1, <2>2 DEF Owns
<1>20. ASSUME NEW u \in Urbs, QueueGiveback(u) PROVE Owns(v)'
  <2>1. /\ pc' = [pc EXCEPT ![u] = "returned"] /\ pc[u] = "queue" /\ ready' = ready
        /\ cstate' = cstate \/ cstate' = [cstate EXCEPT ![u] = "PENDING_GIVEBACK"]
    BY <1>20 DEF QueueGiveback
  <2> QED BY <1>1, <1>2, <2>1 DEF Owns
<1>21. ASSUME NEW u \in Urbs, Unlink(u) PROVE Owns(v)'
  <2>1. /\ pc' = pc /\ pc[u] = "returned"
        /\ ready' = ready \/ ready' = [ready EXCEPT ![u] = 0]
        /\ cstate' = cstate \/ cstate' = [cstate EXCEPT ![u] = "PENDING_GIVEBACK"]
    BY <1>21 DEF Unlink
  <2> QED BY <1>1, <1>2, <2>1 DEF Owns
<1>22. CASE GbTake
  <2>1. /\ UNCHANGED <<pc, ready>> /\ completed # <<>>
        /\ cstate' = [cstate EXCEPT ![Head(completed)] = "GIVING_BACK"]
    BY <1>22 DEF GbTake, urbVars
  <2>2. Head(completed) \in Urbs /\ Head(completed) \in ToSet(completed)
    BY <2>1, TailElements DEF IInv, TypeOK
  <2>3. cstate[Head(completed)] = "PENDING_GIVEBACK"
    BY <1>3, <2>2 DEF Match
  <2> QED BY <1>1, <1>2, <2>1, <2>3 DEF Owns
<1>23. CASE GbGiveback
  <2>1. /\ UNCHANGED <<pc, ready>> /\ gb # NoUrb
        /\ cstate' = [cstate EXCEPT ![gb] = "freed"]
    BY <1>23 DEF GbGiveback, GbBusy, urbVars
  <2>2. gb = v => cstate[v] = "GIVING_BACK"
    BY <1>3 DEF Match
  <2> QED BY <1>1, <1>2, <2>1, <2>2 DEF Owns
<1>24. CASE WriteInput
  <2>1. CASE hidPending = <<>>
    BY <1>2, <1>24, <2>1 DEF WriteInput, Owns
  <2>2. CASE hidPending # <<>>
    <3> DEFINE h == Head(hidPending)
    <3>1. /\ pc' = pc /\ \E t : ready' = [ready EXCEPT ![h] = t]
          /\ cstate' = [cstate EXCEPT ![h] = "PENDING_GIVEBACK"]
      BY <1>24, <2>2 DEF WriteInput, ScheduleHidIn
    <3>2. h \in Urbs /\ h \in ToSet(hidPending)
      BY <1>1, <2>2, TailElements
    <3> HIDE DEF h
    <3>3. cstate[h] = "PENDING_HID_IN"
      BY <1>3, <3>2 DEF Match
    <3>4. h = v => pc[v] \notin {"idle", "entered", "defer", "frame"}
      BY <1>2, <3>3 DEF Owns
    <3> QED BY <1>1, <1>2, <3>1, <3>3, <3>4 DEF Owns
  <2> QED BY <2>1, <2>2
<1>25. CASE DeliverReply
  <2>1. CASE stopping
    BY <1>2, <1>25, <2>1 DEF DeliverReply, Owns, urbVars
  <2>2. CASE ~stopping
    <3>1. /\ UNCHANGED <<pc, ready>>
          /\ cstate'[v] = IF v \in Answered THEN "PENDING_GIVEBACK" ELSE cstate[v]
      BY <1>25, <2>2 DEF DeliverReply, urbVars
    <3>2. v \in Answered => cstate[v] = "PENDING_FEATURE_GET"
      BY <1>3 DEF Answered, Match
    <3> QED BY <1>2, <3>1, <3>2 DEF Owns
  <2> QED BY <2>1, <2>2
<1>26. CASE Disconnect
  BY <1>2, <1>26, CancelOwns DEF Disconnect, urbVars
<1>27. CASE Stop
  BY <1>2, <1>27, CancelOwns DEF Stop, urbVars
<1>28. ASSUME \/ \E u \in Urbs : StaleContext(u)
              \/ GbSleep \/ GbWakeUp \/ GbDeliver \/ ReadFrame
              \/ \E r \in Reports : CacheReply(r)
              \/ SetProfile \/ Connect \/ ResetUsb \/ Tick \/ UNCHANGED vars
       PROVE  UNCHANGED <<pc, cstate, ready>>
  BY <1>28 DEF StaleContext, GbSleep, GbWakeUp, GbDeliver, ReadFrame, CacheReply,
               SetProfile, Connect, ResetUsb, Tick, vars, urbVars, ctxVars
<1>29. ASSUME UNCHANGED <<pc, cstate, ready>> PROVE Owns(v)'
  BY <1>2, <1>29 DEF Owns
<1> QED
  BY <1>10, <1>11, <1>12, <1>13, <1>14, <1>15, <1>16, <1>17, <1>18, <1>19,
     <1>20, <1>21, <1>22, <1>23, <1>24, <1>25, <1>26, <1>27, <1>28, <1>29
     DEF Next, SubmitterStep, GivebackStep, DaemonStep

(* No step puts completed_urbs out of order.                               *)
LEMMA SortedStep ==
  ASSUME IInv, ~UnlinkMidSubmit, OrderInv, [Next]_vars
  PROVE  SortedButUnlinked'
<1> USE DEF At
<1>1. /\ TypeOK /\ completed \in Seq(Urbs) /\ ready \in [Urbs -> Nat]
      /\ hidPending \in Seq(Urbs) /\ featPending \in Seq(Urbs)
      /\ unlinked \in [Urbs -> BOOLEAN] /\ SubmitterOwns /\ SortedButUnlinked
  BY DEF IInv, TypeOK, OrderInv
<1>2. \A u \in Urbs : Match(u)
  BY DEF IInv, ListsMatchStates, Match
<1>3. /\ ToSet(completed) \subseteq Urbs /\ ToSet(hidPending) \subseteq Urbs
      /\ ToSet(featPending) \subseteq Urbs
  BY <1>1, SeqSubset
<1>10. ASSUME NEW u \in Urbs, HidInTake(u) \/ ScheduleIso(u)
       PROVE  SortedButUnlinked'
  <2>1. /\ UNCHANGED <<completed, unlinked>> /\ pc[u] = "entered"
        /\ \E t : ready' = [ready EXCEPT ![u] = t]
    BY <1>10 DEF HidInTake, ScheduleHidIn, ScheduleIso, listVars
  <2>2. u \notin ToSet(completed)
    BY <1>1, <1>2, <2>1 DEF SubmitterOwns, Match
  <2>3. \A v \in ToSet(completed) : ready'[v] = ready[v] /\ unlinked'[v] = unlinked[v]
    BY <1>1, <1>3, <2>1, <2>2
  <2> QED BY <1>1, <2>1, <2>3, SortedKept
<1>11. ASSUME NEW u \in Urbs, QueueGiveback(u)
       PROVE  SortedButUnlinked'
  <2>1. UNCHANGED <<ready, unlinked>>
    BY <1>11 DEF QueueGiveback
  <2>2. CASE completed' = completed
    BY <1>1, <2>1, <2>2, SortedKept
  <2>3. CASE AddCompleted(<<u>>, ready[u], ready)
    <3>1. <<u>> \in Seq(Urbs) /\ ToSet(<<u>>) = {u} /\ ready[u] \in Nat
      BY <1>1, Singleton
    <3> QED BY <1>1, <2>1, <2>3, <3>1, InsertSorted
  <2> QED BY <1>11, <2>2, <2>3 DEF QueueGiveback
<1>12. ASSUME NEW u \in Urbs, Unlink(u)
       PROVE  SortedButUnlinked'
  <2>1. unlinked' = [unlinked EXCEPT ![u] = TRUE]
    BY <1>12 DEF Unlink
  <2>2. CASE completed' = completed /\ ready' = [ready EXCEPT ![u] = 0]
    <3>1. \A i \in DOMAIN completed : completed[i] \in Urbs
      BY <1>1
    <3>2. \A v \in Urbs : /\ ready[v] \in Nat
                          /\ ready'[v] = IF v = u THEN 0 ELSE ready[v]
                          /\ unlinked'[v] <=> (v = u \/ unlinked[v])
      BY <1>1, <2>1, <2>2
    <3>3. ASSUME NEW i \in DOMAIN completed, NEW j \in DOMAIN completed, i < j
          PROVE  \/ ready'[completed[i]] <= ready'[completed[j]]
                 \/ ready'[completed[j]] = 0 /\ unlinked'[completed[j]]
      <4>1. \/ ready[completed[i]] <= ready[completed[j]]
            \/ ready[completed[j]] = 0 /\ unlinked[completed[j]]
        BY <1>1, <3>3 DEF SortedButUnlinked
      <4>2. completed[i] \in Urbs /\ completed[j] \in Urbs
        BY <3>1
      <4> QED BY <3>2, <4>1, <4>2
    <3> QED BY <2>2, <3>3 DEF SortedButUnlinked
  <2>3. CASE AddCompleted(<<u>>, ready[u], ready) /\ ready' = ready
    <3>1. <<u>> \in Seq(Urbs) /\ ToSet(<<u>>) = {u} /\ ready[u] \in Nat
      BY <1>1, Singleton
    <3>2. \A v \in ToSet(completed) : unlinked[v] => unlinked'[v]
      BY <1>1, <1>3, <2>1
    <3> QED BY <1>1, <2>3, <3>1, <3>2, InsertSorted
  <2> QED BY <1>12, <2>2, <2>3 DEF Unlink, listVars
<1>13. CASE GbTake
  <2>1. /\ completed # <<>> /\ completed' = Tail(completed)
        /\ UNCHANGED <<ready, unlinked>>
    BY <1>13 DEF GbTake, urbVars
  <2>2. /\ DOMAIN completed' = 1 .. Len(completed) - 1 /\ Len(completed) \in Nat
        /\ DOMAIN completed = 1 .. Len(completed)
        /\ \A i \in 1 .. Len(completed) - 1 : completed'[i] = completed[i + 1]
    BY <1>1, <2>1
  <2>3. ASSUME NEW i \in DOMAIN completed', NEW j \in DOMAIN completed', i < j
        PROVE  \/ ready[completed'[i]] <= ready[completed'[j]]
               \/ ready[completed'[j]] = 0 /\ unlinked[completed'[j]]
    <3>1. /\ i + 1 \in DOMAIN completed /\ j + 1 \in DOMAIN completed /\ i + 1 < j + 1
          /\ completed'[i] = completed[i + 1] /\ completed'[j] = completed[j + 1]
      BY <2>2, <2>3
    <3> QED BY <1>1, <3>1 DEF SortedButUnlinked
  <2> QED BY <2>1, <2>3 DEF SortedButUnlinked
<1>14. CASE WriteInput
  <2>1. CASE hidPending = <<>>
    BY <1>1, <1>14, <2>1, SortedKept DEF WriteInput
  <2>2. CASE hidPending # <<>>
    <3> DEFINE h == Head(hidPending)
               t == Later(nextHid) + HidTicks
    <3>1. /\ ready' = [ready EXCEPT ![h] = t] /\ unlinked' = unlinked
          /\ AddCompleted(<<h>>, ready'[h], ready)
      BY <1>14, <2>2 DEF WriteInput, ScheduleHidIn
    <3>2. h \in Urbs /\ h \in ToSet(hidPending)
      BY <1>1, <2>2, TailElements
    <3>3. t \in Nat
      <4>1. now \in Nat /\ nextHid \in Nat /\ HidTicks \in Nat
        BY <1>1, BoundsNat DEF TypeOK
      <4> QED BY <4>1, LaterType
    <3> HIDE DEF h, t
    <3>4. h \notin ToSet(completed)
      BY <1>2, <3>2 DEF Match
    <3>5. ready'[h] = t /\ \A v \in ToSet(completed) : ready'[v] = ready[v]
      BY <1>1, <1>3, <3>1, <3>2, <3>4
    <3>6. <<h>> \in Seq(Urbs) /\ ToSet(<<h>>) = {h}
      BY <3>2, Singleton
    <3>7. AddCompleted(<<h>>, t, ready)
      BY <3>1, <3>5 DEF AddCompleted, IsSlot
    <3>8. \A v \in ToSet(completed) : unlinked[v] => unlinked'[v]
      BY <3>1
    <3>9. \A v \in ToSet(<<h>>) : ready'[v] = t
      BY <3>5, <3>6
    <3> QED BY <1>1, <3>3, <3>5, <3>6, <3>7, <3>8, <3>9, InsertSorted
  <2> QED BY <2>1, <2>2
<1>15. ASSUME NEW s \in Seq(Urbs), AddCompleted(s, 0, ready),
              ToSet(s) \subseteq ToSet(hidPending) \cup ToSet(featPending),
              UNCHANGED <<ready, unlinked>>
       PROVE  SortedButUnlinked'
  <2>1. \A v \in ToSet(s) : ready[v] = 0
    BY <1>1, <1>2, <1>3, <1>15 DEF SubmitterOwns, Match
  <2> QED BY <1>1, <1>15, <2>1, InsertSorted
<1>16. CASE DeliverReply
  <2>1. UNCHANGED <<ready, unlinked>>
    BY <1>16 DEF DeliverReply, urbVars
  <2>2. CASE stopping
    BY <1>1, <1>16, <2>1, <2>2, SortedKept DEF DeliverReply
  <2>3. CASE ~stopping
    <3>1. PICK s \in InListOrder(Answered, featPending) : AddCompleted(s, 0, ready)
      BY <1>16, <2>3 DEF DeliverReply
    <3>2. Answered \in SUBSET ToSet(featPending)
      BY DEF Answered
    <3>3. s \in Seq(Urbs) /\ ToSet(s) = Answered
      BY <1>1, <3>1, <3>2, InListOrderType
    <3> QED BY <1>15, <2>1, <3>1, <3>2, <3>3
  <2> QED BY <2>2, <2>3
<1>17. CASE Disconnect \/ Stop
  <2>1. /\ UNCHANGED <<ready, unlinked>>
        /\ AddCompleted(hidPending \o featPending, 0, ready)
    BY <1>17 DEF Disconnect, Stop, CancelPending, urbVars
  <2>2. /\ hidPending \o featPending \in Seq(Urbs)
        /\ ToSet(hidPending \o featPending) = ToSet(hidPending) \cup ToSet(featPending)
    BY <1>1, ConcatElements
  <2> QED BY <1>15, <2>1, <2>2
<1>18. ASSUME UNCHANGED <<completed, ready, unlinked>> PROVE SortedButUnlinked'
  BY <1>18, <1>1 DEF SortedButUnlinked
<1>19. ASSUME \/ \E u \in Urbs, k \in Kinds, r \in Reports \cup {NoReport} : Submit(u, k, r)
              \/ \E u \in Urbs :
                  \/ \E s \in {"ok", "EPIPE"} : AnswerNow(u, s)
                  \/ GetFeature(u) \/ DeferFeatureGet(u) \/ DeferRefused(u)
                  \/ FrameFeatureGet(u) \/ SendFrame(u) \/ HidInWait(u)
                  \/ StaleContext(u)
       PROVE  UNCHANGED <<completed, ready, unlinked>>
  BY <1>19 DEF Submit, AnswerNow, GetFeature, DeferFeatureGet, DeferRefused,
               FrameFeatureGet, SendFrame, HidInWait, StaleContext, urbVars,
               ctxVars, listVars
<1>20. ASSUME \/ GbSleep \/ GbWakeUp \/ GbDeliver \/ GbGiveback \/ ReadFrame
              \/ \E r \in Reports : CacheReply(r)
              \/ SetProfile \/ Connect \/ ResetUsb \/ Tick \/ UNCHANGED vars
       PROVE  UNCHANGED <<completed, ready, unlinked>>
  BY <1>20 DEF GbSleep, GbWakeUp, GbDeliver, GbGiveback, ReadFrame, CacheReply,
               SetProfile, Connect, ResetUsb, Tick, vars, urbVars, ctxVars, listVars
<1> QED
  BY <1>10, <1>11, <1>12, <1>13, <1>14, <1>16, <1>17, <1>18, <1>19, <1>20
     DEF Next, SubmitterStep, GivebackStep, DaemonStep

(* completed_urbs stays sorted but for unlinked entries, at every          *)
(* interleaving in which vds_urb_dequeue does not overtake                 *)
(* vds_urb_enqueue: no request is queued behind audio that is due later.   *)
THEOREM CompletionsOrdered ==
  ASSUME ~UnlinkMidSubmit
  PROVE  Spec => []CompletedOrdered
<1>1. Init => OrderInv
  BY DEF Init, OrderInv, SubmitterOwns, SortedButUnlinked
<1>2. IInv /\ OrderInv /\ [Next]_vars => OrderInv'
  <2> SUFFICES ASSUME IInv, OrderInv, [Next]_vars PROVE OrderInv'
    OBVIOUS
  <2>1. SubmitterOwns'
    BY OwnsStep DEF OrderInv, SubmitterOwns, Owns
  <2> QED BY <2>1, SortedStep DEF OrderInv
<1>3. OrderInv => CompletedOrdered
  BY DEF OrderInv, SortedButUnlinked, CompletedOrdered
<1> QED BY <1>1, <1>2, <1>3, Invariance, PTL DEF Spec

-----------------------------------------------------------------------------
(* Contexts in use.                                                        *)

(* QueuesOwn for one URB.                                                  *)
StillOwn(u) ==
  /\ stopping => pc[u] \in {"idle", "returned"}
  /\ pc[u] = "queue" => cstate[u] = "ACTIVE"

(* A step that gives away only contexts that are on a list, or in the      *)
(* hands of the giveback thread.                                           *)
LEMMA StillOwnKept ==
  ASSUME NEW v, StillOwn(v), UNCHANGED <<pc, stopping>>,
         cstate[v] = "ACTIVE" => cstate'[v] = "ACTIVE"
  PROVE  StillOwn(v)'
BY DEF StillOwn

(* When an unlink waits for vds_urb_enqueue and every FEATURE_GET frame    *)
(* finds room, the submitter still owns what it queues for giveback.       *)
LEMMA StillOwnStep ==
  ASSUME IInv, ~UnlinkMidSubmit, SubmitterOwns, QueuesOwn, FramesFit,
         [Next]_vars, NEW v \in Urbs
  PROVE  StillOwn(v)'
<1> USE DEF At
<1>1. /\ pc \in [Urbs -> {"idle", "entered", "defer", "frame", "queue", "returned"}]
      /\ cstate \in [Urbs -> ContextStates] /\ Len(events) \in Nat /\ EventMax \in Nat
      /\ hidPending \in Seq(Urbs) /\ featPending \in Seq(Urbs) /\ completed \in Seq(Urbs)
  BY BoundsNat DEF IInv, TypeOK
<1>2. \A u \in Urbs : StillOwn(u)
  BY DEF QueuesOwn, StillOwn
<1>3. \A u \in Urbs : Match(u)
  BY DEF IInv, ListsMatchStates, Match
<1>4. \A u \in Urbs : pc[u] \in {"entered", "defer"} => cstate[u] = "ACTIVE"
  BY DEF SubmitterOwns
<1>10. ASSUME NEW u \in Urbs, NEW k \in Kinds, NEW r \in Reports \cup {NoReport},
              Submit(u, k, r)
       PROVE  StillOwn(v)'
  BY <1>1, <1>2, <1>10 DEF Submit, StillOwn
<1>11. ASSUME NEW u \in Urbs, NEW x \in {"ok", "EPIPE"}, AnswerNow(u, x)
       PROVE  StillOwn(v)'
  BY <1>1, <1>2, <1>4, <1>11 DEF AnswerNow, StillOwn, ctxVars
<1>12. ASSUME NEW u \in Urbs, GetFeature(u) PROVE StillOwn(v)'
  BY <1>1, <1>2, <1>4, <1>12 DEF GetFeature, StillOwn, ctxVars
<1>13. ASSUME NEW u \in Urbs, DeferFeatureGet(u) PROVE StillOwn(v)'
  BY <1>1, <1>2, <1>13 DEF DeferFeatureGet, StillOwn
<1>14. ASSUME NEW u \in Urbs, DeferRefused(u) PROVE StillOwn(v)'
  BY <1>1, <1>2, <1>4, <1>14 DEF DeferRefused, StillOwn, ctxVars
<1>15. ASSUME NEW u \in Urbs, FrameFeatureGet(u) PROVE StillOwn(v)'
  <2>1. ~FrameRefused
    BY <1>1, <1>2, <1>15 DEF FrameFeatureGet, FrameRefused, FramesFit, StillOwn
  <2>2. pc' = [pc EXCEPT ![u] = "returned"] /\ UNCHANGED <<cstate, stopping>>
    BY <1>15, <2>1 DEF FrameFeatureGet, ctxVars
  <2> QED BY <1>1, <1>2, <2>2 DEF StillOwn
<1>16. ASSUME NEW u \in Urbs, SendFrame(u) PROVE StillOwn(v)'
  BY <1>1, <1>2, <1>4, <1>16 DEF SendFrame, StillOwn, ctxVars
<1>17. ASSUME NEW u \in Urbs, HidInTake(u) PROVE StillOwn(v)'
  BY <1>1, <1>2, <1>4, <1>17 DEF HidInTake, StillOwn
<1>18. ASSUME NEW u \in Urbs, HidInWait(u) PROVE StillOwn(v)'
  BY <1>1, <1>2, <1>18 DEF HidInWait, StillOwn
<1>19. ASSUME NEW u \in Urbs, ScheduleIso(u) PROVE StillOwn(v)'
  BY <1>1, <1>2, <1>4, <1>19 DEF ScheduleIso, StillOwn
<1>20. ASSUME NEW u \in Urbs, QueueGiveback(u) PROVE StillOwn(v)'
  <2>1. /\ pc' = [pc EXCEPT ![u] = "returned"] /\ stopping' = stopping
        /\ cstate' = cstate \/ cstate' = [cstate EXCEPT ![u] = "PENDING_GIVEBACK"]
    BY <1>20 DEF QueueGiveback
  <2> QED BY <1>1, <1>2, <2>1 DEF StillOwn
<1>21. ASSUME NEW u \in Urbs, Unlink(u) PROVE StillOwn(v)'
  <2>1. /\ UNCHANGED <<pc, stopping>> /\ pc[u] = "returned"
        /\ cstate' = cstate \/ cstate' = [cstate EXCEPT ![u] = "PENDING_GIVEBACK"]
    BY <1>21 DEF Unlink
  <2> QED BY <1>1, <1>2, <2>1 DEF StillOwn
<1>22. CASE GbTake
  <2>1. /\ UNCHANGED <<pc, stopping>> /\ completed # <<>>
        /\ cstate' = [cstate EXCEPT ![Head(completed)] = "GIVING_BACK"]
    BY <1>22 DEF GbTake, urbVars
  <2>2. Head(completed) \in Urbs /\ Head(completed) \in ToSet(completed)
    BY <1>1, <2>1, TailElements
  <2>3. cstate[Head(completed)] = "PENDING_GIVEBACK"
    BY <1>3, <2>2 DEF Match
  <2> QED BY <1>1, <1>2, <2>1, <2>3, StillOwnKept
<1>23. CASE GbGiveback
  <2>1. /\ UNCHANGED <<pc, stopping>> /\ cstate' = [cstate EXCEPT ![gb] = "freed"]
    BY <1>23 DEF GbGiveback, urbVars
  <2>2. gb = v => cstate[v] = "GIVING_BACK"
    BY <1>3 DEF Match
  <2> QED BY <1>1, <1>2, <2>1, <2>2, StillOwnKept
<1>24. CASE WriteInput
  <2>1. CASE hidPending = <<>>
    BY <1>2, <1>24, <2>1, StillOwnKept DEF WriteInput
  <2>2. CASE hidPending # <<>>
    <3> DEFINE h == Head(hidPending)
    <3>1. /\ UNCHANGED <<pc, stopping>>
          /\ cstate' = [cstate EXCEPT ![h] = "PENDING_GIVEBACK"]
      BY <1>24, <2>2 DEF WriteInput
    <3>2. h \in Urbs /\ h \in ToSet(hidPending)
      BY <1>1, <2>2, TailElements
    <3> HIDE DEF h
    <3>3. cstate[h] = "PENDING_HID_IN"
      BY <1>3, <3>2 DEF Match
    <3> QED BY <1>1, <1>2, <3>1, <3>3, StillOwnKept
  <2> QED BY <2>1, <2>2
<1>25. CASE DeliverReply
  <2>1. UNCHANGED <<pc, stopping>>
    BY <1>25 DEF DeliverReply, urbVars
  <2>2. CASE stopping
    BY <1>2, <1>25, <2>1, <2>2, StillOwnKept DEF DeliverReply
  <2>3. CASE ~stopping
    <3>1. cstate'[v] = IF v \in Answered THEN "PENDING_GIVEBACK" ELSE cstate[v]
      BY <1>25, <2>3 DEF DeliverReply
    <3>2. v \in Answered => cstate[v] = "PENDING_FEATURE_GET"
      BY <1>3 DEF Answered, Match
    <3> QED BY <1>2, <2>1, <3>1, <3>2, StillOwnKept
  <2> QED BY <2>2, <2>3
<1>26. CASE Disconnect
  <2>1. UNCHANGED <<pc, stopping, ready>> /\ CancelPending("ESHUTDOWN")
    BY <1>26 DEF Disconnect, urbVars
  <2> DEFINE q == hidPending \o featPending
  <2>2. ToSet(q) = ToSet(hidPending) \cup ToSet(featPending)
    BY <1>1, ConcatElements
  <2>3. cstate'[v] = IF v \in ToSet(q) THEN "PENDING_GIVEBACK" ELSE cstate[v]
    BY <2>1 DEF CancelPending
  <2>4. v \in ToSet(q) => cstate[v] # "ACTIVE"
    BY <1>3, <2>2 DEF Match
  <2> HIDE DEF q
  <2> QED BY <1>2, <2>1, <2>3, <2>4, StillOwnKept
<1>27. CASE Stop
  <2>1. pc' = pc /\ (pc[v] = "idle" \/ pc[v] = "returned")
    BY <1>27 DEF Stop, urbVars
  <2> QED BY <2>1 DEF StillOwn
<1>28. ASSUME \/ \E u \in Urbs : StaleContext(u)
              \/ GbSleep \/ GbWakeUp \/ GbDeliver \/ ReadFrame
              \/ \E r \in Reports : CacheReply(r)
              \/ SetProfile \/ Connect \/ ResetUsb \/ Tick \/ UNCHANGED vars
       PROVE  UNCHANGED <<pc, cstate, stopping>>
  BY <1>28 DEF StaleContext, GbSleep, GbWakeUp, GbDeliver, ReadFrame, CacheReply,
               SetProfile, Connect, ResetUsb, Tick, vars, urbVars, ctxVars
<1>29. ASSUME UNCHANGED <<pc, cstate, stopping>> PROVE StillOwn(v)'
  BY <1>2, <1>29 DEF StillOwn
<1> QED
  BY <1>10, <1>11, <1>12, <1>13, <1>14, <1>15, <1>16, <1>17, <1>18, <1>19,
     <1>20, <1>21, <1>22, <1>23, <1>24, <1>25, <1>26, <1>27, <1>28, <1>29
     DEF Next, SubmitterStep, GivebackStep, DaemonStep

(* A submitter that still owns its context uses no stale one.              *)
LEMMA NotStale ==
  ASSUME SubmitterOwns, QueuesOwn, NoStaleContext, [Next]_vars
  PROVE  NoStaleContext'
<1>1. ASSUME NEW u \in Urbs, StaleContext(u) PROVE FALSE
  BY <1>1 DEF StaleContext, UsesStaleContext, SubmitterOwns, QueuesOwn
<1>2. ASSUME \/ \E u \in Urbs, k \in Kinds, r \in Reports \cup {NoReport} : Submit(u, k, r)
             \/ \E u \in Urbs :
                  \/ \E s \in {"ok", "EPIPE"} : AnswerNow(u, s)
                  \/ GetFeature(u) \/ DeferFeatureGet(u) \/ DeferRefused(u)
                  \/ FrameFeatureGet(u) \/ SendFrame(u) \/ HidInTake(u)
                  \/ HidInWait(u) \/ ScheduleIso(u) \/ QueueGiveback(u) \/ Unlink(u)
      PROVE  corrupt' = corrupt
  BY <1>2, ZenonT(60)
     DEF Submit, AnswerNow, GetFeature, DeferFeatureGet, DeferRefused,
         FrameFeatureGet, SendFrame, HidInTake, HidInWait, ScheduleIso,
         QueueGiveback, Unlink
<1>3. ASSUME GivebackStep \/ DaemonStep \/ Stop \/ Tick \/ UNCHANGED vars
      PROVE  corrupt' = corrupt
  BY <1>3 DEF GivebackStep, GbSleep, GbWakeUp, GbTake, GbDeliver, GbGiveback,
              DaemonStep, ReadFrame, WriteInput, CacheReply, DeliverReply,
              SetProfile, Connect, Disconnect, ResetUsb, Stop, Tick, vars
<1> QED BY <1>1, <1>2, <1>3, SMTT(30) DEF Next, SubmitterStep, NoStaleContext

(* No context is used after kfree or put on a second list, along every     *)
(* behaviour in which vds_urb_dequeue does not overtake vds_urb_enqueue    *)
(* and every FEATURE_GET frame finds room in the queue.                    *)
THEOREM ContextsValid ==
  ASSUME ~UnlinkMidSubmit
  PROVE  Spec /\ []FramesFit => []NoStaleContext
<1> DEFINE Inv == SubmitterOwns /\ QueuesOwn /\ NoStaleContext
<1>1. Init => Inv
  BY DEF Init, SubmitterOwns, QueuesOwn, NoStaleContext
<1>2. IInv /\ FramesFit /\ Inv /\ [Next]_vars => Inv'
  <2> SUFFICES ASSUME IInv, FramesFit, Inv, [Next]_vars PROVE Inv'
    OBVIOUS
  <2>1. SubmitterOwns'
    BY OwnsStep DEF SubmitterOwns, Owns
  <2>2. QueuesOwn'
    BY StillOwnStep DEF QueuesOwn, StillOwn
  <2> QED BY <2>1, <2>2, NotStale
<1>3. Inv => NoStaleContext
  OBVIOUS
<1> QED BY <1>1, <1>2, <1>3, Invariance, PTL DEF Spec

-----------------------------------------------------------------------------
(* The age of input reports.                                               *)

(* InputsInOrder for one URB.                                              *)
InputOK(u) ==
  /\ data[u] <= stamp
  /\ pc[u] = "idle" => data[u] = 0
  /\ InFlight(u) /\ data[u] # 0 => lastIn <= data[u]
  /\ InFlight(u) /\ input # 0 => data[u] <= input
  /\ cstate[u] = "PENDING_HID_IN" => kind[u] = "hidIn"
  /\ kind[u] = "hidIn" /\ pc[u] = "queue" => data[u] # 0
  /\ kind[u] = "hidIn" /\ Completing(u) /\ status[u] = "ok" => data[u] # 0

(* ... and for the port.                                                   *)
PortInput ==
  /\ lastIn <= stamp /\ input <= stamp
  /\ input # 0 => lastIn <= input

(* One HID IN URB is in flight at most.                                    *)
OneInFlight == \A u, v \in Urbs : InFlight(u) /\ InFlight(v) => u = v


(* Cancelled URBs carry an error.                                          *)
LEMMA InputCancel ==
  ASSUME IInv, NEW v \in Urbs, InputOK(v), CancelPending("ESHUTDOWN"), FlushBuffered,
         UNCHANGED <<kind, data, stamp, lastIn, pc>>
  PROVE  InputOK(v)'
<1> DEFINE q == hidPending \o featPending
<1>1. /\ cstate'[v] = IF v \in ToSet(q) THEN "PENDING_GIVEBACK" ELSE cstate[v]
      /\ status'[v] = IF v \in ToSet(q) THEN "ESHUTDOWN" ELSE status[v]
      /\ input' = 0
  BY DEF CancelPending, FlushBuffered
<1>2. ToSet(q) = ToSet(hidPending) \cup ToSet(featPending)
  BY ConcatElements DEF IInv, TypeOK
<1>3. v \in ToSet(q) => cstate[v] \in {"PENDING_HID_IN", "PENDING_FEATURE_GET"}
  BY <1>2 DEF IInv, ListsMatchStates
<1> HIDE DEF q
<1> QED BY <1>1, <1>3 DEF InputOK, InFlight, Completing

(* No step lets a HID IN URB carry an older report than the host has.      *)
LEMMA InputsStep ==
  ASSUME IInv, InputsInOrder, [Next]_vars, NEW v \in Urbs
  PROVE  InputOK(v)'
<1> USE DEF At
<1>1. /\ pc \in [Urbs -> {"idle", "entered", "defer", "frame", "queue", "returned"}]
      /\ cstate \in [Urbs -> ContextStates] /\ kind \in [Urbs -> AllKinds]
      /\ data \in [Urbs -> Nat] /\ status \in [Urbs -> Statuses]
      /\ stamp \in Nat /\ input \in Nat /\ lastIn \in Nat
      /\ hidPending \in Seq(Urbs) /\ completed \in Seq(Urbs) /\ gb \in Urbs \cup {NoUrb}
  BY DEF IInv, TypeOK
<1>2. (\A u \in Urbs : InputOK(u)) /\ PortInput /\ OneInFlight
  BY DEF InputsInOrder, InputOK, PortInput, OneInFlight
<1>3. \A u \in Urbs : Match(u)
  BY DEF IInv, ListsMatchStates, Match
<1>4. \A u \in Urbs : /\ pc[u] = "idle" => cstate[u] = "none"
                      /\ pc[u] \in {"defer", "frame"} => kind[u] = "getFeature"
                      /\ cstate[u] = "PENDING_FEATURE_GET" => kind[u] = "getFeature"
  BY DEF IInv, NotStarted, OnlyGetsDeferred
<1>10. ASSUME NEW u \in Urbs, NEW k \in Kinds, NEW r \in Reports \cup {NoReport},
              Submit(u, k, r)
       PROVE  InputOK(v)'
  <2>1. /\ pc' = [pc EXCEPT ![u] = IF stopping THEN "returned" ELSE "entered"]
        /\ cstate' = [cstate EXCEPT ![u] = IF stopping THEN "freed" ELSE "ACTIVE"]
        /\ kind' = [kind EXCEPT ![u] = k] /\ pc[u] = "idle"
        /\ UNCHANGED <<data, status, input, stamp, lastIn>>
    BY <1>10 DEF Submit, daemonVars
  <2>2. CASE v = u
    <3>1. data[v] = 0
      BY <1>2, <2>1, <2>2 DEF InputOK
    <3> QED BY <1>1, <2>1, <2>2, <3>1 DEF InputOK, InFlight, Completing
  <2>3. CASE v # u
    BY <1>1, <1>2, <2>1, <2>3 DEF InputOK, InFlight, Completing
  <2> QED BY <2>2, <2>3
<1>11. ASSUME NEW u \in Urbs,
              \/ \E s \in {"ok", "EPIPE"} : AnswerNow(u, s)
              \/ GetFeature(u) \/ DeferRefused(u) \/ FrameFeatureGet(u)
              \/ SendFrame(u) \/ ScheduleIso(u)
       PROVE  InputOK(v)'
  <2>1. /\ UNCHANGED <<kind, data, input, stamp, lastIn, cstate, status>>
        /\ pc[u] # "idle" /\ kind[u] # "hidIn"
        /\ \E l \in {"defer", "queue", "returned"} : pc' = [pc EXCEPT ![u] = l]
    BY <1>4, <1>11 DEF AnswerNow, GetFeature, DeferRefused, FrameFeatureGet,
                       SendFrame, ScheduleIso, ctxVars, daemonVars
  <2> QED BY <1>1, <1>2, <2>1 DEF InputOK, InFlight, Completing
<1>12. ASSUME NEW u \in Urbs, DeferFeatureGet(u) PROVE InputOK(v)'
  <2>1. /\ UNCHANGED <<kind, data, input, stamp, lastIn, status>>
        /\ pc[u] = "defer" /\ kind[u] # "hidIn" /\ cstate[u] = "ACTIVE"
        /\ pc' = [pc EXCEPT ![u] = "frame"]
        /\ cstate' = [cstate EXCEPT ![u] = "PENDING_FEATURE_GET"]
    BY <1>4, <1>12 DEF DeferFeatureGet, daemonVars
  <2> QED BY <1>1, <1>2, <2>1 DEF InputOK, InFlight, Completing
<1>13. ASSUME NEW u \in Urbs, HidInWait(u) PROVE InputOK(v)'
  <2>1. /\ UNCHANGED <<kind, data, input, stamp, lastIn, status>>
        /\ pc[u] = "entered" /\ kind[u] = "hidIn" /\ cstate[u] = "ACTIVE"
        /\ pc' = [pc EXCEPT ![u] = "returned"]
        /\ cstate' = [cstate EXCEPT ![u] = "PENDING_HID_IN"]
    BY <1>13 DEF HidInWait, daemonVars
  <2> QED BY <1>1, <1>2, <2>1 DEF InputOK, InFlight, Completing
<1>14. ASSUME NEW u \in Urbs, HidInTake(u) PROVE InputOK(v)'
  <2>1. /\ UNCHANGED <<kind, stamp, lastIn, status, cstate>> /\ input # 0 /\ input' = 0
        /\ pc[u] = "entered" /\ pc' = [pc EXCEPT ![u] = "queue"]
        /\ data' = [data EXCEPT ![u] = input]
    BY <1>14 DEF HidInTake, daemonVars
  <2>2. CASE v = u
    <3>1. data'[v] = input /\ input <= stamp /\ lastIn <= input /\ pc'[v] = "queue"
      BY <1>1, <1>2, <2>1, <2>2 DEF PortInput
    <3> QED BY <1>2, <2>1, <3>1 DEF InputOK, InFlight, Completing
  <2>3. CASE v # u
    BY <1>1, <1>2, <2>1, <2>3 DEF InputOK, InFlight, Completing
  <2> QED BY <2>2, <2>3
<1>15. ASSUME NEW u \in Urbs, QueueGiveback(u) PROVE InputOK(v)'
  <2>1. /\ UNCHANGED <<kind, data, input, stamp, lastIn>> /\ pc[u] = "queue"
        /\ cstate[u] # "freed" /\ pc' = [pc EXCEPT ![u] = "returned"]
        /\ \/ UNCHANGED <<cstate, status>>
           \/ /\ cstate' = [cstate EXCEPT ![u] = "PENDING_GIVEBACK"]
              /\ status' = [status EXCEPT ![u] = ret[u]]
    BY <1>15 DEF QueueGiveback, daemonVars
  <2>2. kind[u] = "hidIn" => data[u] # 0
    BY <1>2, <2>1 DEF InputOK
  <2> QED BY <1>1, <1>2, <2>1, <2>2 DEF InputOK, InFlight, Completing
<1>16. ASSUME NEW u \in Urbs, Unlink(u) PROVE InputOK(v)'
  <2>1. /\ UNCHANGED <<kind, data, input, stamp, lastIn, pc>> /\ cstate[u] # "freed"
        /\ cstate' = cstate \/ cstate' = [cstate EXCEPT ![u] = "PENDING_GIVEBACK"]
        /\ status' = [status EXCEPT ![u] = "unlink"]
    BY <1>16 DEF Unlink, daemonVars, Linked
  <2> QED BY <1>1, <1>2, <2>1 DEF InputOK, InFlight, Completing
<1>17. CASE GbTake
  <2> DEFINE h == Head(completed)
  <2>1. /\ UNCHANGED <<kind, data, input, stamp, lastIn, pc, status>> /\ completed # <<>>
        /\ cstate' = [cstate EXCEPT ![h] = "GIVING_BACK"]
    BY <1>17 DEF GbTake, urbVars, daemonVars
  <2>2. h \in Urbs /\ h \in ToSet(completed)
    BY <1>1, <2>1, TailElements
  <2>3. cstate[h] = "PENDING_GIVEBACK"
    BY <1>3, <2>2 DEF Match
  <2> HIDE DEF h
  <2> QED BY <1>1, <1>2, <2>1, <2>2, <2>3 DEF InputOK, InFlight, Completing
<1>18. CASE GbGiveback
  <2>1. /\ UNCHANGED <<kind, data, input, stamp, pc, status>> /\ gb # NoUrb
        /\ cstate' = [cstate EXCEPT ![gb] = "freed"]
        /\ lastIn' = IF kind[gb] = "hidIn" /\ status[gb] = "ok" THEN data[gb] ELSE lastIn
    BY <1>18 DEF GbGiveback, GbBusy, urbVars, daemonVars
  <2>2. gb \in Urbs /\ cstate[gb] = "GIVING_BACK" /\ pc[gb] # "idle"
    BY <1>1, <1>3, <1>4, <2>1 DEF Match
  <2>3. CASE v = gb
    <3>1. cstate'[v] = "freed"
      BY <1>1, <2>1, <2>3
    <3> QED BY <1>2, <2>1, <3>1 DEF InputOK, InFlight, Completing
  <2>4. CASE v # gb
    <3>1. cstate'[v] = cstate[v]
      BY <1>1, <2>1, <2>4
    <3>2. CASE kind[gb] = "hidIn"
      <4>1. ~InFlight(v)
        BY <1>2, <2>2, <2>4, <3>2 DEF OneInFlight, InFlight
      <4> QED BY <1>2, <2>1, <3>1, <4>1 DEF InputOK, InFlight, Completing
    <3>3. CASE kind[gb] # "hidIn"
      BY <1>2, <2>1, <3>1, <3>3 DEF InputOK, InFlight, Completing
    <3> QED BY <3>2, <3>3
  <2> QED BY <2>3, <2>4
<1>19. CASE WriteInput
  <2>1. UNCHANGED <<kind, pc, lastIn>> /\ stamp' = stamp + 1
    BY <1>19 DEF WriteInput
  <2>2. CASE hidPending = <<>>
    <3>1. input' = stamp + 1 /\ UNCHANGED <<data, cstate, status>>
      BY <1>19, <2>1, <2>2 DEF WriteInput
    <3> QED BY <1>1, <1>2, <2>1, <3>1 DEF InputOK, InFlight, Completing
  <2>3. CASE hidPending # <<>>
    <3> DEFINE h == Head(hidPending)
    <3>1. /\ data' = [data EXCEPT ![h] = stamp + 1] /\ input' = input
          /\ cstate' = [cstate EXCEPT ![h] = "PENDING_GIVEBACK"]
          /\ status' = [status EXCEPT ![h] = "ok"]
      BY <1>19, <2>1, <2>3 DEF WriteInput
    <3>2. h \in Urbs /\ h \in ToSet(hidPending)
      BY <1>1, <2>3, TailElements
    <3>3. cstate[h] = "PENDING_HID_IN" /\ input = 0
      BY <1>3, <2>3, <3>2 DEF Match, IInv, InputNotStranded
    <3> HIDE DEF h
    <3>4. CASE v = h
      <4>1. /\ data'[v] = stamp + 1 /\ cstate'[v] = "PENDING_GIVEBACK"
            /\ pc[v] # "idle" /\ lastIn <= stamp
        BY <1>1, <1>2, <1>4, <3>1, <3>2, <3>3, <3>4 DEF PortInput
      <4> QED BY <1>1, <2>1, <3>1, <3>3, <4>1 DEF InputOK, InFlight, Completing
    <3>5. CASE v # h
      <4>1. data'[v] = data[v] /\ cstate'[v] = cstate[v] /\ status'[v] = status[v]
        BY <1>1, <3>1, <3>5
      <4> QED BY <1>1, <1>2, <2>1, <3>1, <4>1 DEF InputOK, InFlight, Completing
    <3> QED BY <3>4, <3>5
  <2> QED BY <2>2, <2>3
<1>20. CASE DeliverReply
  <2>1. UNCHANGED <<kind, data, input, stamp, lastIn, pc>>
    BY <1>20 DEF DeliverReply, urbVars
  <2>2. CASE stopping
    <3>1. UNCHANGED <<cstate, status>>
      BY <1>20, <2>2 DEF DeliverReply
    <3> QED BY <1>2, <2>1, <3>1 DEF InputOK, InFlight, Completing
  <2>3. CASE ~stopping
    <3>1. /\ cstate'[v] = IF v \in Answered THEN "PENDING_GIVEBACK" ELSE cstate[v]
          /\ status'[v] = IF v \in Answered THEN "ok" ELSE status[v]
      BY <1>20, <2>3 DEF DeliverReply
    <3>2. v \in Answered => kind[v] = "getFeature"
      BY <1>3, <1>4 DEF Answered, Match
    <3> QED BY <1>2, <2>1, <3>1, <3>2 DEF InputOK, InFlight, Completing
  <2> QED BY <2>2, <2>3
<1>21. CASE Disconnect
  BY <1>2, <1>21, InputCancel DEF Disconnect, urbVars
<1>22. CASE Stop
  BY <1>2, <1>22, InputCancel DEF Stop, urbVars, daemonVars
<1>23. ASSUME \/ \E u \in Urbs : StaleContext(u)
              \/ GbSleep \/ GbWakeUp \/ GbDeliver \/ ReadFrame
              \/ \E r \in Reports : CacheReply(r)
              \/ SetProfile \/ Connect \/ ResetUsb \/ Tick \/ UNCHANGED vars
       PROVE  UNCHANGED <<kind, data, input, stamp, lastIn, pc, cstate, status>>
  BY <1>23 DEF StaleContext, GbSleep, GbWakeUp, GbDeliver, ReadFrame, CacheReply,
               SetProfile, Connect, ResetUsb, Tick, vars, urbVars, ctxVars, daemonVars
<1>24. ASSUME UNCHANGED <<kind, data, input, stamp, lastIn, pc, cstate, status>>
       PROVE  InputOK(v)'
  BY <1>2, <1>24 DEF InputOK, InFlight, Completing
<1> QED
  BY <1>10, <1>11, <1>12, <1>13, <1>14, <1>15, <1>16, <1>17, <1>18, <1>19,
     <1>20, <1>21, <1>22, <1>23, <1>24
     DEF Next, SubmitterStep, GivebackStep, DaemonStep

(* Only a submission adds a HID IN URB to those in flight.                 *)
LEMMA FlightStep ==
  ASSUME IInv, [Next]_vars, NEW v \in Urbs, InFlight(v)'
  PROVE  \/ InFlight(v)
         \/ \E k \in Kinds, r \in Reports \cup {NoReport} : Submit(v, k, r)
<1> USE DEF At
<1>1. /\ pc \in [Urbs -> {"idle", "entered", "defer", "frame", "queue", "returned"}]
      /\ cstate \in [Urbs -> ContextStates] /\ kind \in [Urbs -> AllKinds]
      /\ hidPending \in Seq(Urbs) /\ featPending \in Seq(Urbs) /\ completed \in Seq(Urbs)
  BY DEF IInv, TypeOK
<1>2. Match(v)
  BY DEF IInv, ListsMatchStates, Match
<1>3. ASSUME kind' = kind, pc[v] = "idle" => pc'[v] = "idle",
             cstate[v] = "freed" => cstate'[v] = "freed"
      PROVE  InFlight(v)
  BY <1>3 DEF InFlight
<1>10. ASSUME NEW u \in Urbs, NEW k \in Kinds, NEW r \in Reports \cup {NoReport},
              Submit(u, k, r), u # v
       PROVE  InFlight(v)
  BY <1>1, <1>10 DEF Submit, InFlight
<1>11. ASSUME NEW u \in Urbs, SubmitterStep(u) PROVE InFlight(v)
  <2>1. /\ kind' = kind
        /\ pc' = pc \/ (pc[u] # "idle" /\ \E l : pc' = [pc EXCEPT ![u] = l])
        /\ \/ cstate' = cstate
           \/ cstate[u] # "freed" /\ \E c : cstate' = [cstate EXCEPT ![u] = c]
    BY <1>11 DEF SubmitterStep, AnswerNow, GetFeature, DeferFeatureGet, DeferRefused,
                 FrameFeatureGet, SendFrame, HidInTake, HidInWait, ScheduleIso,
                 QueueGiveback, StaleContext, urbVars, ctxVars
  <2>2. pc[v] = "idle" => pc'[v] = "idle"
    BY <1>1, <2>1
  <2>3. cstate[v] = "freed" => cstate'[v] = "freed"
    BY <1>1, <2>1
  <2> QED BY <1>3, <2>1, <2>2, <2>3
<1>12. ASSUME NEW u \in Urbs, Unlink(u) PROVE InFlight(v)
  <2>1. /\ UNCHANGED <<kind, pc>> /\ cstate[u] # "freed"
        /\ cstate' = cstate \/ cstate' = [cstate EXCEPT ![u] = "PENDING_GIVEBACK"]
    BY <1>12 DEF Unlink, Linked
  <2> QED BY <1>1, <1>3, <2>1
<1>13. CASE GbTake
  <2>1. /\ UNCHANGED <<kind, pc>> /\ completed # <<>>
        /\ cstate' = [cstate EXCEPT ![Head(completed)] = "GIVING_BACK"]
    BY <1>13 DEF GbTake, urbVars
  <2>2. Head(completed) \in ToSet(completed)
    BY <1>1, <2>1, TailElements
  <2> QED BY <1>1, <1>2, <1>3, <2>1, <2>2 DEF Match
<1>14. CASE GbGiveback
  <2>1. /\ UNCHANGED <<kind, pc>> /\ cstate' = [cstate EXCEPT ![gb] = "freed"]
    BY <1>14 DEF GbGiveback, urbVars
  <2> QED BY <1>1, <1>3, <2>1
<1>15. CASE WriteInput
  <2>1. UNCHANGED <<kind, pc>>
    BY <1>15 DEF WriteInput
  <2>2. CASE hidPending = <<>>
    <3>1. cstate' = cstate
      BY <1>15, <2>2 DEF WriteInput
    <3> QED BY <1>3, <2>1, <3>1
  <2>3. CASE hidPending # <<>>
    <3>1. cstate' = [cstate EXCEPT ![Head(hidPending)] = "PENDING_GIVEBACK"]
      BY <1>15, <2>3 DEF WriteInput
    <3>2. Head(hidPending) \in ToSet(hidPending)
      BY <1>1, <2>3, TailElements
    <3> QED BY <1>1, <1>2, <1>3, <2>1, <3>1, <3>2 DEF Match
  <2> QED BY <2>2, <2>3
<1>16. CASE DeliverReply
  <2>1. UNCHANGED <<kind, pc>>
    BY <1>16 DEF DeliverReply, urbVars
  <2>2. CASE stopping
    <3>1. cstate' = cstate
      BY <1>16, <2>2 DEF DeliverReply
    <3> QED BY <1>3, <2>1, <3>1
  <2>3. CASE ~stopping
    <3>1. cstate'[v] = IF v \in Answered THEN "PENDING_GIVEBACK" ELSE cstate[v]
      BY <1>16, <2>3 DEF DeliverReply
    <3>2. v \in Answered => cstate[v] = "PENDING_FEATURE_GET"
      BY <1>2 DEF Answered, Match
    <3> QED BY <1>3, <2>1, <3>1, <3>2
  <2> QED BY <2>2, <2>3
<1>17. CASE Disconnect \/ Stop
  <2> DEFINE q == hidPending \o featPending
  <2>1. /\ UNCHANGED <<kind, pc>>
        /\ cstate'[v] = IF v \in ToSet(q) THEN "PENDING_GIVEBACK" ELSE cstate[v]
    BY <1>17 DEF Disconnect, Stop, CancelPending, urbVars
  <2>2. ToSet(q) = ToSet(hidPending) \cup ToSet(featPending)
    BY <1>1, ConcatElements
  <2>3. v \in ToSet(q) => cstate[v] # "freed"
    BY <1>2, <2>2 DEF Match
  <2> HIDE DEF q
  <2> QED BY <1>3, <2>1, <2>3
<1>18. ASSUME \/ GbSleep \/ GbWakeUp \/ GbDeliver \/ ReadFrame
              \/ \E r \in Reports : CacheReply(r)
              \/ SetProfile \/ Connect \/ ResetUsb \/ Tick \/ UNCHANGED vars
       PROVE  UNCHANGED <<kind, pc, cstate>>
  BY <1>18 DEF GbSleep, GbWakeUp, GbDeliver, ReadFrame, CacheReply,
               SetProfile, Connect, ResetUsb, Tick, vars, urbVars, ctxVars
<1>19. ASSUME UNCHANGED <<kind, pc, cstate>> PROVE InFlight(v)
  BY <1>3, <1>19
<1> QED
  BY <1>10, <1>11, <1>12, <1>13, <1>14, <1>15, <1>16, <1>17, <1>18, <1>19
     DEF Next, GivebackStep, DaemonStep

(* The host submits a HID IN URB only when it has none in flight.          *)
LEMMA OneInFlightStep ==
  ASSUME IInv, HidInDepth <= 1, OneInFlight, [Next]_vars
  PROVE  OneInFlight'
<1>1. ASSUME NEW u \in Urbs, NEW k \in Kinds, NEW r \in Reports \cup {NoReport},
             Submit(u, k, r), InFlight(u)',
             NEW v \in Urbs, InFlight(v)
      PROVE  FALSE
  <2> DEFINE S == {w \in Urbs : kind[w] = "hidIn" /\ pc[w] # "idle"
                                /\ cstate[w] # "freed"}
  <2>1. kind'[u] = k /\ kind'[u] = "hidIn"
    BY <1>1 DEF Submit, InFlight, IInv, TypeOK
  <2>2. Cardinality(S) < 1
    <3>1. Cardinality(S) < HidInDepth
      BY <1>1, <2>1 DEF Submit, HostMaySubmit
    <3>2. IsFiniteSet(S)
      BY UrbsFinite, FS_Subset
    <3>3. Cardinality(S) \in Nat
      BY <3>2, FS_CardinalityType
    <3> QED BY <3>1, <3>3, BoundsNat
  <2>3. S = {}
    <3>1. IsFiniteSet(S)
      BY UrbsFinite, FS_Subset
    <3>2. Cardinality(S) = 0
      BY <2>2, <3>1, FS_CardinalityType
    <3> QED BY <3>1, <3>2, FS_EmptySet
  <2>4. v \in S
    BY <1>1 DEF InFlight
  <2> QED BY <2>3, <2>4
<1>2. ASSUME NEW u \in Urbs, NEW v \in Urbs, InFlight(u)', InFlight(v)', u # v
      PROVE  FALSE
  <2>1. CASE InFlight(u) /\ InFlight(v)
    BY <1>2, <2>1 DEF OneInFlight
  <2>2. ASSUME NEW k \in Kinds, NEW r \in Reports \cup {NoReport}, Submit(u, k, r)
        PROVE  FALSE
    <3>1. InFlight(v)
      BY <1>2, <2>2 DEF Submit, InFlight, IInv, TypeOK
    <3> QED BY <1>1, <1>2, <2>2, <3>1
  <2>3. ASSUME NEW k \in Kinds, NEW r \in Reports \cup {NoReport}, Submit(v, k, r)
        PROVE  FALSE
    <3>1. InFlight(u)
      BY <1>2, <2>3 DEF Submit, InFlight, IInv, TypeOK
    <3> QED BY <1>1, <1>2, <2>3, <3>1
  <2> QED BY <1>2, <2>1, <2>2, <2>3, FlightStep
<1> QED BY <1>2 DEF OneInFlight

(* What is buffered is newer than what the host has, and what the host     *)
(* gets is no older.                                                       *)
LEMMA PortInputStep ==
  ASSUME IInv, InputsInOrder, [Next]_vars
  PROVE  PortInput' /\ lastIn' >= lastIn
<1> USE DEF At
<1>1. /\ PortInput /\ stamp \in Nat /\ input \in Nat /\ lastIn \in Nat
      /\ data \in [Urbs -> Nat]
  BY DEF InputsInOrder, PortInput, IInv, TypeOK
<1>2. CASE GbGiveback
  <2>1. /\ UNCHANGED <<input, stamp>> /\ gb # NoUrb
        /\ lastIn' = IF kind[gb] = "hidIn" /\ status[gb] = "ok" THEN data[gb] ELSE lastIn
    BY <1>2 DEF GbGiveback, GbBusy, daemonVars
  <2>2. gb \in Urbs /\ cstate[gb] = "GIVING_BACK" /\ pc[gb] # "idle"
    BY <2>1 DEF IInv, TypeOK, ListsMatchStates, NotStarted
  <2>3. kind[gb] = "hidIn" /\ status[gb] = "ok" =>
          /\ data[gb] # 0 /\ lastIn <= data[gb] /\ data[gb] <= stamp
          /\ input # 0 => data[gb] <= input
    BY <2>2 DEF InputsInOrder, InFlight, Completing
  <2>4. data[gb] \in Nat
    BY <1>1, <2>2
  <2> QED BY <1>1, <2>1, <2>3, <2>4 DEF PortInput
<1>3. CASE WriteInput
  <2>1. lastIn' = lastIn /\ stamp' = stamp + 1 /\ input' \in {input, stamp + 1}
    BY <1>3 DEF WriteInput
  <2> QED BY <1>1, <2>1 DEF PortInput
<1>4. ASSUME UNCHANGED <<lastIn, stamp>>, input' \in {input, 0}
      PROVE  PortInput' /\ lastIn' >= lastIn
  BY <1>1, <1>4 DEF PortInput
<1>5. ASSUME \/ \E u \in Urbs, k \in Kinds, r \in Reports \cup {NoReport} : Submit(u, k, r)
             \/ \E u \in Urbs : SubmitterStep(u) \/ Unlink(u)
      PROVE  UNCHANGED <<lastIn, stamp>> /\ input' \in {input, 0}
  BY <1>5, ZenonT(60)
     DEF Submit, SubmitterStep, AnswerNow, GetFeature, DeferFeatureGet,
         DeferRefused, FrameFeatureGet, SendFrame, HidInTake, HidInWait,
         ScheduleIso, QueueGiveback, StaleContext, Unlink, daemonVars
<1>6. ASSUME \/ GbSleep \/ GbWakeUp \/ GbTake \/ GbDeliver \/ ReadFrame
             \/ \E r \in Reports : CacheReply(r)
             \/ DeliverReply \/ SetProfile \/ Connect \/ Disconnect \/ ResetUsb
             \/ Stop \/ Tick \/ UNCHANGED vars
      PROVE  UNCHANGED <<lastIn, stamp>> /\ input' \in {input, 0}
  BY <1>6 DEF GbSleep, GbWakeUp, GbTake, GbDeliver, ReadFrame, CacheReply,
              DeliverReply, SetProfile, Connect, Disconnect, FlushBuffered,
              ResetUsb, Stop, Tick, vars, daemonVars
<1> QED
  BY <1>2, <1>3, <1>4, <1>5, <1>6, SMTT(30) DEF Next, GivebackStep, DaemonStep

(* The host never gets an input report older than one it has, as long as   *)
(* it keeps one interrupt IN URB in flight, as usbhid does; unlinks may    *)
(* come at any time.                                                       *)
THEOREM InputMonotonic ==
  ASSUME HidInDepth <= 1
  PROVE  Spec => InputNeverGoesBack
<1>1. Init => InputsInOrder
  BY DEF Init, InputsInOrder, InFlight, Completing
<1>2. IInv /\ InputsInOrder /\ [Next]_vars => InputsInOrder'
  <2> SUFFICES ASSUME IInv, InputsInOrder, [Next]_vars PROVE InputsInOrder'
    OBVIOUS
  <2>1. OneInFlight
    BY DEF InputsInOrder, OneInFlight
  <2>2. OneInFlight' /\ PortInput' /\ \A v \in Urbs : InputOK(v)'
    BY <2>1, OneInFlightStep, PortInputStep, InputsStep
  <2> QED BY <2>2 DEF InputsInOrder, InputOK, PortInput, OneInFlight
<1>3. IInv /\ InputsInOrder /\ [Next]_vars => [lastIn' >= lastIn]_vars
  BY PortInputStep
<1> QED BY <1>1, <1>2, <1>3, Invariance, PTL DEF Spec, InputNeverGoesBack
=============================================================================
