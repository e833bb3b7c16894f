----------------------------- MODULE UrbContract -----------------------------
(***************************************************************************)
(* What a USB host is promised of the URBs it submits, whatever the driver *)
(* does in between: a URB is given back exactly once, what it carries is   *)
(* handed to the daemon at most once and never after the URB was given     *)
(* back.                                                                   *)
(***************************************************************************)
EXTENDS Naturals

CONSTANT Urbs

VARIABLES
  submitted, \* the URBs the host has submitted
  handed,    \* how often the frame of each URB was handed to the daemon
  returned   \* how often each URB was given back

cvars == <<submitted, handed, returned>>

Init ==
  /\ submitted = {}
  /\ handed = [u \in Urbs |-> 0]
  /\ returned = [u \in Urbs |-> 0]

Pending(u) == u \in submitted /\ returned[u] = 0

Submit(u) ==
  /\ u \notin submitted
  /\ submitted' = submitted \union {u}
  /\ UNCHANGED <<handed, returned>>

Hand(u) ==
  /\ Pending(u) /\ handed[u] = 0
  /\ handed' = [handed EXCEPT ![u] = 1]
  /\ UNCHANGED <<submitted, returned>>

\* A step of the driver may give back several URBs.
Return ==
  \E us \in SUBSET Urbs :
    /\ us # {} /\ \A u \in us : Pending(u)
    /\ returned' = [u \in Urbs |-> IF u \in us THEN 1 ELSE returned[u]]
    /\ UNCHANGED <<submitted, handed>>

Next == (\E u \in Urbs : Submit(u) \/ Hand(u)) \/ Return

Safety == Init /\ [][Next]_cvars
=============================================================================
