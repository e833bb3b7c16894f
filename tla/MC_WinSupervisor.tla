-------------------------- MODULE MC_WinSupervisor --------------------------
(***************************************************************************)
(* An instance of WinSupervisor: two controllers, two virtual ports.  The  *)
(* filter sees the first controller, with a second HID collection that     *)
(* carries no reports; without the filter either may be discovered.        *)
(***************************************************************************)
EXTENDS WinSupervisor

CONSTANTS a1, a2, col1, other

MCAddressOf == col1 :> a1 @@ other :> a1
MCTargetOf == col1 :> TRUE @@ other :> FALSE
MCLists == {<<>>, <<other, col1>>}

First == [ports |-> {0}, profile |-> "ds5"]
Both == [ports |-> {0, 1}, profile |-> "dse"]
MCConfigs == {First, Both}
MCInitial == {a1 :> Both @@ a2 :> First}
=============================================================================
