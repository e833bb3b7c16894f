----------------------------- MODULE MC_WinUsb -----------------------------
(* A small instance of WinUsb: one port, two handles, a ring of four units *)
(* (a frame is two or three, so frames wrap, split and find the ring full) *)
(* and a microphone ring of two.                                           *)
EXTENDS WinUsb, TLC

CONSTANTS f1, f2, p1, p2, u1, u2

MCFiles    == {f1, f2}
MCProfiles == {p1, p2}
MCUrbs     == {u1, u2}

\* Handles, profiles and URBs are interchangeable.
Symmetric == Permutations(MCFiles) \union Permutations(MCProfiles) \union Permutations(MCUrbs)
=============================================================================
