--------------------------- MODULE MC_VdsdBridge ---------------------------
(* A small instance of VdsdBridge: two states of the host, three feature   *)
(* reports (one fetched at start-up, one the test result), a queue of two  *)
(* audio chunks of which one is fresh, and an interrupt socket of one      *)
(* packet, so that reports are blocked as often as they are sent.  The     *)
(* host's reports ask for either path, the one for the speaker with the    *)
(* other state, or for volumes alone.                                      *)
EXTENDS VdsdBridge

CONSTANTS h0, h1, f1, f2, ft

MCHosts      == {h0, h1}
MCFeatures   == {f1, f2, ft}
MCInitialIds == {f1}

Report(h, path, vol, m) ==
  [type |-> "hid_out", host |-> h, control |-> path, volume |-> vol, mic |-> m]

MCReports == {Report(h0, "headphones", FALSE, FALSE), Report(h1, "speaker", FALSE, FALSE),
              Report(h0, "none", TRUE, TRUE)}

\* Kinds of traffic that meet in the same part of the port's state.
MCScenarios ==
  {{"hid", "stream", "input"}, {"mic", "input"}, {"mic", "hid"}, {"test", "stream"},
   {"test", "feature"}}
=============================================================================
