---------------------------- MODULE MC_VdsUsbip ----------------------------
(* Instances of VdsUsbip for TLC: what a behaviour mixes.                  *)
EXTENDS VdsUsbip, TLC

Mix(ks, conns, reports, ticks) ==
    [kinds |-> ks, imports |-> conns, inputs |-> reports, time |-> ticks]

\* Queries against the daemon's reports, and over a re-import; reports that
\* come faster than they are fetched; audio over a re-import; two audio streams
\* that pause; requests that need no reply of the daemon.
SessionScenarios ==
    {Mix({"getReport", "hidIn"}, 1, 1, 1), Mix({"getReport"}, 2, 0, 1),
     Mix({"hidIn"}, 1, 2, 1), Mix({"isoOut", "local"}, 2, 0, 1),
     Mix({"isoOut", "isoIn"}, 1, 0, 2), Mix({"forward", "local"}, 1, 0, 1)}

ProgressScenarios == {Mix({"getReport", "hidIn", "isoOut", "isoIn"}, 1, 0, 1)}
ReimportScenarios == {Mix({"isoOut"}, 2, 0, 1)}
GetScenarios == {Mix({"getReport"}, 1, 0, 1)}

(* Commands are interchangeable.                                           *)
CmdSymmetry == Permutations(Cmds)
=============================================================================
