---------------------------- MODULE MC_VdsPort ----------------------------
(* A small instance of VdsPort.                                            *)
EXTENDS VdsPort

CONSTANTS o1, o2, ds5, dse

MCOpeners  == {o1, o2}
MCProfiles == {ds5, dse}

\* Profiles that change; control requests; the microphone.  They meet in the
\* port's state, and nowhere else.
MCScenarios ==
    {[conns |-> 2, reqs |-> 0, mic |-> FALSE, profiles |-> MCProfiles],
     [conns |-> 2, reqs |-> 1, mic |-> FALSE, profiles |-> {ds5}],
     [conns |-> 1, reqs |-> 0, mic |-> TRUE, profiles |-> {ds5}]}

\* A frame of more than a queue, and two that share one.
MCFrames == {1, 3}
MCUrbs   == {2}
=============================================================================
