---------------------------- MODULE MC_VdsdLinux ----------------------------
(* A small instance of VdsdLinux: two controllers and two endpoints, both  *)
(* registered at the start for any endpoint; attach requests that allow    *)
(* only the second endpoint, that name both and change the profile, or     *)
(* that name one twice.                                                    *)
EXTENDS VdsdLinux, TLC

CONSTANTS a1, a2, ds, edge

MCAddrs    == {a1, a2}
MCPorts    == {0, 1}
MCProfiles == {ds, edge}
MCRequests == {[profile |-> ds, ports |-> <<1>>], [profile |-> edge, ports |-> <<1, 0>>],
               [profile |-> ds, ports |-> <<1, 1>>]}
MCDbs      == {<<[addr |-> a, profile |-> ds, ports |-> <<>>],
                 [addr |-> b, profile |-> ds, ports |-> <<>>]>> :
                  <<a, b>> \in {<<a1, a2>>, <<a2, a1>>}}
Symmetry   == Permutations(MCAddrs)
=============================================================================
