----------------------------- MODULE MC_VdsHcd -----------------------------
(* Instances of VdsHcd for TLC: which requests the host makes.             *)
EXTENDS VdsHcd, TLC

ContextKinds == {"getFeature", "setFeature", "isoOut"}
EveryKind == AllKinds
ProgressKinds == {"getFeature", "hidOut", "isoOut"}

(* Submissions are interchangeable.                                        *)
UrbSymmetry == Permutations(Urbs)
=============================================================================
