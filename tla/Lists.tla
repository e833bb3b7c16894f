------------------------------- MODULE Lists -------------------------------
(***************************************************************************)
(* The kernel's intrusive lists (struct list_head) as sequences: the       *)
(* list_add_tail / list_del surgery that module/vds_hcd_core.c performs on *)
(* its context lists.                                                      *)
(***************************************************************************)
EXTENDS Naturals, Sequences, FiniteSets, SequencesExt

(* No element occurs twice: a context has one list_head.                   *)
NoDup(q) == \A i, j \in DOMAIN q : q[i] = q[j] => i = j

(* q with the sequence s inserted before position i: list_add_tail of each *)
(* element of s to the entry at i.                                         *)
Splice(q, i, s) == SubSeq(q, 1, i - 1) \o s \o SubSeq(q, i, Len(q))

(* Mutant: the entry stays on the list it is moved from.                   *)
UnlistedKept(q, e) == {q}

(* list_del_init of e, when q holds it.                                    *)
Unlisted(q, e) ==
    IF e \in ToSet(q)
    THEN {RemoveAt(q, i) : i \in {j \in DOMAIN q : q[j] = e}}
    ELSE {q}

(* The elements S of the list q, in the order of q: what a traversal that  *)
(* visits only S sees.                                                     *)
InListOrder(S, q) ==
    {s \in SetToSeqs(S) :
        \A a, b \in DOMAIN s : a < b =>
            \E i, j \in DOMAIN q : i < j /\ q[i] = s[a] /\ q[j] = s[b]}
=============================================================================
