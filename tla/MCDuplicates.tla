----------------------------- MODULE MCDuplicates -----------------------------
(* The search may find p1 and p2 similar, in either direction.                *)
EXTENDS DuplicateMerge, TLC

CONSTANTS p1, p2, p3, e1, e2, w1, w2

MCSimilar == {<<p1, p2>>, <<p2, p1>>}
MCSymmetry == Permutations(Workers) \cup Permutations(Endorsers)
===============================================================================
