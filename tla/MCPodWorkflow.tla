---------------------------- MODULE MCPodWorkflow ----------------------------
(* s2 has no university, so its pods take over the first mentor's.           *)
EXTENDS PodWorkflow, TLC

CONSTANTS s2, f1, f2, a1, u1, u2, p1, p2, q1, w1, w2

MCUniversityOf ==
  [u \in Users |-> CASE u = f1 -> u1 [] u = f2 -> u2 [] OTHER -> None]

WorkerSymmetry == Permutations(Workers)
=============================================================================
