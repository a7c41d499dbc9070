---------------------------- MODULE MCPooledCalls ----------------------------
(* PooledCalls for TLC: calls are interchangeable, and so are sessions. *)
EXTENDS PooledImplements, TLC

MCSymmetry == Permutations(Calls) \cup Permutations(Sessions)
==============================================================================
