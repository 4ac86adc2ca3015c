-------------------------- MODULE MCNodeService ---------------------------
(***************************************************************************)
(* Instances of NodeService, and the symmetry of callers and loops.        *)
(***************************************************************************)
EXTENDS NodeService, TLC

Symmetric == Permutations(Callers) \cup Permutations(Loops) \cup Permutations(Closers)
=============================================================================
