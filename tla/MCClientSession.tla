-------------------------- MODULE MCClientSession --------------------------
(***************************************************************************)
(* Goroutines are interchangeable, and so are the merchant's identities.   *)
(***************************************************************************)
EXTENDS ClientSession, TLC

Symmetry == Permutations(Threads) \cup Permutations(Keys)
=============================================================================
