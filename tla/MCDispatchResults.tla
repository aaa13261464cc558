-------------------------- MODULE MCDispatchResults --------------------------
(* The sessions of DispatchResults are interchangeable. *)
EXTENDS DispatchResults, TLC

SessionSymmetry == Permutations(Sessions)
=============================================================================
