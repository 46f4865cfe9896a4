------------------------------- MODULE MCSync --------------------------------
(* Sync for TLC. *)
EXTENDS Sync, TLC

\* The goroutines are interchangeable.
Symmetry == Permutations(Proc)
==============================================================================
