----------------------------- MODULE MCBackends ------------------------------
(* Backends for TLC. *)
EXTENDS Backends, TLC

\* The goroutines are interchangeable.
Symmetry == Permutations(Task)
==============================================================================
