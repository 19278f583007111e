------------------------------- MODULE MCProc -------------------------------
(* Small instances of Proc for TLC. *)
EXTENDS Proc, TLC

Symmetry == Permutations(CPUs)
=============================================================================
