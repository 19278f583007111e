---------------------------- MODULE MCVirtioDisk -----------------------------
(* Model checking instances of VirtioDisk. *)
EXTENDS VirtioDisk, TLC

Symmetry == Permutations(Procs) \cup Permutations(Values) \cup Permutations(Blocks)
=============================================================================
