-------------------------------- MODULE MCBio --------------------------------
(* Model checking instances of Bio. *)
EXTENDS Bio

Symmetry == Permutations(Procs) \cup Permutations(Blocks) \cup Permutations(Values)
=============================================================================
