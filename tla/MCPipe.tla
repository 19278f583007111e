------------------------------- MODULE MCPipe -------------------------------
(* Model checking instances of Pipe. *)
EXTENDS Pipe, TLC

Symmetry == Permutations(Bytes)
=============================================================================
