------------------------------- MODULE MCPipe -------------------------------
(* Small instances of Pipe for TLC. *)
EXTENDS Pipe, TLC

Symmetry == Permutations(Proc \ {Creator})
=============================================================================
