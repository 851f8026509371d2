----------------------------- MODULE MCRedoLog -----------------------------
(* Small instances of RedoLog for TLC. *)
EXTENDS RedoLog, TLC

Symmetry == Permutations(Proc) \cup Permutations(Block)
=============================================================================
