--------------------------- MODULE MCBufferCache ---------------------------
(* Small instances of BufferCache for TLC. *)
EXTENDS BufferCache, TLC

Symmetry == Permutations(User) \cup Permutations(Block)
=============================================================================
