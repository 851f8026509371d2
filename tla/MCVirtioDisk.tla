---------------------------- MODULE MCVirtioDisk ----------------------------
(***************************************************************************)
(* Bounds for model checking VirtioDisk: three processes, seven            *)
(* descriptors.  Two requests fit at a time, one descriptor is left over,  *)
(* and the third process has to wait and gives its partial chain back.     *)
(***************************************************************************)
EXTENDS VirtioDisk, TLC

Symmetry == Permutations(Proc) \cup Permutations(Value)
=============================================================================
