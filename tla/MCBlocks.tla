------------------------------ MODULE MCBlocks ------------------------------
(* Blocks on small sets, for TLC. *)
EXTENDS Blocks, TLC

(* Nothing orders the state hashes. *)
Sym == Permutations(Hashes)
=============================================================================
