----------------------------- MODULE MCMymalloc -----------------------------
(***************************************************************************)
(* Two threads and a machine with 64 addresses: headers of 4, alignment 2, *)
(* pages of 8 and chunks of 16 bytes.                                      *)
(***************************************************************************)
EXTENDS Mymalloc, TLC

Symmetry == Permutations(Thread)
=============================================================================
