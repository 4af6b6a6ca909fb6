---------------------------- MODULE MCTTLManager ----------------------------
(***************************************************************************)
(* Six keys: the smallest heap in which the entry that replaces a removed  *)
(* one may have to rise (it comes from another subtree).                   *)
(***************************************************************************)
EXTENDS TTLManager, TLC

Symmetry == Permutations(Key)
=============================================================================
