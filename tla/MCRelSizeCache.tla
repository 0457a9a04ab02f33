-------------------------- MODULE MCRelSizeCache --------------------------
(* Instances of RelSizeCache for TLC.                                      *)
EXTENDS RelSizeCache, TLC

Symmetry == Permutations(Rels) \cup Permutations(Entries) \cup Permutations(Backends)
===========================================================================
