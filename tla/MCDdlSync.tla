----------------------------- MODULE MCDdlSync -----------------------------
(* DdlSync for TLC: replicas are interchangeable.                          *)
EXTENDS DdlSync, TLC

Symmetry == Permutations(Replicas)
=============================================================================
