-------------------------- MODULE MCFlushControl --------------------------
(* Instances of FlushControl for TLC.                                      *)
EXTENDS FlushControl, TLC

Symmetry == Permutations(Pages) \cup Permutations(Flushers) \cup Permutations(Slots) \cup Permutations(Hinters)
===========================================================================
