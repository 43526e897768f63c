-------------------------- MODULE MC_ThreadReplay --------------------------
(***************************************************************************)
(* Small instances of ThreadReplay for TLC.                                *)
(***************************************************************************)
EXTENDS ThreadReplay, TLC

Symmetry == Permutations(Threads) \cup Permutations(Mutexes)
=============================================================================
