-------------------------- MODULE MC_Interleaving --------------------------
(***************************************************************************)
(* Small instances of Interleaving for TLC.                                *)
(***************************************************************************)
EXTENDS Interleaving, TLC

Symmetry == Permutations(Threads) \cup Permutations(Mutexes)
=============================================================================
