-------------------------- MODULE MC_StreamHealth --------------------------
(***************************************************************************)
(* Small instances of StreamHealth for TLC.                                *)
(***************************************************************************)
EXTENDS StreamHealth, TLC

Symmetry == Permutations(Runs) \cup Permutations(Owners)
UpToTwo == 0 .. 2
OneAndTwo == 1 .. 2
=============================================================================
