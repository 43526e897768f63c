---------------------------- MODULE MC_ModelGate ----------------------------
(***************************************************************************)
(* Small instances of ModelGate for TLC.                                   *)
(***************************************************************************)
EXTENDS ModelGate, TLC

Symmetry == Permutations(Runs) \cup Permutations(Owners)
OneAndTwo == 1 .. 2
=============================================================================
