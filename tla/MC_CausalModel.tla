--------------------------- MODULE MC_CausalModel ---------------------------
(***************************************************************************)
(* Small instances of CausalModel for TLC.                                 *)
(***************************************************************************)
EXTENDS CausalModel, TLC

OneContext == {1}
Symmetry == Permutations(Runs) \cup Permutations(Names) \cup Permutations(Objects)
=============================================================================
