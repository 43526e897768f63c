---------------------------- MODULE MC_Lifecycle ----------------------------
(***************************************************************************)
(* Small instances of Lifecycle for TLC: process ids, resources and runs   *)
(* are model values given in the configurations.                           *)
(***************************************************************************)
EXTENDS Lifecycle

\* Processes and descriptors are interchangeable in every property.
Symmetry == Permutations(Pids) \cup Permutations(Fds) \cup Permutations(Ptrs) \cup Permutations(Runs)

\* A fault may hit the first or the second insertion of a handler; a third one
\* fails where the limits are reached.
FirstTwo == {0, 1}
=============================================================================
