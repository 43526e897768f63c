-------------------------- MODULE MC_ProcessReplay --------------------------
(***************************************************************************)
(* Small instances of ProcessReplay for TLC.                               *)
(***************************************************************************)
EXTENDS ProcessReplay

CONSTANTS p, q, r

\* Descriptors are interchangeable; processes are born in a fixed order.
Symmetry == Permutations(Fds)
TwoProcesses == <<p, q>>
ThreeProcesses == <<p, q, r>>
=============================================================================
