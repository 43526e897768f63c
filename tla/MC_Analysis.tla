---------------------------- MODULE MC_Analysis ----------------------------
(***************************************************************************)
(* Small instances of the causal order and the trace policy for TLC.       *)
(***************************************************************************)
EXTENDS TracePolicy, TLC

OneContext == {1}

\* The heap sorts: six values pushed in any order come back in order.  (The
\* run's own graphs keep the heap small.)
Sorted(h) ==
  LET heaps[n \in 0 .. Len(h)] == IF n = 0 THEN h ELSE HeapPop(heaps[n - 1])
  IN  [n \in 1 .. Len(h) |-> heaps[n - 1][1]]
ASSUME HeapSorts ==
  \A values \in Permutations(1 .. 6) :
    Sorted(FoldLeft(HeapPush, <<>>, [n \in 1 .. 6 |-> values[n]])) = [n \in 1 .. 6 |-> n]

Symmetry == Permutations(Pids) \cup Permutations(Names) \cup Permutations(Sites)
=============================================================================
