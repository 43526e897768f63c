----------------------------- MODULE LeastOrder -----------------------------
(***************************************************************************)
(* What the causal order of an analysis promises: the nodes of a graph are *)
(* placed one at a time, always the least of those whose predecessors are  *)
(* all placed; when none is left, the order is complete or the graph is    *)
(* refused as cyclic.  No queue, no counters of predecessors.              *)
(***************************************************************************)
EXTENDS Naturals, Sequences, FiniteSets

VARIABLES
  size,     \* the nodes are 1 .. size
  arcs,     \* the pairs <<i, j>> of nodes, i before j
  order,    \* the nodes placed
  verdict   \* "none", "open", "complete" or "cyclic"

placing == <<size, arcs, order, verdict>>

Placed == {order[k] : k \in 1 .. Len(order)}
Waiting == {a[2] : a \in {b \in arcs : b[1] \notin Placed}}
Ready == (1 .. size) \ (Placed \cup Waiting)

Init == size = 0 /\ arcs = {} /\ order = <<>> /\ verdict = "none"

Begin ==
  /\ verdict = "none"
  /\ size' \in Nat /\ arcs' \subseteq (1 .. size') \X (1 .. size')
  /\ order' = <<>> /\ verdict' = "open"

Place ==
  /\ verdict = "open"
  /\ LET ready == Ready
     IN  \E i \in ready : (\A j \in ready : i <= j) /\ order' = Append(order, i)
  /\ UNCHANGED <<size, arcs, verdict>>

Decide ==
  /\ verdict = "open" /\ Ready = {}
  /\ verdict' = IF Len(order) = size THEN "complete" ELSE "cyclic"
  /\ UNCHANGED <<size, arcs, order>>

Next == Begin \/ Place \/ Decide

Spec == Init /\ [][Next]_placing

-----------------------------------------------------------------------------
\* The head of an arc is placed after its tail, and no node twice.
Forward ==
  /\ \A a \in arcs, k \in 1 .. Len(order) :
       order[k] = a[2] => \E j \in 1 .. k - 1 : order[j] = a[1]
  /\ \A j, k \in 1 .. Len(order) : order[j] = order[k] => j = k

\* What the verdict on an order means (trouble in build_causal_order): a
\* complete order has every node; a cyclic one lacks some, each of which waits
\* for another that it lacks.
VerdictSound ==
  /\ verdict = "complete" => Forward /\ Placed = 1 .. size
  /\ verdict = "cyclic" =>
       LET left == (1 .. size) \ Placed
       IN  left # {} /\ \A i \in left : \E a \in arcs : a[1] \in left /\ a[2] = i
=============================================================================
