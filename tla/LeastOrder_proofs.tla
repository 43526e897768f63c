------------------------- MODULE LeastOrder_proofs -------------------------
(***************************************************************************)
(* Proofs about LeastOrder: for a graph of any size, the order keeps every *)
(* arc, and both verdicts are right.                                       *)
(***************************************************************************)
EXTENDS LeastOrder, FiniteSetTheorems, TLAPS

\* The state of the abstract order has its type; nothing is placed before a
\* graph is given.
OrderType ==
  /\ size \in Nat
  /\ arcs \subseteq (1 .. size) \X (1 .. size)
  /\ order \in Seq(1 .. size)
  /\ verdict \in {"none", "open", "complete", "cyclic"}

\* What is ready waits for nothing that is not placed.
LEMMA ReadyIsFree ==
  ASSUME NEW i \in Ready
  PROVE  /\ i \in 1 .. size /\ i \notin Placed
         /\ \A a \in arcs : a[2] = i => a[1] \in Placed
<1>1. i \in 1 .. size /\ i \notin Placed /\ i \notin Waiting
  BY DEF Ready
<1>2. ASSUME NEW a \in arcs, a[2] = i PROVE a[1] \in Placed
  BY <1>1, <1>2 DEF Waiting
<1> QED
  BY <1>1, <1>2

\* A node that is neither placed nor ready waits for one that is not placed.
LEMMA UnreadyWaits ==
  ASSUME OrderType, Ready = {}, NEW i \in (1 .. size) \ Placed
  PROVE  \E a \in arcs : a[1] \in (1 .. size) \ Placed /\ a[2] = i
<1>1. i \in Waiting
  BY DEF Ready
<1>2. PICK a \in arcs : a[1] \notin Placed /\ a[2] = i
  BY <1>1 DEF Waiting
<1>3. a[1] \in 1 .. size
  BY DEF OrderType
<1> QED
  BY <1>2, <1>3

\* An order without repetition is complete exactly if it is as long as there
\* are nodes.
LEMMA FullIsComplete ==
  ASSUME OrderType, Forward
  PROVE  Len(order) = size <=> Placed = 1 .. size
<1>1. order \in [1 .. Len(order) -> 1 .. size]
  BY DEF OrderType
<1>2. order \in Injection(1 .. Len(order), 1 .. size)
  BY <1>1 DEF Forward, Injection, IsInjective
<1>3. IsFiniteSet(1 .. size) /\ Cardinality(1 .. size) = size
  BY FS_Interval DEF OrderType
<1>4. Len(order) \in Nat /\ Cardinality(1 .. Len(order)) = Len(order)
  <2>1. Len(order) \in Nat
    BY DEF OrderType
  <2>2. Cardinality(1 .. Len(order)) = IF 1 > Len(order) THEN 0 ELSE Len(order) - 1 + 1
    BY <2>1, FS_Interval, 1 \in Int, Len(order) \in Int
  <2> QED
    BY <2>1, <2>2
<1>5. Len(order) = size <=> order \in Surjection(1 .. Len(order), 1 .. size)
  BY <1>2, <1>3, <1>4, FS_Injection
<1>6. order \in Surjection(1 .. Len(order), 1 .. size) <=> Placed = 1 .. size
  BY <1>1 DEF Surjection, Placed
<1> QED
  BY <1>5, <1>6

\* The parts of the abstract state keep their types.
THEOREM OrderTyped == Spec => []OrderType
<1>1. Init => OrderType
  BY DEF Init, OrderType
<1>2. OrderType /\ [Next]_placing => OrderType'
  <2> SUFFICES ASSUME OrderType, [Next]_placing PROVE OrderType'
    OBVIOUS
  <2>1. CASE Begin
    BY <2>1 DEF Begin, OrderType
  <2>2. CASE Place
    <3>1. PICK i \in Ready : order' = Append(order, i)
      BY <2>2 DEF Place
    <3>2. i \in 1 .. size
      BY ReadyIsFree
    <3> QED
      BY <2>2, <3>1, <3>2 DEF Place, OrderType
  <2>3. CASE Decide
    BY <2>3 DEF Decide, OrderType
  <2>4. CASE UNCHANGED placing
    BY <2>4 DEF placing, OrderType
  <2> QED
    BY <2>1, <2>2, <2>3, <2>4 DEF Next
<1> QED
  BY <1>1, <1>2, PTL DEF Spec

\* Placing a ready node keeps the arcs pointing forward.
LEMMA PlaceKeepsForward ==
  ASSUME OrderType, Forward, Place
  PROVE  Forward'
<1>1. PICK i \in Ready : order' = Append(order, i)
  BY DEF Place
<1> DEFINE n == Len(order)
<1>2. /\ n \in Nat /\ Len(order') = n + 1 /\ order'[n + 1] = i
      /\ \A k \in 1 .. n : order'[k] = order[k]
  BY <1>1 DEF OrderType
<1>3. /\ i \notin Placed
      /\ \A a \in arcs : a[2] = i => a[1] \in Placed
  BY ReadyIsFree
<1>4. \A k \in 1 .. n : order[k] # i
  BY <1>3 DEF Placed
<1>5. ASSUME NEW a \in arcs, NEW k \in 1 .. n + 1, order'[k] = a[2]
      PROVE  \E j \in 1 .. k - 1 : order'[j] = a[1]
  <2>1. CASE k = n + 1
    <3>1. a[1] \in Placed
      BY <1>2, <1>3, <1>5, <2>1
    <3>2. PICK j \in 1 .. n : order[j] = a[1]
      BY <3>1 DEF Placed
    <3> QED
      BY <1>2, <2>1, <3>2
  <2>2. CASE k \in 1 .. n
    <3>1. order[k] = a[2]
      BY <1>2, <1>5, <2>2
    <3>2. PICK j \in 1 .. k - 1 : order[j] = a[1]
      BY <2>2, <3>1 DEF Forward
    <3>3. j \in 1 .. n
      BY <1>2, <2>2
    <3> QED
      BY <1>2, <3>2, <3>3
  <2> QED
    BY <1>2, <2>1, <2>2
<1>6. ASSUME NEW j \in 1 .. n + 1, NEW k \in 1 .. n + 1, order'[j] = order'[k]
      PROVE  j = k
  <2>1. CASE j \in 1 .. n /\ k \in 1 .. n
    BY <1>2, <1>6, <2>1 DEF Forward
  <2>2. CASE j = n + 1 \/ k = n + 1
    BY <1>2, <1>4, <1>6, <2>2
  <2> QED
    BY <1>2, <2>1, <2>2
<1>7. arcs' = arcs
  BY DEF Place
<1> QED
  BY <1>2, <1>5, <1>6, <1>7 DEF Forward

\* The inductive invariant: Forward holds all the time, so that at the moment
\* of the verdict the length of the order decides.
VerdictInv == Forward /\ VerdictSound

\* For every graph the order respects the arcs, and the verdict is right: what
\* build_causal_order promises, the heap aside.
THEOREM VerdictCorrect == Spec => []VerdictInv
<1>1. Init => VerdictInv
  BY DEF Init, VerdictInv, Forward, VerdictSound
<1>2. OrderType /\ VerdictInv /\ [Next]_placing => VerdictInv'
  <2> SUFFICES ASSUME OrderType, VerdictInv, [Next]_placing PROVE VerdictInv'
    OBVIOUS
  <2> USE DEF VerdictInv
  <2>1. CASE Begin
    <3>1. Len(order') = 0 /\ verdict' = "open"
      BY <2>1 DEF Begin
    <3> QED
      BY <3>1 DEF Forward, VerdictSound
  <2>2. CASE Place
    <3>1. Forward'
      BY <2>2, PlaceKeepsForward
    <3>2. verdict' = "open"
      BY <2>2 DEF Place
    <3> QED
      BY <3>1, <3>2 DEF VerdictSound
  <2>3. CASE Decide
    <3>1. Forward' /\ Placed' = Placed /\ size' = size /\ arcs' = arcs
      BY <2>3 DEF Decide, Forward, Placed
    <3>2. CASE Len(order) = size
      <4>1. Placed = 1 .. size
        BY <3>2, FullIsComplete
      <4>2. verdict' = "complete"
        BY <2>3, <3>2 DEF Decide
      <4> QED
        BY <3>1, <4>1, <4>2 DEF VerdictSound
    <3>3. CASE Len(order) # size
      <4>1. Placed # 1 .. size /\ verdict' = "cyclic"
        BY <2>3, <3>3, FullIsComplete DEF Decide
      <4>2. Placed \subseteq 1 .. size
        BY DEF OrderType, Placed
      <4>3. (1 .. size) \ Placed # {}
        BY <4>1, <4>2
      <4>4. \A i \in (1 .. size) \ Placed :
              \E a \in arcs : a[1] \in (1 .. size) \ Placed /\ a[2] = i
        BY <2>3, UnreadyWaits DEF Decide
      <4> QED
        BY <3>1, <4>1, <4>3, <4>4 DEF VerdictSound
    <3> QED
      BY <3>2, <3>3
  <2>4. CASE UNCHANGED placing
    BY <2>4 DEF placing, Forward, VerdictSound, Placed
  <2> QED
    BY <2>1, <2>2, <2>3, <2>4 DEF Next
<1> QED
  BY <1>1, <1>2, OrderTyped, PTL DEF Spec
=============================================================================
