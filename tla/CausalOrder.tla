---------------------------- MODULE CausalOrder ----------------------------
(***************************************************************************)
(* The first step of p101_tool_analysis_run (src/analysis.c): the nodes of *)
(* a finished model are put into one order that keeps every edge and the   *)
(* sequence of every context, the oldest node first where there is a       *)
(* choice.  The loop takes the least ready node from a binary heap; nodes  *)
(* on a cycle never get ready, and the analysis carries on without any     *)
(* order.  TracePolicy adds the next step.                                 *)
(***************************************************************************)
EXTENDS CausalModel

VARIABLES
  stage,          \* how far the run is: "none", "ordering", "ordered", "unordered" when
                  \* memory ran out, and those of TracePolicy
  heap,           \* heap up to heap_size, slots from 1
  indegree,       \* indegree
  ordered,        \* analysis->ordered up to emitted, as indices of nodes
  ordered_count,  \* analysis->ordered_count
  trouble         \* analysis->trouble

ordering == <<stage, heap, indegree, ordered, ordered_count, trouble>>

\* ordered_node_compare within one context: by sequence number, then age.
Earlier(ns, i, j) ==
  \/ ns[i].seq < ns[j].seq
  \/ ns[i].seq = ns[j].seq /\ i < j
\* The node after i in its context, if any: the arcs added after the sort.
ContextNext_slip(ns, i) ==
  {j \in {i + 1} \cap 1 .. Len(ns) : SameContext(ns[i], ns[j]) /\ Earlier(ns, i, j)}
ContextNext(ns, i) ==
  {j \in 1 .. Len(ns) :
     /\ SameContext(ns[i], ns[j]) /\ Earlier(ns, i, j)
     /\ ~\E k \in 1 .. Len(ns) :
          SameContext(ns[i], ns[k]) /\ Earlier(ns, i, k) /\ Earlier(ns, k, j)}

\* add_arc: no arc to itself, none twice, the newest first.
AddArc(targets, from, to) ==
  IF from = to \/ to \in ToSet(targets) THEN targets ELSE <<to>> \o targets

\* The list heads[i]: the arcs out of node i in the order they are followed.
WithEdge(targets, i, e) == IF e.from = i THEN AddArc(targets, i, e.to) ELSE targets
ArcsFrom(ns, es, i) ==
  LET linked[k \in 0 .. Len(es)] == IF k = 0 THEN <<>> ELSE WithEdge(linked[k - 1], i, es[k])
      next == ContextNext(ns, i)
  IN  IF next = {} THEN linked[Len(es)]
      ELSE AddArc(linked[Len(es)], i, CHOOSE j \in next : TRUE)

\* A turn of the loops below moves a value from place at to place to; the
\* value is written to the hole it leaves, which the code does after the loop.
Moved(s, to) == [heap |-> [s.heap EXCEPT ![s.at] = s.heap[to], ![to] = s.heap[s.at]], at |-> to]

\* heap_push: the value rises until its parent is no larger.
Rise(s) ==
  IF s.at > 1 /\ s.heap[s.at \div 2] > s.heap[s.at] THEN Moved(s, s.at \div 2) ELSE s
HeapPush(h, value) ==
  LET size == Len(h) + 1
      risen[k \in 0 .. size] ==
        IF k = 0 THEN [heap |-> Append(h, value), at |-> size] ELSE Rise(risen[k - 1])
  IN  risen[size].heap

\* heap_pop, without the root: the last value sinks along the smaller children.
Child(h, i) == IF 2 * i + 1 <= Len(h) /\ h[2 * i + 1] < h[2 * i] THEN 2 * i + 1 ELSE 2 * i
Sink(s) ==
  IF 2 * s.at <= Len(s.heap) /\ s.heap[Child(s.heap, s.at)] < s.heap[s.at]
  THEN Moved(s, Child(s.heap, s.at)) ELSE s
HeapPop(h) ==
  LET size == Len(h) - 1
      sunk[k \in 0 .. size] ==
        IF k = 0 THEN [heap |-> [i \in 1 .. size |-> IF i = 1 THEN h[Len(h)] ELSE h[i]], at |-> 1]
        ELSE Sink(sunk[k - 1])
  IN  sunk[size].heap

\* The nodes among is that wait for nothing any more join the heap.
Join_slip(h, waits, i) == IF waits[i] <= 1 THEN HeapPush(h, i) ELSE h
Join(h, waits, i) == IF waits[i] = 0 THEN HeapPush(h, i) ELSE h
WithReady(h, waits, is) ==
  LET joined[k \in 0 .. Len(is)] == IF k = 0 THEN h ELSE Join(joined[k - 1], waits, is[k])
  IN  joined[Len(is)]

-----------------------------------------------------------------------------
OrderInit ==
  /\ stage = "none"
  /\ heap = <<>> /\ indegree = <<>>
  /\ ordered = <<>> /\ ordered_count = 0
  /\ trouble = FALSE

\* p101_tool_analysis_run on a finished model, once: the arrays are allocated
\* and the nodes without a predecessor are ready, oldest first.
StartOrder ==
  /\ finished /\ stage = "none"
  /\ stage' = "ordering"
  /\ indegree' = [i \in 1 .. Len(nodes) |->
                    Cardinality({j \in 1 .. Len(nodes) : i \in ToSet(ArcsFrom(nodes, edges, j))})]
  /\ heap' = WithReady(<<>>, indegree', [i \in 1 .. Len(nodes) |-> i])
  /\ UNCHANGED <<ordered, ordered_count, trouble>>

\* One turn of the loop: the least ready node is next, and its successors each
\* wait for one predecessor less.
Emit ==
  /\ stage = "ordering" /\ heap # <<>>
  /\ LET current == heap[1]
         arcs == ArcsFrom(nodes, edges, current)
     IN  /\ ordered' = Append(ordered, current)
         /\ indegree' = [i \in 1 .. Len(nodes) |->
                           indegree[i] - Cardinality({k \in DOMAIN arcs : arcs[k] = i})]
         /\ heap' = WithReady(HeapPop(heap), indegree', arcs)
  /\ UNCHANGED <<stage, ordered_count, trouble>>

\* Nothing is ready.  A node that is left lies on or behind a cycle: that is
\* trouble, and the run goes on with no order at all.
Complete_slip(emitted) == TRUE
Complete(emitted) == Len(emitted) = Len(nodes)
OrderDone ==
  /\ stage = "ordering" /\ heap = <<>>
  /\ trouble' = ~Complete(ordered)
  /\ ordered_count' = IF Complete(ordered) THEN Len(ordered) ELSE 0
  /\ stage' = "ordered"
  /\ UNCHANGED <<heap, indegree, ordered>>

\* No memory for one of the arrays: ordered exists, so no other run may follow.
\* (Without memory for ordered itself, nothing changes and run may be retried.)
StartFails ==
  /\ finished /\ stage = "none"
  /\ stage' = "unordered"
  /\ UNCHANGED <<heap, indegree, ordered, ordered_count, trouble>>

OrderNext == UNCHANGED model /\ (StartOrder \/ Emit \/ OrderDone \/ StartFails)

-----------------------------------------------------------------------------
Position(i) == CHOOSE k \in 1 .. ordered_count : ordered[k] = i

\* The order that the policies walk has every node once, keeps every edge of
\* the model and the numbers of every context; a walk without order is
\* announced as trouble (build_causal_order).
OrderExact ==
  stage \in {"ordered", "traced"} =>
    IF trouble THEN ordered_count = 0
    ELSE /\ ordered_count = Len(nodes)
         /\ ToSet(ordered) = 1 .. Len(nodes)
         /\ \A e \in ToSet(edges) : Position(e.from) < Position(e.to)
         /\ \A i, j \in 1 .. Len(nodes) :
              SameContext(nodes[i], nodes[j]) /\ nodes[i].seq < nodes[j].seq =>
                Position(i) < Position(j)

\* The analysis gets into trouble over the order exactly when the forks name
\* parents in a circle: calls, lifetimes and sequence numbers never do.
TroubleExact == stage \in {"ordered", "traced"} => (trouble <=> Circular(nodes))

\* The heap and its counters place the least ready node every time: the loop
\* implements LeastOrder (heap_push, heap_pop, the arcs followed by the loop).
Abstract ==
  INSTANCE LeastOrder WITH
    size <- IF stage \in {"none", "unordered"} THEN 0 ELSE Len(nodes),
    arcs <- IF stage \in {"none", "unordered"} THEN {}
            ELSE {<<e.from, e.to>> : e \in ToSet(edges)}
                 \cup UNION {{<<i, j>> : j \in ContextNext(nodes, i)} : i \in 1 .. Len(nodes)},
    order <- ordered,
    verdict <- CASE stage = "none" -> "none"
                 [] stage = "unordered" -> "none"
                 [] stage = "ordering" -> "open"
                 [] trouble -> "cyclic"
                 [] OTHER -> "complete"
PlacesLeast == Abstract!Spec
=============================================================================
