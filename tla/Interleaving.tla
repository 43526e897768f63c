---------------------------- MODULE Interleaving ----------------------------
(***************************************************************************)
(* The walk over alternative schedules                                     *)
(* (p101_tool_analysis_write_interleaving in src/analysis.c): starting     *)
(* from the order of the analysis it swaps neighbouring synchronization    *)
(* events of different threads, breadth first, until a schedule shows a    *)
(* finding that no prefix of the recorded order shows, or until the limit. *)
(*                                                                         *)
(* The order is built record by record: any run of one process in which a  *)
(* lock is taken when it is free and released by its holder.               *)
(***************************************************************************)
EXTENDS SyncPolicy

CONSTANTS
  Threads, Mutexes,
  Classes,        \* the resource classes that occur, "other" for the rest
  Unmarked,       \* the classes whose records carry no thread as metadata
  MaxNodes,       \* bound: records in the order
  schedule_limit  \* the limit the caller asks for

ASSUME InterleavingAssumption ==
  /\ Unmarked \subseteq Classes
  /\ MaxNodes \in Nat /\ schedule_limit \in Nat \ {0}

VARIABLES
  phase,        \* "recording", "walking", "done" or "failed"
  log,          \* analysis->ordered: the records in the recorded order
  edges,        \* the model's edges between them, as pairs of positions
  orders,       \* the schedules found: sequences of positions of log
  parents,      \* the schedule each was made from, 0 for the first
  swaps,        \* the two positions that were swapped for it
  queue_index,  \* the schedule whose neighbours are looked at
  index,        \* the place in it
  fresh         \* the findings of the counterexample, if there is one

walk == <<orders, parents, swaps, queue_index, index, fresh>>
vars == <<phase, log, edges, walk>>

\* The records: a held lock or a wait names its thread in its identity too.
Record(class, op, thread, resource) ==
  [class |-> class, op |-> op, thread |-> thread, resource |-> resource, related |-> "",
   metadata |-> IF class \in Unmarked THEN "-" ELSE thread]
TwoThreads == {p \in Threads \X Threads : p[1] # p[2]}  \* a thread and one it creates, joins or detaches
Records ==
  {r \in {Record("held", op, t, m) : op \in {"ACQUIRE", "RELEASE"}, t \in Threads, m \in Mutexes}
         \cup {Record("lock-wait", op, t, m) : op \in {"ACQUIRE", "RELEASE"}, t \in Threads, m \in Mutexes}
         \cup {Record("mutex", op, t, m) : op \in {"ACQUIRE", "RELEASE"}, t \in Threads, m \in Mutexes}
         \cup {Record("joinable-thread", op, p[1], p[2]) : op \in {"ACQUIRE", "RELEASE"}, p \in TwoThreads}
         \cup {Record("terminal-attempt", "USE", p[1], p[2]) : p \in TwoThreads}
         \cup {Record(class, "USE", t, "read") : class \in {"blocking-operation", "other"}, t \in Threads}
     : r.class \in Classes}

SameResource(r, q) == r.class = q.class /\ r.resource = q.resource
HeldNow(records, r) ==
  {k \in DOMAIN records :
     /\ SameResource(records[k], r) /\ records[k].op = "ACQUIRE"
     /\ ~\E j \in k + 1 .. Len(records) : SameResource(records[j], r) /\ records[j].op = "RELEASE"}
Possible(records, r) ==
  r.class \in {"held", "lock-wait"} =>
    IF r.op = "ACQUIRE" THEN r.class = "lock-wait" \/ HeldNow(records, r) = {}
    ELSE \E k \in HeldNow(records, r) : records[k].thread = r.thread

\* The lifetime edges: an acquisition and the release that ends it.  Between
\* threads the edge is there only if their sequence numbers happen to allow it.
Ended(records, i, j) ==
  /\ i < j /\ SameResource(records[i], records[j])
  /\ records[i].op = "ACQUIRE" /\ records[j].op = "RELEASE"
  /\ ~\E k \in i + 1 .. j - 1 :
       SameResource(records[k], records[i]) /\ records[k].op = "RELEASE"
Lifetimes(records) == {p \in (DOMAIN records) \X (DOMAIN records) : Ended(records, p[1], p[2])}
Within(records, pairs) == {p \in pairs : records[p[1]].thread = records[p[2]].thread}

-----------------------------------------------------------------------------
\* interleaving_node.
interleaving_node(i) == Synchronization(log[i])

\* same_sync_thread: by the metadata where both records have some, and "-" is
\* some; all records are of one process here.
same_sync_thread(i, j) == log[i].metadata = log[j].metadata

\* directly_ordered: an edge of the model from one to the other.
directly_ordered_slip(i, j) == <<j, i>> \in edges
directly_ordered(i, j) == <<i, j>> \in edges

Swappable(i, j) ==
  /\ interleaving_node(i) /\ interleaving_node(j)
  /\ ~same_sync_thread(i, j)
  /\ ~directly_ordered(i, j)

\* The neighbour of a schedule with places k and k + 1 swapped.
Swapped(order, k) == [order EXCEPT ![k] = order[k + 1], ![k + 1] = order[k]]

\* collect_prefix_sync_keys: the findings of every prefix of a schedule.
PrefixKeys(records, order) ==
  LET state[k \in 0 .. Len(order)] ==
        IF k = 0 THEN Unanalyzed
        ELSE IF Synchronization(records[order[k]]) THEN SyncStep(state[k - 1], records[order[k]])
        ELSE state[k - 1]
  IN  state[Len(order)].found \cup UNION {AtEnd(state[k]) : k \in 1 .. Len(order)}
Keys(order) == PrefixKeys(log, order)
Recorded == [k \in DOMAIN log |-> k]
baseline == Keys(Recorded)

-----------------------------------------------------------------------------
Init ==
  /\ phase = "recording"
  /\ log = <<>> /\ edges = {}
  /\ orders = <<>> /\ parents = <<>> /\ swaps = <<>>
  /\ queue_index = 1 /\ index = 1
  /\ fresh = {}

Observe(r) ==
  /\ phase = "recording" /\ Len(log) < MaxNodes
  /\ Possible(log, r)
  /\ log' = Append(log, r)
  /\ UNCHANGED <<phase, edges, walk>>

Begin ==
  /\ phase = "recording"
  /\ \E across \in SUBSET (Lifetimes(log) \ Within(log, Lifetimes(log))) :
       edges' = Within(log, Lifetimes(log)) \cup across
  /\ orders' = <<Recorded>> /\ parents' = <<0>> /\ swaps' = <<<<0, 0>>>>
  /\ phase' = "walking"
  /\ UNCHANGED <<log, queue_index, index, fresh>>

Going_slip == queue_index < Len(orders) /\ Len(orders) < schedule_limit /\ fresh = {}
Going == queue_index <= Len(orders) /\ Len(orders) < schedule_limit /\ fresh = {}
Candidate == Swapped(orders[queue_index], index)
New ==
  /\ Swappable(orders[queue_index][index], orders[queue_index][index + 1])
  /\ Candidate \notin ToSet(orders)

\* A schedule not seen before: it is kept with the way it was reached, and its
\* findings are compared with those of the recorded order.
Parent_slip(current) == Len(orders)
Parent(current) == current
Explore ==
  /\ phase = "walking" /\ Going /\ index < Len(log)
  /\ New
  /\ orders' = Append(orders, Candidate)
  /\ parents' = Append(parents, Parent(queue_index))
  /\ swaps' = Append(swaps, <<orders[queue_index][index], orders[queue_index][index + 1]>>)
  /\ fresh' = Keys(Candidate) \ baseline
  /\ index' = index + 1
  /\ UNCHANGED <<phase, log, edges, queue_index>>

Skip ==
  /\ phase = "walking" /\ Going /\ index < Len(log)
  /\ ~New
  /\ index' = index + 1
  /\ UNCHANGED <<phase, log, edges, orders, parents, swaps, queue_index, fresh>>

NextSchedule ==
  /\ phase = "walking" /\ Going /\ index >= Len(log)
  /\ queue_index' = queue_index + 1 /\ index' = 1
  /\ UNCHANGED <<phase, log, edges, orders, parents, swaps, fresh>>

Finish ==
  /\ phase = "walking" /\ ~Going
  /\ phase' = "done"
  /\ UNCHANGED <<log, edges, walk>>

\* No memory for a schedule or its findings, or the stream cannot be written.
Fail ==
  /\ phase = "walking" /\ Going
  /\ phase' = "failed"
  /\ UNCHANGED <<log, edges, walk>>

Next ==
  \/ \E r \in Records : Observe(r)
  \/ Begin \/ Explore \/ Skip \/ NextSchedule \/ Finish \/ Fail

Spec == Init /\ [][Next]_vars

-----------------------------------------------------------------------------
Place(order, i) == CHOOSE k \in DOMAIN order : order[k] = i
Keeps(order, pairs) == \A p \in pairs : Place(order, p[1]) < Place(order, p[2])
LocalOrder ==
  {p \in (DOMAIN log) \X (DOMAIN log) : p[1] < p[2] /\ log[p[1]].thread = log[p[2]].thread}

\* The walk never turns the order of a thread (the last of the blind spots the
\* report names, src/analysis.c:2396).
LocalOrderKept == \A a \in DOMAIN orders : Keeps(orders[a], LocalOrder)

\* However many swaps lead to a schedule, it has every event once, keeps every
\* recorded edge and the order of every thread, and was not explored before
\* (same_sync_thread, directly_ordered, schedule_seen): only neighbours are
\* tested, and only for a direct edge.
SchedulesLegal ==
  /\ Len(orders) <= schedule_limit
  /\ \A a, b \in DOMAIN orders : orders[a] = orders[b] => a = b
  /\ \A a \in DOMAIN orders :
       /\ ToSet(orders[a]) = DOMAIN log
       /\ Keeps(orders[a], edges)
  /\ LocalOrderKept

\* A walk that ends by itself, under its limit and without a counterexample,
\* has seen every legal schedule, so that none of them has a new finding.
Exhaustive ==
  phase = "done" /\ fresh = {} /\ Len(orders) < schedule_limit =>
    \A p \in {q \in [DOMAIN log -> DOMAIN log] :
                /\ \A i \in DOMAIN log : \E k \in DOMAIN log : q[k] = i
                /\ \A k \in DOMAIN log : ~interleaving_node(k) => q[k] = k
                /\ \A k \in DOMAIN log : ~interleaving_node(k) =>
                     \A j \in DOMAIN log : j < k => q[j] < k} :
      Keeps(p, edges) /\ Keeps(p, LocalOrder) => p \in ToSet(orders) /\ Keys(p) \subseteq baseline

\* The schedules a reader gets who makes the swaps reported: the recorded order,
\* or the schedule of the parent with its two neighbours swapped.
BySwaps[a \in DOMAIN orders] ==
  IF parents[a] = 0 THEN Recorded
  ELSE LET before == BySwaps[parents[a]]
           here == {k \in 1 .. Len(log) - 1 : <<before[k], before[k + 1]>> = swaps[a]}
       IN  IF here = {} THEN before ELSE Swapped(before, Min(here))

\* The swaps reported for a counterexample, made from first to last on the
\* recorded order, each on neighbours, give a schedule with the findings
\* reported; and it is the first such schedule (parents, swap_left, swap_right).
CounterexampleReplays ==
  fresh # {} =>
    /\ BySwaps[Len(orders)] = orders[Len(orders)]
    /\ fresh = Keys(orders[Len(orders)]) \ baseline
    /\ \A a \in 1 .. Len(orders) - 1 : Keys(orders[a]) \subseteq baseline
=============================================================================
