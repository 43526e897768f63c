----------------------------- MODULE SyncPolicy -----------------------------
(***************************************************************************)
(* The synchronization policy (analyze_synchronization in src/analysis.c)  *)
(* as a fold over records: what a record adds to the locks held, the waits *)
(* and the findings, and what the state at the end says of deadlocks.      *)
(*                                                                         *)
(* A record has the class of its resource, its operation, the thread (pid  *)
(* and context), the resource without the "@thread" of its holder, and the *)
(* related resource.  Items that are no longer active are left out: they   *)
(* are never looked at again.  A finding is added once for an identifier   *)
(* and its evidence (add_sync_finding), so the findings are a set.         *)
(***************************************************************************)
EXTENDS Integers, Sequences, FiniteSets, SequencesExt

\* held_class and synchronization_class.
Held(r) == r.class = "held"
Waits == {"lock-wait", "condition-wait", "join-wait"}
Synchronization(r) ==
  Held(r) \/ r.class \in Waits
  \/ r.class \in {"mutex", "terminal-attempt", "joinable-thread", "blocking-operation"}

Finding(id, from, to) == [id |-> id, from |-> from, to |-> to]

Unanalyzed ==
  [held |-> <<>>,         \* held: the locks held, the latest last
   waits |-> <<>>,        \* waits: [thread, resource, target, join], the latest last
   terminated |-> {},     \* terminated: [resource, thread], never withdrawn
   lock_edges |-> <<>>,   \* lock_edges: [from, to], one for each pair ever nested
   found |-> {}]          \* the findings of this policy

With(s, fs) == [s EXCEPT !.found = @ \cup fs]

\* The latest of the items of a sequence that Is picks out; 0 if none.
Latest(items, Is(_)) == Max({k \in DOMAIN items : Is(items[k])} \cup {0})
Without(items, k) == IF k = 0 THEN items ELSE RemoveAt(items, k)

LatestHeld(s, thread) == Latest(s.held, LAMBDA h : h.thread = thread)
\* The finding about the lock the thread acquired last, if it holds any.
WhileHolding(s, id, r) ==
  LET k == LatestHeld(s, r.thread)
  IN  IF k = 0 THEN {} ELSE {Finding(id, s.held[k].resource, r.resource)}

\* sync_reaches: the search finds a path along the edges, also the empty one.
Reaches_slip(edges, start, target) == <<start, target>> \in edges
Reaches(edges, start, target) ==
  LET reached[n \in 0 .. Cardinality(edges)] ==
        IF n = 0 THEN {start}
        ELSE reached[n - 1] \cup {e[2] : e \in {d \in edges : d[1] \in reached[n - 1]}}
  IN  target \in reached[Cardinality(edges)]

Pairs(edges) == {<<e.from, e.to>> : e \in ToSet(edges)}

\* A lock is acquired: an edge from every lock of the thread to it, and a
\* finding for each that the new lock already leads back to.
LockAcquired(s, r) ==
  LET mine == {k \in DOMAIN s.held : s.held[k].thread = r.thread /\ s.held[k].resource # r.resource}
      \* Each edge joins the graph before the next is looked at.
      Before(k) == Pairs(s.lock_edges) \cup {<<s.held[j].resource, r.resource>> : j \in {i \in mine : i < k}}
      cycles == {k \in mine : Reaches(Before(k), r.resource, s.held[k].resource)}
  IN  [With(s, {Finding("SYNC-001", s.held[k].resource, r.resource) : k \in cycles}) EXCEPT
         !.lock_edges = @ \o FlattenSeq([k \in DOMAIN s.held |->
            IF k \in mine THEN <<[from |-> s.held[k].resource, to |-> r.resource]>> ELSE <<>>]),
         !.held = Append(@, [thread |-> r.thread, resource |-> r.resource])]

\* A lock is released, out of order if another was acquired later.
LockReleased_slip(s, r) ==
  LET top == LatestHeld(s, r.thread)
  IN  With(s, IF top # 0 /\ s.held[top].resource # r.resource
              THEN WhileHolding(s, "SYNC-004", r) ELSE {})
LockReleased(s, r) ==
  LET top == LatestHeld(s, r.thread)
      this == Latest(s.held, LAMBDA h : h.thread = r.thread /\ h.resource = r.resource)
  IN  [With(s, IF top # 0 /\ s.held[top].resource # r.resource
               THEN WhileHolding(s, "SYNC-004", r) ELSE {})
         EXCEPT !.held = Without(@, this)]

\* A wait begins.  A join is filed under the thread that joins, a condition
\* wait has the mutex it gives back as its target.
WaitBegun(s, r) ==
  LET wait == CASE r.class = "join-wait" ->
                     [thread |-> r.resource, resource |-> r.resource, target |-> r.related, join |-> TRUE]
                [] r.class = "condition-wait" ->
                     [thread |-> r.thread, resource |-> r.resource, target |-> r.related, join |-> FALSE]
                [] OTHER ->
                     [thread |-> r.thread, resource |-> r.resource, target |-> "", join |-> FALSE]
      mixed == /\ r.class = "condition-wait"
               /\ \E w \in ToSet(s.waits) : w.resource = wait.resource /\ w.target # wait.target
      found == (IF wait.join THEN WhileHolding(s, "SYNC-005", r) ELSE {})
               \cup (IF mixed THEN {Finding("SYNC-009", wait.resource, wait.target)} ELSE {})
  IN  [With(s, found) EXCEPT !.waits = Append(@, wait)]

WaitEnded_slip(s, r) == s
WaitEnded(s, r) ==
  LET waiter == IF r.class = "join-wait" THEN r.resource ELSE r.thread
  IN  [s EXCEPT !.waits =
         Without(@, Latest(@, LAMBDA w : w.thread = waiter /\ w.resource = r.resource))]

\* A mutex is destroyed: whoever holds it or waits with it is evidence.
MutexDestroyed_slip(s, r) ==
  With(s, {Finding("SYNC-007", r.resource, h.thread) :
             h \in {x \in ToSet(s.held) : x.resource = r.resource}})
MutexDestroyed(s, r) ==
  With(s, {Finding("SYNC-007", r.resource, x.thread) :
             x \in {h \in ToSet(s.held) : h.resource = r.resource}
                   \cup {w \in ToSet(s.waits) : r.resource \in {w.resource, w.target}}})

\* One record of the loop in analyze_synchronization.
SyncStep(s, r) ==
  CASE r.class = "mutex" -> IF r.op = "RELEASE" THEN MutexDestroyed(s, r) ELSE s
    [] r.class = "terminal-attempt" ->
         With(s, {Finding("SYNC-008", r.resource, e.thread) :
                    e \in {x \in s.terminated : x.resource = r.resource}})
    [] r.class = "joinable-thread" ->
         IF r.op = "RELEASE"
         THEN [s EXCEPT !.terminated = @ \cup {[resource |-> r.resource, thread |-> r.thread]}]
         ELSE s
    [] r.class = "blocking-operation" -> With(s, WhileHolding(s, "SYNC-010", r))
    [] Held(r) /\ r.op = "ACQUIRE" -> LockAcquired(s, r)
    [] Held(r) /\ r.op = "RELEASE" -> LockReleased(s, r)
    [] r.class \in Waits /\ r.op = "ACQUIRE" -> WaitBegun(s, r)
    [] r.class \in Waits /\ r.op = "RELEASE" -> WaitEnded(s, r)
    [] OTHER -> s

Analyzed(s, records) ==
  LET after[k \in 0 .. Len(records)] ==
        IF k = 0 THEN s ELSE SyncStep(after[k - 1], records[k])
  IN  after[Len(records)]

\* The graphs of the waits that are left at the end: a join waits for the
\* thread it joins, a wait for a lock for everyone who holds the lock.
JoinEdges(s) == {<<w.thread, w.target>> : w \in {x \in ToSet(s.waits) : x.join}}
WaitEdges(s) ==
  FlattenSeq([k \in DOMAIN s.waits |->
    LET w == s.waits[k]
    IN  IF w.join THEN <<[from |-> w.thread, to |-> w.target]>>
        ELSE FlattenSeq([j \in DOMAIN s.held |->
               IF s.held[j].resource = w.resource
               THEN <<[from |-> w.thread, to |-> s.held[j].thread]>> ELSE <<>>])])

\* What the end of the records adds: the joins that lead back to themselves,
\* and of every other wait the first edge that does.
AtEnd(s) ==
  LET edges == WaitEdges(s)
      Back(w) == {k \in DOMAIN edges : edges[k].from = w.thread
                                       /\ Reaches(Pairs(edges), edges[k].to, w.thread)}
  IN  {Finding("SYNC-003", w.thread, w.target) :
         w \in {x \in ToSet(s.waits) : x.join /\ Reaches(JoinEdges(s), x.target, x.thread)}}
      \cup {Finding("SYNC-002", w.thread, edges[Min(Back(w))].to) :
         w \in {x \in ToSet(s.waits) : ~x.join /\ Back(x) # {}}}
=============================================================================
