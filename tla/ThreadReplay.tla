---------------------------- MODULE ThreadReplay ----------------------------
(***************************************************************************)
(* Threads of one process that lock, wait, join and make the mistakes the  *)
(* synchronization policy looks for, and the policy fed with the records   *)
(* they publish.  The threads and their mutexes are external: they behave  *)
(* as POSIX threads do and publish what test/test_analysis.c shows, each   *)
(* operation together with its records.  The policy knows the records      *)
(* only; the properties compare it with what the threads really did.       *)
(***************************************************************************)
EXTENDS SyncPolicy

CONSTANTS
  Threads, Mutexes, Conditions,
  None,
  MaxRecords    \* bound: the records published

ASSUME ThreadAssumption ==
  /\ None \notin Threads \cup Mutexes
  \* The identities of threads, mutexes and conditions differ, and none is empty.
  /\ Threads \cap Mutexes = {} /\ Conditions \cap (Threads \cup Mutexes) = {}
  /\ "" \notin Mutexes
  /\ MaxRecords \in Nat

VARIABLES
  nest,       \* the mutexes each thread holds, the latest last
  blocked,    \* what each thread waits for: [on, what, mutex]
  exited,     \* the threads that ended
  consumer,   \* who joined or detached a thread
  reused,     \* the identities that a second thread got
  destroyed,  \* the mutexes destroyed
  nestings,   \* the pairs of mutexes some thread held one inside the other
  misuses,    \* the mistakes made, as findings
  sync,       \* the state of the policy
  published   \* the number of records it has read

threads == <<nest, blocked, exited, consumer, reused, destroyed, nestings, misuses>>
vars == <<threads, sync, published>>

Record(class, op, thread, resource, related) ==
  [class |-> class, op |-> op, thread |-> thread, resource |-> resource, related |-> related]
Publish(records) ==
  /\ published + Len(records) <= MaxRecords
  /\ published' = published + Len(records)
  /\ sync' = Analyzed(sync, records)

Free == [on |-> "nothing", what |-> None, mutex |-> None]
Runs(t) == t \notin exited /\ blocked[t] = Free
Holds(t, m) == m \in ToSet(nest[t])
Untaken(m) == \A t \in Threads : ~Holds(t, m)

\* The mistake of doing something while a mutex is held.
Holding(id, t, what) == IF nest[t] = <<>> THEN {} ELSE {Finding(id, Last(nest[t]), what)}
Nested(t, m) == {<<a, m>> : a \in ToSet(nest[t]) \ {m}}
DisorderlyRelease(t, m) == IF Last(nest[t]) = m THEN {} ELSE Holding("SYNC-004", t, m)
Dropped(t, m) == Without(nest[t], Latest(nest[t], LAMBDA a : a = m))

Init ==
  /\ nest = [t \in Threads |-> <<>>]
  /\ blocked = [t \in Threads |-> Free]
  /\ exited = {} /\ reused = {} /\ destroyed = {}
  /\ consumer = [t \in Threads |-> None]
  /\ nestings = {} /\ misuses = {}
  /\ sync = Unanalyzed /\ published = 0

\* pthread_mutex_lock: the wait is published before, the lock after it.  A
\* mutex its own thread holds already is not recursive.
Lock(t, m) ==
  /\ Runs(t) /\ m \notin destroyed
  /\ blocked' = [blocked EXCEPT ![t] = [on |-> "mutex", what |-> m, mutex |-> m]]
  /\ Publish(<<Record("lock-wait", "ACQUIRE", t, m, "")>>)
  /\ UNCHANGED <<nest, exited, consumer, reused, destroyed, nestings, misuses>>

\* The mutex waited for is free: the wait for it or for a condition ends.
Locked(t) ==
  LET b == blocked[t]
      m == b.mutex
  IN  /\ b.on \in {"mutex", "condition"} /\ Untaken(m) /\ m \notin destroyed
      /\ blocked' = [blocked EXCEPT ![t] = Free]
      /\ nest' = [nest EXCEPT ![t] = Append(@, m)]
      /\ nestings' = nestings \cup Nested(t, m)
      /\ Publish(<<Record(IF b.on = "mutex" THEN "lock-wait" ELSE "condition-wait", "RELEASE",
                          t, b.what, IF b.on = "mutex" THEN "" ELSE m),
                   Record("held", "ACQUIRE", t, m, "")>>)
      /\ UNCHANGED <<exited, consumer, reused, destroyed, misuses>>

TryLock(t, m) ==
  /\ Runs(t) /\ Untaken(m) /\ m \notin destroyed
  /\ nest' = [nest EXCEPT ![t] = Append(@, m)]
  /\ nestings' = nestings \cup Nested(t, m)
  /\ Publish(<<Record("held", "ACQUIRE", t, m, "")>>)
  /\ UNCHANGED <<blocked, exited, consumer, reused, destroyed, misuses>>

Unlock(t, m) ==
  /\ Runs(t) /\ Holds(t, m)
  /\ nest' = [nest EXCEPT ![t] = Dropped(t, m)]
  /\ misuses' = misuses \cup DisorderlyRelease(t, m)
  /\ Publish(<<Record("held", "RELEASE", t, m, "")>>)
  /\ UNCHANGED <<blocked, exited, consumer, reused, destroyed, nestings>>

\* pthread_cond_wait gives the mutex back; two waits for one condition with
\* different mutexes are a mistake of the later one.
Wait(t, c, m) ==
  /\ Runs(t) /\ Holds(t, m)
  /\ nest' = [nest EXCEPT ![t] = Dropped(t, m)]
  /\ blocked' = [blocked EXCEPT ![t] = [on |-> "condition", what |-> c, mutex |-> m]]
  /\ misuses' = misuses \cup DisorderlyRelease(t, m)
       \cup {Finding("SYNC-009", c, m) :
               u \in {x \in Threads : /\ blocked[x].on = "condition" /\ blocked[x].what = c
                                      /\ blocked[x].mutex # m}}
  /\ Publish(<<Record("held", "RELEASE", t, m, ""), Record("condition-wait", "ACQUIRE", t, c, m)>>)
  /\ UNCHANGED <<exited, consumer, reused, destroyed, nestings>>

\* A mutex is destroyed, by mistake while it is held or waited with.
Destroy(t, m) ==
  /\ Runs(t) /\ m \notin destroyed
  /\ destroyed' = destroyed \cup {m}
  /\ misuses' = misuses \cup
       {Finding("SYNC-007", m, u) : u \in {x \in Threads : Holds(x, m) \/ blocked[x].mutex = m}}
  /\ Publish(<<Record("mutex", "RELEASE", t, m, "")>>)
  /\ UNCHANGED <<nest, blocked, exited, consumer, reused, nestings>>

Block(t) ==
  /\ Runs(t)
  /\ misuses' = misuses \cup Holding("SYNC-010", t, "read")
  /\ Publish(<<Record("blocking-operation", "USE", t, "read", "")>>)
  /\ UNCHANGED <<nest, blocked, exited, consumer, reused, destroyed, nestings>>

\* A thread is joined, detached, or tried to be: once it is consumed that is
\* a mistake, and the call fails after its attempt is published.
Attempt(t, u) == Record("terminal-attempt", "USE", t, u, "")
Consumed(t, u) == Record("joinable-thread", "RELEASE", t, u, "")
Join(t, u) ==
  /\ Runs(t) /\ t # u /\ consumer[u] = None
  /\ blocked' = [blocked EXCEPT ![t] = [on |-> "join", what |-> u, mutex |-> None]]
  /\ misuses' = misuses \cup Holding("SYNC-005", t, t)
  /\ Publish(<<Attempt(t, u), Record("join-wait", "ACQUIRE", t, t, u)>>)
  /\ UNCHANGED <<nest, exited, consumer, reused, destroyed, nestings>>

\* The thread joined has ended; a second joiner comes away empty-handed.
Joined(t) ==
  LET u == blocked[t].what
  IN  /\ blocked[t].on = "join" /\ u \in exited
      /\ blocked' = [blocked EXCEPT ![t] = Free]
      /\ consumer' = [consumer EXCEPT ![u] = IF @ = None THEN t ELSE @]
      /\ Publish(<<Record("join-wait", "RELEASE", t, t, u)>>
                 \o (IF consumer[u] = None THEN <<Consumed(t, u)>> ELSE <<>>))
      /\ UNCHANGED <<nest, exited, reused, destroyed, nestings, misuses>>

Detach(t, u) ==
  /\ Runs(t) /\ consumer[u] = None
  /\ consumer' = [consumer EXCEPT ![u] = t]
  /\ Publish(<<Attempt(t, u), Consumed(t, u)>>)
  /\ UNCHANGED <<nest, blocked, exited, reused, destroyed, nestings, misuses>>

ConsumeAgain(t, u) ==
  /\ Runs(t) /\ consumer[u] # None
  /\ misuses' = misuses \cup {Finding("SYNC-008", u, consumer[u])}
  /\ Publish(<<Attempt(t, u)>>)
  /\ UNCHANGED <<nest, blocked, exited, consumer, reused, destroyed, nestings>>

Exit(t) ==
  /\ Runs(t)
  /\ exited' = exited \cup {t}
  /\ UNCHANGED <<nest, blocked, consumer, reused, destroyed, nestings, misuses, sync, published>>

\* A new thread with the identity of one that ended, was consumed and held
\* nothing any more.
Create(t, u) ==
  /\ Runs(t)
  /\ u \in exited /\ consumer[u] # None /\ nest[u] = <<>>
  /\ \A x \in Threads : blocked[x].what # u
  /\ exited' = exited \ {u}
  /\ consumer' = [consumer EXCEPT ![u] = None]
  /\ reused' = reused \cup {u}
  /\ Publish(<<Record("joinable-thread", "ACQUIRE", t, u, "")>>)
  /\ UNCHANGED <<nest, blocked, destroyed, nestings, misuses>>

Next ==
  \E t \in Threads :
    \/ \E m \in Mutexes : Lock(t, m) \/ TryLock(t, m) \/ Unlock(t, m) \/ Destroy(t, m)
    \/ \E m \in Mutexes, c \in Conditions : Wait(t, c, m)
    \/ \E u \in Threads : Join(t, u) \/ Detach(t, u) \/ ConsumeAgain(t, u) \/ Create(t, u)
    \/ Locked(t) \/ Joined(t) \/ Block(t) \/ Exit(t)

Spec == Init /\ [][Next]_vars

-----------------------------------------------------------------------------
\* Some of the elements each have an arrow to one of them.
Cycle(elements, Arrow(_, _)) ==
  \E S \in (SUBSET elements) \ {{}} : \A a \in S : \E b \in S : Arrow(a, b)

\* A lock-order cycle is reported exactly when the threads nested mutexes in a
\* circle, whichever threads did and whenever (SYNC-001: every edge is tested
\* against those before it).
LockOrderExact ==
  (\E f \in sync.found : f.id = "SYNC-001") <=> Cycle(Mutexes, LAMBDA a, b : <<a, b>> \in nestings)

\* Should the records end here, a deadlock is reported exactly when some
\* threads wait for each other in a circle, for mutexes, for joins or for both
\* (SYNC-002 and SYNC-003 from the waits and locks that are left).
WaitsFor(t, u) ==
  \/ blocked[t].on = "mutex" /\ Holds(u, blocked[t].what)
  \/ blocked[t].on = "join" /\ blocked[t].what = u
DeadlockExact == AtEnd(sync) # {} <=> Cycle(Threads, WaitsFor)

\* Every mistake is found with its evidence, and nothing else is but threads
\* with a second-hand identity: the locks and waits the policy keeps are those
\* of the threads (analyze_synchronization).
MisuseExact ==
  /\ misuses \subseteq sync.found
  /\ \A f \in sync.found \ misuses :
       f.id = "SYNC-001" \/ (f.id = "SYNC-008" /\ f.from \in reused)

\* The arrays for the edges have as many places as there are records, and
\* twice as many for the waits: enough for threads that nest three mutexes.
ArraysFit == Len(sync.lock_edges) <= published /\ Len(WaitEdges(sync)) <= 2 * published

\* A thread is reported as joined or detached twice only if it was
\* (README.md:108-110, SYNC-008).
TerminalOnce == \A f \in sync.found : f.id = "SYNC-008" => f \in misuses
=============================================================================
