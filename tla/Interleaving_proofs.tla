------------------------ MODULE Interleaving_proofs ------------------------
(***************************************************************************)
(* Proofs about Interleaving: for any records, edges and limit, the        *)
(* schedules of the walk are legal, and the swaps reported for a           *)
(* counterexample lead to it.                                              *)
(***************************************************************************)
EXTENDS Interleaving, FiniteSetTheorems, SequenceTheorems, WellFoundedInduction, TLAPS

-----------------------------------------------------------------------------
\* The parts of the inductive invariants.

\* The state has its type; there are schedules as soon as the recording ends.
WalkType ==
  /\ phase \in {"recording", "walking", "done", "failed"}
  /\ log \in Seq(Records)
  /\ edges \subseteq (DOMAIN log) \X (DOMAIN log)
  /\ orders \in Seq([DOMAIN log -> DOMAIN log])
  /\ parents \in Seq(Nat) /\ Len(parents) = Len(orders)
  /\ swaps \in Seq(Nat \X Nat) /\ Len(swaps) = Len(orders)
  /\ queue_index \in Nat \ {0} /\ index \in Nat \ {0}
  /\ Len(orders) <= schedule_limit
  /\ IF phase = "recording" THEN orders = <<>> /\ edges = {} /\ fresh = {} ELSE orders # <<>>

\* Every schedule has every event once.
OnceEach(order) ==
  /\ \A i \in DOMAIN log : \E k \in DOMAIN log : order[k] = i
  /\ \A k, m \in DOMAIN log : order[k] = order[m] => k = m
AllOnceEach == \A a \in DOMAIN orders : OnceEach(orders[a])

\* No event of a schedule comes before one that the pairs put before it.
Respects(order, pairs) ==
  \A k, m \in DOMAIN log : k < m => <<order[m], order[k]>> \notin pairs
AllRespect(pairs) == \A a \in DOMAIN orders : Respects(orders[a], pairs)

\* The pairs go forward in the recorded order.
EdgesForward == \A p \in edges : p[1] < p[2]

\* No schedule is kept twice.
Distinct == \A a, b \in DOMAIN orders : orders[a] = orders[b] => a = b

LegalInv == AllOnceEach /\ EdgesForward /\ AllRespect(edges) /\ Distinct
-----------------------------------------------------------------------------
(* Lemmas about schedules. *)

\* What the type says of one schedule.
LEMMA ScheduleType ==
  ASSUME WalkType, NEW a \in DOMAIN orders
  PROVE  /\ Len(log) \in Nat /\ DOMAIN log = 1 .. Len(log)
         /\ Len(orders) \in Nat /\ DOMAIN orders = 1 .. Len(orders)
         /\ orders[a] \in [1 .. Len(log) -> 1 .. Len(log)]
<1>1. /\ Len(log) \in Nat /\ DOMAIN log = 1 .. Len(log)
      /\ Len(orders) \in Nat /\ DOMAIN orders = 1 .. Len(orders)
  BY DEF WalkType
<1>2. orders[a] \in [DOMAIN log -> DOMAIN log]
  BY <1>1, ElementOfSeq DEF WalkType
<1> QED
  BY <1>1, <1>2

\* Swapping two neighbours changes these two places and no other.
LEMMA SwappedPlaces ==
  ASSUME NEW n \in Nat, NEW order \in [1 .. n -> 1 .. n], NEW k \in 1 .. n - 1
  PROVE  /\ Swapped(order, k) \in [1 .. n -> 1 .. n]
         /\ Swapped(order, k)[k] = order[k + 1]
         /\ Swapped(order, k)[k + 1] = order[k]
         /\ \A m \in 1 .. n : m # k /\ m # k + 1 => Swapped(order, k)[m] = order[m]
BY DEF Swapped

\* It keeps every event once.
LEMMA SwappedOnceEach ==
  ASSUME log \in Seq(Records), NEW order \in [DOMAIN log -> DOMAIN log], OnceEach(order),
         NEW k \in 1 .. Len(log) - 1
  PROVE  OnceEach(Swapped(order, k))
<1> DEFINE n == Len(log)
           new == Swapped(order, k)
<1>1. n \in Nat /\ DOMAIN log = 1 .. n /\ order \in [1 .. n -> 1 .. n]
  OBVIOUS
<1>2. /\ new[k] = order[k + 1] /\ new[k + 1] = order[k]
      /\ \A m \in 1 .. n : m # k /\ m # k + 1 => new[m] = order[m]
  BY <1>1, SwappedPlaces
<1>3. k \in 1 .. n /\ k + 1 \in 1 .. n
  BY <1>1
<1> HIDE DEF n, new
<1>4. ASSUME NEW i \in 1 .. n PROVE \E m \in 1 .. n : new[m] = i
  <2>1. PICK m \in 1 .. n : order[m] = i
    BY <1>1 DEF OnceEach
  <2>2. CASE m = k
    BY <2>1, <2>2, <1>2, <1>3
  <2>3. CASE m = k + 1
    BY <2>1, <2>3, <1>2, <1>3
  <2>4. CASE m # k /\ m # k + 1
    BY <2>1, <2>4, <1>2
  <2> QED
    BY <2>2, <2>3, <2>4
<1>5. ASSUME NEW i \in 1 .. n, NEW j \in 1 .. n, new[i] = new[j] PROVE i = j
  <2>1. \A x, y \in 1 .. n : order[x] = order[y] => x = y
    BY <1>1 DEF OnceEach
  <2> QED
    BY <1>2, <1>3, <1>5, <2>1
<1> QED
  BY <1>1, <1>4, <1>5 DEF OnceEach, new

\* It respects what the order respected, if the pair swapped is free.
LEMMA SwappedRespects ==
  ASSUME log \in Seq(Records), NEW order \in [DOMAIN log -> DOMAIN log],
         NEW k \in 1 .. Len(log) - 1, NEW pairs, Respects(order, pairs),
         <<order[k], order[k + 1]>> \notin pairs
  PROVE  Respects(Swapped(order, k), pairs)
<1> DEFINE n == Len(log)
           new == Swapped(order, k)
           Was(m) == IF m = k THEN k + 1 ELSE IF m = k + 1 THEN k ELSE m
<1>1. n \in Nat /\ DOMAIN log = 1 .. n /\ k \in 1 .. n /\ k + 1 \in 1 .. n
      /\ order \in [1 .. n -> 1 .. n]
  <2>1. n \in Nat /\ DOMAIN log = 1 .. n /\ k \in 1 .. n - 1
    OBVIOUS
  <2> HIDE DEF n
  <2>2. k \in 1 .. n /\ k + 1 \in 1 .. n
    BY <2>1
  <2> QED
    BY <2>1, <2>2
<1>2. /\ new[k] = order[k + 1] /\ new[k + 1] = order[k]
      /\ \A m \in 1 .. n : m # k /\ m # k + 1 => new[m] = order[m]
  <2>1. k \in 1 .. n - 1
    OBVIOUS
  <2> HIDE DEF n, new
  <2>2. /\ Swapped(order, k) \in [1 .. n -> 1 .. n]
        /\ Swapped(order, k)[k] = order[k + 1]
        /\ Swapped(order, k)[k + 1] = order[k]
        /\ \A m \in 1 .. n : m # k /\ m # k + 1 => Swapped(order, k)[m] = order[m]
    BY <1>1, <2>1, SwappedPlaces, Zenon
  <2> QED
    BY <2>2 DEF new
<1> HIDE DEF n, new
<1>3. \A m \in 1 .. n : new[m] = order[Was(m)] /\ Was(m) \in 1 .. n
  BY <1>1, <1>2
<1> SUFFICES ASSUME NEW i \in 1 .. n, NEW j \in 1 .. n, i < j
             PROVE  <<new[j], new[i]>> \notin pairs
  BY <1>1 DEF Respects, new
<1>4. <<new[j], new[i]>> = <<order[Was(j)], order[Was(i)]>>
  BY <1>3
<1>5. CASE i = k /\ j = k + 1
  BY <1>4, <1>5
<1>6. CASE ~(i = k /\ j = k + 1)
  <2>1. i \in Int /\ j \in Int /\ k \in Int
    BY <1>1
  <2>2. Was(i) < Was(j)
    BY <1>6, <2>1
  <2> QED
    BY <2>2, <1>1, <1>3, <1>4 DEF Respects
<1> QED
  BY <1>5, <1>6
-----------------------------------------------------------------------------
(* What the steps that make schedules do. *)

\* The recorded order is legal.
LEMMA RecordedLegal ==
  ASSUME log \in Seq(Records)
  PROVE  /\ Recorded \in [DOMAIN log -> DOMAIN log]
         /\ OnceEach(Recorded)
         /\ \A pairs : (\A p \in pairs : p[1] < p[2]) => Respects(Recorded, pairs)
<1>1. Len(log) \in Nat /\ DOMAIN log = 1 .. Len(log)
  OBVIOUS
<1>2. Recorded \in [DOMAIN log -> DOMAIN log] /\ \A k \in DOMAIN log : Recorded[k] = k
  BY DEF Recorded
<1>3. OnceEach(Recorded)
  BY <1>2 DEF OnceEach
<1>4. ASSUME NEW pairs, \A p \in pairs : p[1] < p[2] PROVE Respects(Recorded, pairs)
  <2> SUFFICES ASSUME NEW k \in DOMAIN log, NEW m \in DOMAIN log, k < m, <<m, k>> \in pairs
               PROVE  FALSE
    BY <1>2 DEF Respects
  <2>1. m < k
    BY <1>4
  <2> QED
    BY <2>1, <1>1
<1> QED
  BY <1>2, <1>3, <1>4

\* Begin: one schedule, and edges that go forward.
LEMMA BeginMakes ==
  ASSUME WalkType, Begin
  PROVE  /\ DOMAIN orders' = {1} /\ Len(orders') = 1 /\ orders'[1] = Recorded
         /\ edges' \subseteq (DOMAIN log) \X (DOMAIN log)
         /\ \A p \in edges' : p[1] < p[2]
<1>1. edges' \subseteq Lifetimes(log)
  BY DEF Begin, Within
<1>2. \A p \in Lifetimes(log) : p \in (DOMAIN log) \X (DOMAIN log) /\ p[1] < p[2]
  BY DEF Lifetimes, Ended
<1>3. orders' = <<Recorded>>
  BY DEF Begin
<1> QED
  BY <1>1, <1>2, <1>3

\* Explore: one more schedule, a swapped one.
LEMMA ExploreMakes ==
  ASSUME WalkType, Explore
  PROVE  /\ queue_index \in DOMAIN orders /\ index \in 1 .. Len(log) - 1
         /\ Candidate \in [DOMAIN log -> DOMAIN log]
         /\ orders' \in Seq([DOMAIN log -> DOMAIN log])
         /\ Len(orders') = Len(orders) + 1 /\ Len(orders') <= schedule_limit
         /\ DOMAIN orders' = 1 .. Len(orders) + 1
         /\ \A a \in DOMAIN orders : orders'[a] = orders[a]
         /\ orders'[Len(orders) + 1] = Candidate
<1>1. /\ queue_index \in Nat \ {0} /\ queue_index <= Len(orders)
      /\ index \in Nat \ {0} /\ index < Len(log)
      /\ orders' = Append(orders, Candidate)
      /\ Len(orders) < schedule_limit /\ schedule_limit \in Nat
  BY InterleavingAssumption DEF WalkType, Explore, Going
<1>2. /\ Len(log) \in Nat /\ DOMAIN log = 1 .. Len(log)
      /\ Len(orders) \in Nat /\ DOMAIN orders = 1 .. Len(orders)
      /\ orders \in Seq([DOMAIN log -> DOMAIN log])
  BY DEF WalkType
<1>3. queue_index \in DOMAIN orders /\ index \in 1 .. Len(log) - 1
  BY <1>1, <1>2
<1>4. Candidate \in [DOMAIN log -> DOMAIN log]
  BY <1>2, <1>3, ScheduleType, SwappedPlaces DEF Candidate
<1>5. /\ orders' \in Seq([DOMAIN log -> DOMAIN log])
      /\ Len(orders') = Len(orders) + 1
      /\ \A a \in 1 .. Len(orders) : orders'[a] = orders[a]
      /\ orders'[Len(orders) + 1] = Candidate
  BY <1>1, <1>2, <1>4, AppendProperties
<1>6. DOMAIN orders' = 1 .. Len(orders) + 1
  BY <1>5
<1> QED
  BY <1>1, <1>2, <1>3, <1>4, <1>5, <1>6
-----------------------------------------------------------------------------
(* Schedules are legal. *)

\* Steps of the walk that leave the schedules alone.
Idle == UNCHANGED <<log, edges, orders, parents, swaps>>
IdleSteps == Skip \/ NextSchedule \/ Finish \/ Fail \/ UNCHANGED vars

\* The state keeps its type.
THEOREM WalkTyped == Spec => []WalkType
<1>1. Init => WalkType
  <2> SUFFICES ASSUME Init PROVE WalkType
    OBVIOUS
  <2>1. schedule_limit \in Nat \ {0}
    BY InterleavingAssumption
  <2>2. Len(<<>>) = 0 /\ \A S : <<>> \in Seq(S)
    BY EmptySeq
  <2> QED
    BY <2>1, <2>2 DEF Init, WalkType
<1>2. WalkType /\ [Next]_vars => WalkType'
  <2> SUFFICES ASSUME WalkType, [Next]_vars PROVE WalkType'
    OBVIOUS
  <2>0. Len(<<>>) = 0 /\ \A S : <<>> \in Seq(S)
    BY EmptySeq
  <2>1. ASSUME NEW r \in Records, Observe(r) PROVE WalkType'
    <3>1. log' \in Seq(Records)
      BY <2>1, AppendProperties DEF Observe, WalkType
    <3>2. /\ phase = "recording" /\ phase' = phase /\ edges' = {} /\ orders' = <<>>
          /\ UNCHANGED <<parents, swaps, queue_index, index, fresh, orders, edges>>
      BY <2>1 DEF Observe, walk, WalkType
    <3> QED
      BY <2>0, <3>1, <3>2 DEF WalkType
  <2>2. CASE Begin
    <3>1. /\ phase' = "walking" /\ parents' = <<0>> /\ swaps' = <<<<0, 0>>>>
          /\ orders' = <<Recorded>> /\ UNCHANGED <<log, queue_index, index>>
      BY <2>2 DEF Begin
    <3>2. Recorded \in [DOMAIN log' -> DOMAIN log']
      BY <3>1, RecordedLegal DEF WalkType
    <3>3. Len(orders') <= schedule_limit /\ edges' \subseteq (DOMAIN log') \X (DOMAIN log')
      BY <2>2, <3>1, BeginMakes, InterleavingAssumption
    <3>4. /\ orders' \in Seq([DOMAIN log' -> DOMAIN log']) /\ Len(orders') = 1 /\ orders' # <<>>
          /\ parents' \in Seq(Nat) /\ Len(parents') = 1
          /\ swaps' \in Seq(Nat \X Nat) /\ Len(swaps') = 1
      BY <3>1, <3>2
    <3> QED
      BY <3>1, <3>3, <3>4 DEF WalkType
  <2>3. CASE Explore
    <3>1. /\ phase' = phase /\ phase = "walking" /\ index' = index + 1
          /\ parents' = Append(parents, Parent(queue_index))
          /\ swaps' = Append(swaps, <<orders[queue_index][index], orders[queue_index][index + 1]>>)
          /\ UNCHANGED <<log, edges, queue_index>>
      BY <2>3 DEF Explore
    <3>2. /\ queue_index \in DOMAIN orders /\ index \in 1 .. Len(log) - 1
          /\ orders' \in Seq([DOMAIN log -> DOMAIN log])
          /\ Len(orders') = Len(orders) + 1 /\ Len(orders') <= schedule_limit
      BY <2>3, ExploreMakes
    <3>3. parents' \in Seq(Nat) /\ Len(parents') = Len(parents) + 1
      BY <3>1, AppendProperties DEF WalkType, Parent
    <3>4. <<orders[queue_index][index], orders[queue_index][index + 1]>> \in Nat \X Nat
      <4>1. orders[queue_index] \in [1 .. Len(log) -> 1 .. Len(log)] /\ Len(log) \in Nat
        BY <3>2, ScheduleType
      <4>2. index \in 1 .. Len(log) /\ index + 1 \in 1 .. Len(log)
        BY <3>2, <4>1
      <4>3. \A k \in 1 .. Len(log) : orders[queue_index][k] \in Nat
        BY <4>1
      <4> QED
        BY <4>2, <4>3
    <3>5. swaps' \in Seq(Nat \X Nat) /\ Len(swaps') = Len(swaps) + 1
      <4> DEFINE pair == <<orders[queue_index][index], orders[queue_index][index + 1]>>
                 Couples == Nat \X Nat
      <4>1. swaps \in Seq(Couples) /\ pair \in Couples /\ swaps' = Append(swaps, pair)
        BY <3>1, <3>4 DEF WalkType
      <4> HIDE DEF pair, Couples
      <4>2. swaps' \in Seq(Couples) /\ Len(swaps') = Len(swaps) + 1
        BY <4>1, AppendProperties
      <4> QED
        BY <4>2 DEF Couples
    <3>6. orders' # <<>> /\ Len(parents') = Len(orders') /\ Len(swaps') = Len(orders')
      BY <3>2, <3>3, <3>5, <2>0 DEF WalkType
    <3>7. index' \in Nat \ {0} /\ queue_index' \in Nat \ {0} /\ edges' \subseteq (DOMAIN log) \X (DOMAIN log)
      BY <3>1 DEF WalkType
    <3> QED
      BY <3>1, <3>2, <3>3, <3>5, <3>6, <3>7 DEF WalkType
  <2>4. CASE Skip
    BY <2>4 DEF Skip, WalkType
  <2>5. CASE NextSchedule
    BY <2>5 DEF NextSchedule, WalkType
  <2>6. CASE Finish
    BY <2>6 DEF Finish, walk, WalkType
  <2>7. CASE Fail
    BY <2>7 DEF Fail, walk, WalkType
  <2>8. CASE UNCHANGED vars
    BY <2>8 DEF vars, walk, WalkType
  <2> QED
    BY <2>1, <2>2, <2>3, <2>4, <2>5, <2>6, <2>7, <2>8 DEF Next
<1> QED
  BY <1>1, <1>2, PTL DEF Spec
\* While the recording goes on there is no schedule.
LEMMA NoneYet ==
  ASSUME WalkType, phase = "recording"
  PROVE  DOMAIN orders = {} /\ edges = {}
BY DEF WalkType

\* Every schedule has every event once, keeps the recorded edges and was not
\* found before.
LEMMA ScheduleInv == Spec => []LegalInv
<1>1. Init => LegalInv
  BY DEF Init, LegalInv, AllOnceEach, EdgesForward, AllRespect, Distinct
<1>2. WalkType /\ LegalInv /\ [Next]_vars => LegalInv'
  <2> SUFFICES ASSUME WalkType, LegalInv, [Next]_vars PROVE LegalInv'
    OBVIOUS
  <2>1. ASSUME NEW r \in Records, Observe(r) PROVE LegalInv'
    <3>1. DOMAIN orders' = {} /\ edges' = {}
      BY <2>1, NoneYet DEF Observe, walk
    <3> QED
      BY <3>1 DEF LegalInv, AllOnceEach, EdgesForward, AllRespect, Distinct
  <2>2. CASE Begin
    <3>1. /\ log' = log /\ DOMAIN orders' = {1} /\ orders'[1] = Recorded
          /\ \A p \in edges' : p[1] < p[2]
      BY <2>2, BeginMakes DEF Begin
    <3>2. OnceEach(Recorded) /\ Respects(Recorded, edges')
      BY <3>1, RecordedLegal DEF WalkType
    <3>3. AllOnceEach'
      BY <3>1, <3>2 DEF AllOnceEach, OnceEach
    <3>4. AllRespect(edges)'
      BY <3>1, <3>2 DEF AllRespect, Respects
    <3>5. EdgesForward' /\ Distinct'
      BY <3>1 DEF EdgesForward, Distinct
    <3> QED
      BY <3>3, <3>4, <3>5 DEF LegalInv
  <2>3. CASE Explore
    <3> DEFINE old == orders[queue_index]
    <3>1. /\ log' = log /\ edges' = edges /\ log \in Seq(Records) /\ Len(orders) \in Nat
          /\ DOMAIN orders = 1 .. Len(orders)
      BY <2>3 DEF Explore, WalkType
    <3>2. /\ queue_index \in DOMAIN orders /\ index \in 1 .. Len(log) - 1
          /\ DOMAIN orders' = 1 .. Len(orders) + 1
          /\ \A a \in DOMAIN orders : orders'[a] = orders[a]
          /\ orders'[Len(orders) + 1] = Candidate
      BY <2>3, ExploreMakes
    <3>3. old \in [DOMAIN log -> DOMAIN log] /\ Candidate = Swapped(old, index)
      BY <3>1, <3>2, ScheduleType DEF Candidate
    <3>4. <<old[index], old[index + 1]>> \notin edges /\ Candidate \notin ToSet(orders)
      BY <2>3 DEF Explore, New, Swappable, directly_ordered
    <3>5. \A a \in DOMAIN orders' : a \in DOMAIN orders \/ a = Len(orders) + 1
      BY <3>1, <3>2
    <3> HIDE DEF old
    <3>6. OnceEach(old) /\ Respects(old, edges)
      BY <3>2 DEF LegalInv, AllOnceEach, AllRespect, old
    <3>7. OnceEach(Candidate) /\ Respects(Candidate, edges)
      BY <3>1, <3>2, <3>3, <3>4, <3>6, SwappedOnceEach, SwappedRespects
    <3>8. AllOnceEach'
      <4>1. \A a \in DOMAIN orders' : OnceEach(orders'[a])
        BY <3>2, <3>5, <3>7 DEF LegalInv, AllOnceEach
      <4> QED
        BY <4>1, <3>1 DEF AllOnceEach, OnceEach
    <3>9. AllRespect(edges)'
      <4>1. \A a \in DOMAIN orders' : Respects(orders'[a], edges)
        BY <3>2, <3>5, <3>7 DEF LegalInv, AllRespect
      <4> QED
        BY <4>1, <3>1 DEF AllRespect, Respects
    <3>10. Distinct'
      <4>1. \A a \in DOMAIN orders : orders'[a] # Candidate
        BY <3>2, <3>4 DEF ToSet
      <4> QED
        BY <4>1, <3>2, <3>5 DEF LegalInv, Distinct
    <3>11. EdgesForward'
      BY <3>1 DEF LegalInv, EdgesForward
    <3> QED
      BY <3>8, <3>9, <3>10, <3>11 DEF LegalInv
  <2>4. CASE IdleSteps
    <3>1. log' = log /\ edges' = edges /\ orders' = orders
      BY <2>4 DEF IdleSteps, Skip, NextSchedule, Finish, Fail, vars, walk
    <3> QED
      BY <3>1 DEF LegalInv, AllOnceEach, OnceEach, EdgesForward, AllRespect, Respects, Distinct
  <2> QED
    BY <2>1, <2>2, <2>3, <2>4 DEF Next, IdleSteps
<1> QED
  BY <1>1, <1>2, WalkTyped, PTL DEF Spec
\* Where every record names its thread, its metadata is its thread.
LEMMA MetadataIsThread ==
  ASSUME Unmarked = {}, NEW r \in Records
  PROVE  r.metadata = r.thread
<1>1. PICK class, op, thread, resource : r = Record(class, op, thread, resource)
  BY DEF Records
<1> QED
  BY <1>1 DEF Record

\* The local order goes forward in the recorded order.
LEMMA LocalForward ==
  /\ LocalOrder \subseteq (DOMAIN log) \X (DOMAIN log)
  /\ \A p \in LocalOrder : p[1] < p[2]
BY DEF LocalOrder

\* Then no swap turns the order of a thread.
LEMMA LocalInv == ASSUME Unmarked = {} PROVE Spec => []AllRespect(LocalOrder)
<1>1. Init => AllRespect(LocalOrder)
  BY DEF Init, AllRespect
<1>2. WalkType /\ AllRespect(LocalOrder) /\ [Next]_vars => AllRespect(LocalOrder)'
  <2> SUFFICES ASSUME WalkType, AllRespect(LocalOrder), [Next]_vars PROVE AllRespect(LocalOrder)'
    OBVIOUS
  <2>1. ASSUME NEW r \in Records, Observe(r) PROVE AllRespect(LocalOrder)'
    <3>1. DOMAIN orders' = {}
      BY <2>1, NoneYet DEF Observe, walk
    <3> QED
      BY <3>1 DEF AllRespect
  <2>2. ASSUME log' = log, \A a \in DOMAIN orders' : Respects(orders'[a], LocalOrder)
        PROVE  AllRespect(LocalOrder)'
    <3>1. LocalOrder' = LocalOrder
      BY <2>2 DEF LocalOrder
    <3> QED
      BY <2>2, <3>1 DEF AllRespect, Respects
  <2>3. CASE Begin
    <3>1. log' = log /\ DOMAIN orders' = {1} /\ orders'[1] = Recorded
      BY <2>3, BeginMakes DEF Begin
    <3>2. Respects(Recorded, LocalOrder)
      BY RecordedLegal, LocalForward DEF WalkType
    <3> QED
      BY <2>2, <3>1, <3>2
  <2>4. CASE Explore
    <3> DEFINE old == orders[queue_index]
    <3>1. /\ log' = log /\ log \in Seq(Records) /\ Len(orders) \in Nat
          /\ DOMAIN orders = 1 .. Len(orders)
      BY <2>4 DEF Explore, WalkType
    <3>2. /\ queue_index \in DOMAIN orders /\ index \in 1 .. Len(log) - 1
          /\ DOMAIN orders' = 1 .. Len(orders) + 1
          /\ \A a \in DOMAIN orders : orders'[a] = orders[a]
          /\ orders'[Len(orders) + 1] = Candidate
      BY <2>4, ExploreMakes
    <3>3. /\ old \in [DOMAIN log -> DOMAIN log] /\ Candidate = Swapped(old, index)
          /\ DOMAIN log = 1 .. Len(log)
      BY <3>1, <3>2, ScheduleType DEF Candidate
    <3>4. log[old[index]].metadata # log[old[index + 1]].metadata
      BY <2>4 DEF Explore, New, Swappable, same_sync_thread
    <3> HIDE DEF old
    <3>5. log[old[index]] \in Records /\ log[old[index + 1]] \in Records
      <4>1. index \in 1 .. Len(log) /\ index + 1 \in 1 .. Len(log)
        BY <3>1, <3>2
      <4>2. old[index] \in DOMAIN log /\ old[index + 1] \in DOMAIN log
        BY <3>3, <4>1
      <4> QED
        BY <3>1, <4>2
    <3>6. <<old[index], old[index + 1]>> \notin LocalOrder
      BY <3>4, <3>5, MetadataIsThread DEF LocalOrder
    <3>7. Respects(old, LocalOrder)
      BY <3>2 DEF AllRespect, old
    <3>8. Respects(Candidate, LocalOrder)
      BY <3>1, <3>2, <3>3, <3>6, <3>7, SwappedRespects
    <3>9. \A a \in DOMAIN orders' : a \in DOMAIN orders \/ a = Len(orders) + 1
      BY <3>1, <3>2
    <3> QED
      BY <2>2, <3>1, <3>2, <3>8, <3>9 DEF AllRespect
  <2>5. CASE IdleSteps
    <3>1. log' = log /\ orders' = orders
      BY <2>5 DEF IdleSteps, Skip, NextSchedule, Finish, Fail, vars, walk
    <3> QED
      BY <2>2, <3>1 DEF AllRespect
  <2> QED
    BY <2>1, <2>3, <2>4, <2>5 DEF Next, IdleSteps
<1> QED
  BY <1>1, <1>2, WalkTyped, PTL DEF Spec

\* Respecting pairs by places is keeping them by the place of each event.
LEMMA RespectsIsKeeps ==
  ASSUME log \in Seq(Records), NEW order \in [DOMAIN log -> DOMAIN log], OnceEach(order),
         NEW pairs \in SUBSET ((DOMAIN log) \X (DOMAIN log)), \A p \in pairs : p[1] < p[2],
         Respects(order, pairs)
  PROVE  Keeps(order, pairs)
<1> SUFFICES ASSUME NEW p \in pairs PROVE Place(order, p[1]) < Place(order, p[2])
  BY DEF Keeps
<1>1. p[1] \in DOMAIN log /\ p[2] \in DOMAIN log /\ p = <<p[1], p[2]>> /\ p[1] # p[2]
  OBVIOUS
<1>2. \A i \in DOMAIN log : Place(order, i) \in DOMAIN log /\ order[Place(order, i)] = i
  <2> SUFFICES ASSUME NEW i \in DOMAIN log
               PROVE  Place(order, i) \in DOMAIN log /\ order[Place(order, i)] = i
    OBVIOUS
  <2>1. DOMAIN order = DOMAIN log /\ \E k \in DOMAIN order : order[k] = i
    BY DEF OnceEach
  <2> QED
    BY <2>1 DEF Place
<1> DEFINE k == Place(order, p[1])
           m == Place(order, p[2])
<1>3. k \in DOMAIN log /\ m \in DOMAIN log /\ <<order[k], order[m]>> = p /\ k # m
  BY <1>1, <1>2
<1> HIDE DEF k, m
<1>4. ~(m < k)
  BY <1>3 DEF Respects
<1>5. k \in Nat /\ m \in Nat
  BY <1>3
<1>6. k < m
  BY <1>3, <1>4, <1>5
<1> QED
  BY <1>6 DEF k, m

\* For any records, edges and limit: within the limit every schedule of the walk
\* is new, has every event once and keeps every recorded edge, however many swaps
\* of neighbours lead to it; and where records name their threads, the order of
\* each thread (p101_tool_analysis_write_interleaving, directly_ordered,
\* same_sync_thread, schedule_seen).
THEOREM SchedulesCorrect == ASSUME Unmarked = {} PROVE Spec => []SchedulesLegal
<1>1. WalkType /\ LegalInv /\ AllRespect(LocalOrder) => SchedulesLegal
  <2> SUFFICES ASSUME WalkType, LegalInv, AllRespect(LocalOrder) PROVE SchedulesLegal
    OBVIOUS
  <2>1. ASSUME NEW a \in DOMAIN orders
        PROVE  /\ ToSet(orders[a]) = DOMAIN log
               /\ Keeps(orders[a], edges) /\ Keeps(orders[a], LocalOrder)
    <3>1. orders[a] \in [DOMAIN log -> DOMAIN log] /\ OnceEach(orders[a])
      BY ScheduleType DEF LegalInv, AllOnceEach
    <3>2. ToSet(orders[a]) = DOMAIN log
      BY <3>1 DEF OnceEach, ToSet
    <3>3. Respects(orders[a], edges) /\ Respects(orders[a], LocalOrder)
      BY DEF LegalInv, AllRespect
    <3>4. Keeps(orders[a], edges)
      BY <3>1, <3>3, RespectsIsKeeps DEF WalkType, LegalInv, EdgesForward
    <3>5. Keeps(orders[a], LocalOrder)
      BY <3>1, <3>3, RespectsIsKeeps, LocalForward DEF WalkType
    <3> QED
      BY <3>2, <3>4, <3>5
  <2>2. Len(orders) <= schedule_limit
    BY DEF WalkType
  <2> QED
    BY <2>1, <2>2 DEF SchedulesLegal, LocalOrderKept, LegalInv, Distinct
<1> QED
  BY <1>1, WalkTyped, ScheduleInv, LocalInv, PTL
-----------------------------------------------------------------------------
(* The way to a counterexample. *)

\* Each schedule but the first was made from an earlier one by the swap kept
\* for it.
MadeBySwap(a) ==
  IF a = 1 THEN parents[a] = 0 /\ orders[a] = Recorded
  ELSE /\ parents[a] \in 1 .. a - 1
       /\ \E k \in 1 .. Len(log) - 1 :
            /\ swaps[a] = <<orders[parents[a]][k], orders[parents[a]][k + 1]>>
            /\ orders[a] = Swapped(orders[parents[a]], k)
AllMadeBySwap == \A a \in DOMAIN orders : MadeBySwap(a)

\* The findings kept are those of the latest schedule; earlier ones have none.
FreshIsLatest ==
  /\ orders # <<>> => fresh = Keys(orders[Len(orders)]) \ baseline
  /\ \A a \in 1 .. Len(orders) - 1 : Keys(orders[a]) \subseteq baseline

\* Every set of naturals has a least element.
LEMMA LeastNatural ==
  ASSUME NEW T \in SUBSET Nat, T # {}
  PROVE  \E x \in T : \A y \in T : x <= y
<1>1. PICK x \in T : \A y \in T : <<y, x>> \notin OpToRel(<, Nat)
  BY NatLessThanWellFounded, WFMin
<1>2. \A y \in T : ~(y < x)
  BY <1>1 DEF OpToRel
<1> QED
  BY <1>2

\* Two neighbours name one place of a schedule that has every event once.
LEMMA SwapPlace ==
  ASSUME log \in Seq(Records), NEW order \in [DOMAIN log -> DOMAIN log], OnceEach(order),
         NEW k \in 1 .. Len(log) - 1
  PROVE  {m \in 1 .. Len(log) - 1 : <<order[m], order[m + 1]>> = <<order[k], order[k + 1]>>} = {k}
<1>1. DOMAIN log = 1 .. Len(log) /\ Len(log) \in Nat
  OBVIOUS
<1>2. \A m \in 1 .. Len(log) - 1 : order[m] = order[k] => m = k
  BY <1>1 DEF OnceEach
<1> QED
  BY <1>2

\* The equation of BySwaps, which the schedules satisfy.
LEMMA BySwapsDefined ==
  ASSUME WalkType, AllOnceEach, AllMadeBySwap
  PROVE  BySwaps = [a \in DOMAIN orders |->
           IF parents[a] = 0 THEN Recorded
           ELSE LET before == BySwaps[parents[a]]
                    here == {k \in 1 .. Len(log) - 1 : <<before[k], before[k + 1]>> = swaps[a]}
                IN  IF here = {} THEN before ELSE Swapped(before, Min(here))]
<1> DEFINE Body(f, a) ==
             IF parents[a] = 0 THEN Recorded
             ELSE LET before == f[parents[a]]
                      here == {k \in 1 .. Len(log) - 1 : <<before[k], before[k + 1]>> = swaps[a]}
                  IN  IF here = {} THEN before ELSE Swapped(before, Min(here))
<1>1. ASSUME NEW a \in DOMAIN orders PROVE orders[a] = Body(orders, a)
  <2>1. CASE a = 1
    BY <2>1 DEF AllMadeBySwap, MadeBySwap
  <2>2. CASE a # 1
    <3>1. PICK k \in 1 .. Len(log) - 1 :
            /\ swaps[a] = <<orders[parents[a]][k], orders[parents[a]][k + 1]>>
            /\ orders[a] = Swapped(orders[parents[a]], k)
      BY <2>2 DEF AllMadeBySwap, MadeBySwap
    <3>2. parents[a] \in DOMAIN orders /\ parents[a] # 0
      BY <2>2, ScheduleType DEF AllMadeBySwap, MadeBySwap
    <3>3. {m \in 1 .. Len(log) - 1 :
             <<orders[parents[a]][m], orders[parents[a]][m + 1]>> = swaps[a]} = {k}
      <4>1. orders[parents[a]] \in [DOMAIN log -> DOMAIN log] /\ OnceEach(orders[parents[a]])
        BY <3>2, ScheduleType DEF AllOnceEach
      <4>2. {m \in 1 .. Len(log) - 1 :
               <<orders[parents[a]][m], orders[parents[a]][m + 1]>>
               = <<orders[parents[a]][k], orders[parents[a]][k + 1]>>} = {k}
        BY <4>1, SwapPlace DEF WalkType
      <4> QED
        BY <4>2, <3>1
    <3>4. Min({k}) = k
      BY DEF Min
    <3> QED
      BY <3>1, <3>2, <3>3, <3>4
  <2> QED
    BY <2>1, <2>2
<1> HIDE DEF Body
<1>2. orders = [a \in DOMAIN orders |-> Body(orders, a)]
  <2>1. orders = [a \in DOMAIN orders |-> orders[a]]
    BY DEF WalkType
  <2> QED
    BY <1>1, <2>1
<1>3. \E f : f = [a \in DOMAIN orders |-> Body(f, a)]
  BY <1>2
<1>4. BySwaps = CHOOSE f : f = [a \in DOMAIN orders |-> Body(f, a)]
  BY DEF BySwaps, Body
<1>5. BySwaps = [a \in DOMAIN orders |-> Body(BySwaps, a)]
  BY <1>3, <1>4
<1> QED
  BY <1>5 DEF Body
\* The swaps reported for a schedule lead to it.
LEMMA SwapsLeadThere ==
  ASSUME WalkType, AllOnceEach, AllMadeBySwap
  PROVE  \A a \in DOMAIN orders : BySwaps[a] = orders[a]
<1> DEFINE wrong == {a \in DOMAIN orders : BySwaps[a] # orders[a]}
<1> SUFFICES ASSUME wrong # {} PROVE FALSE
  OBVIOUS
<1>1. Len(orders) \in Nat /\ DOMAIN orders = 1 .. Len(orders)
  BY DEF WalkType
<1>2. PICK a \in wrong : \A b \in wrong : a <= b
  <2>1. wrong \in SUBSET Nat
    BY <1>1
  <2> HIDE DEF wrong
  <2> QED
    BY <2>1, LeastNatural
<1>3. CASE parents[a] = 0
  <2>1. a = 1
    BY <1>1, <1>2, <1>3 DEF AllMadeBySwap, MadeBySwap
  <2>2. orders[a] = Recorded
    BY <1>2, <2>1 DEF AllMadeBySwap, MadeBySwap
  <2>3. BySwaps[a] = Recorded
    BY <1>2, <1>3, BySwapsDefined
  <2> QED
    BY <1>2, <2>2, <2>3
<1>4. CASE parents[a] # 0
  <2> DEFINE parent == parents[a]
  <2>1. parent \in 1 .. a - 1 /\ parent \in DOMAIN orders
    BY <1>1, <1>2, <1>4 DEF AllMadeBySwap, MadeBySwap
  <2>2. BySwaps[parent] = orders[parent]
    BY <1>1, <1>2, <2>1
  <2>3. PICK k \in 1 .. Len(log) - 1 :
          /\ swaps[a] = <<orders[parent][k], orders[parent][k + 1]>>
          /\ orders[a] = Swapped(orders[parent], k)
    BY <1>2, <1>4 DEF AllMadeBySwap, MadeBySwap
  <2>4. {m \in 1 .. Len(log) - 1 :
           <<orders[parent][m], orders[parent][m + 1]>> = swaps[a]} = {k}
    <3>1. orders[parent] \in [DOMAIN log -> DOMAIN log] /\ OnceEach(orders[parent])
      BY <2>1, ScheduleType DEF AllOnceEach
    <3>2. {m \in 1 .. Len(log) - 1 :
             <<orders[parent][m], orders[parent][m + 1]>>
             = <<orders[parent][k], orders[parent][k + 1]>>} = {k}
      BY <3>1, SwapPlace DEF WalkType
    <3> QED
      BY <3>2, <2>3
  <2>5. Min({k}) = k
    BY DEF Min
  <2>6. BySwaps[a] = LET before == BySwaps[parent]
                         here == {m \in 1 .. Len(log) - 1 : <<before[m], before[m + 1]>> = swaps[a]}
                     IN  IF here = {} THEN before ELSE Swapped(before, Min(here))
    BY <1>2, <1>4, BySwapsDefined
  <2> QED
    BY <1>2, <2>2, <2>3, <2>4, <2>5, <2>6
<1> QED
  BY <1>3, <1>4

\* Findings depend on the records and the schedule alone.
LEMMA KeysStay ==
  ASSUME log' = log
  PROVE  baseline' = baseline /\ Recorded' = Recorded /\ \A o : Keys(o)' = Keys(o)
BY DEF baseline, Recorded, Keys

\* How each schedule was made, and what was found in it.
LEMMA WayInv == Spec => [](AllMadeBySwap /\ FreshIsLatest)
<1> DEFINE Inv == AllMadeBySwap /\ FreshIsLatest
<1>1. Init => Inv
  BY DEF Init, AllMadeBySwap, FreshIsLatest
<1>2. WalkType /\ Inv /\ [Next]_vars => Inv'
  <2> SUFFICES ASSUME WalkType, Inv, [Next]_vars PROVE Inv'
    OBVIOUS
  <2>1. ASSUME NEW r \in Records, Observe(r) PROVE Inv'
    <3>1. orders' = <<>>
      BY <2>1 DEF Observe, walk, WalkType
    <3> QED
      BY <3>1 DEF AllMadeBySwap, FreshIsLatest
  <2>2. CASE Begin
    <3>1. /\ log' = log /\ DOMAIN orders' = {1} /\ orders'[1] = Recorded /\ Len(orders') = 1
          /\ parents'[1] = 0 /\ fresh' = {}
      BY <2>2, BeginMakes DEF Begin, WalkType
    <3>2. AllMadeBySwap'
      BY <3>1, KeysStay DEF AllMadeBySwap, MadeBySwap
    <3>3. baseline' = Keys(orders[1])'
      BY <3>1, KeysStay DEF baseline
    <3> QED
      BY <3>1, <3>2, <3>3 DEF FreshIsLatest
  <2>3. CASE Explore
    <3>1. /\ log' = log /\ Len(orders) \in Nat /\ DOMAIN orders = 1 .. Len(orders)
          /\ orders # <<>> /\ Len(orders) # 0
      BY <2>3, EmptySeq DEF Explore, WalkType
    <3>2. /\ queue_index \in DOMAIN orders /\ index \in 1 .. Len(log) - 1
          /\ DOMAIN orders' = 1 .. Len(orders) + 1 /\ Len(orders') = Len(orders) + 1
          /\ \A a \in DOMAIN orders : orders'[a] = orders[a]
          /\ orders'[Len(orders) + 1] = Candidate
      BY <2>3, ExploreMakes
    <3>3. /\ \A a \in DOMAIN orders : parents'[a] = parents[a] /\ swaps'[a] = swaps[a]
          /\ parents'[Len(orders) + 1] = queue_index
          /\ swaps'[Len(orders) + 1] =
                <<orders[queue_index][index], orders[queue_index][index + 1]>>
      <4>1. /\ parents' = Append(parents, queue_index)
            /\ swaps' = Append(swaps, <<orders[queue_index][index], orders[queue_index][index + 1]>>)
        BY <2>3 DEF Explore, Parent
      <4>2. Len(parents) = Len(orders) /\ Len(swaps) = Len(orders)
        BY DEF WalkType
      <4>3. parents \in Seq(Nat) /\ swaps \in Seq(Nat \X Nat)
        BY DEF WalkType
      <4>4. (\A a \in DOMAIN orders : parents'[a] = parents[a]) /\ parents'[Len(orders) + 1] = queue_index
        BY <4>1, <4>2, <4>3, <3>1
      <4>5. /\ \A a \in DOMAIN orders : swaps'[a] = swaps[a]
            /\ swaps'[Len(orders) + 1] = <<orders[queue_index][index], orders[queue_index][index + 1]>>
        BY <4>1, <4>2, <4>3, <3>1
      <4> QED
        BY <4>4, <4>5
    <3>4. fresh = {} /\ fresh' = Keys(Candidate) \ baseline
      BY <2>3 DEF Explore, Going
    <3>5. AllMadeBySwap'
      <4> SUFFICES ASSUME NEW a \in DOMAIN orders' PROVE MadeBySwap(a)'
        BY DEF AllMadeBySwap
      <4>1. CASE a \in DOMAIN orders
        <5>1. MadeBySwap(a)
          BY <4>1 DEF AllMadeBySwap
        <5>2. a # 1 => parents[a] \in DOMAIN orders
          BY <5>1, <4>1, <3>1 DEF MadeBySwap
        <5> QED
          BY <5>1, <5>2, <4>1, <3>1, <3>2, <3>3, KeysStay DEF MadeBySwap
      <4>2. CASE a = Len(orders) + 1
        <5>1. parents'[a] \in 1 .. a - 1 /\ a # 1
          BY <4>2, <3>1, <3>2, <3>3
        <5>2. orders'[parents'[a]] = orders[queue_index]
          BY <4>2, <3>2, <3>3
        <5>3. orders'[a] = Swapped(orders'[parents'[a]], index)
          BY <4>2, <5>2, <3>2 DEF Candidate
        <5>4. swaps'[a] = <<orders'[parents'[a]][index], orders'[parents'[a]][index + 1]>>
          BY <4>2, <5>2, <3>3
        <5> QED
          BY <5>1, <5>3, <5>4, <3>1, <3>2 DEF MadeBySwap
      <4> QED
        BY <4>1, <4>2, <3>1, <3>2
    <3>6. fresh' = Keys(orders'[Len(orders')]) \ baseline
      BY <3>2, <3>4
    <3>7. \A a \in 1 .. Len(orders') - 1 : Keys(orders'[a]) \subseteq baseline
      <4>1. Keys(orders[Len(orders)]) \subseteq baseline
        BY <3>1, <3>4 DEF FreshIsLatest
      <4> QED
        BY <4>1, <3>1, <3>2 DEF FreshIsLatest
    <3>8. FreshIsLatest'
      BY <3>1, <3>6, <3>7, KeysStay DEF FreshIsLatest, Keys
    <3> QED
      BY <3>5, <3>8
  <2>4. CASE IdleSteps
    <3>1. UNCHANGED <<log, orders, parents, swaps, fresh>>
      BY <2>4 DEF IdleSteps, Skip, NextSchedule, Finish, Fail, vars, walk
    <3>2. AllMadeBySwap'
      BY <3>1, KeysStay DEF AllMadeBySwap, MadeBySwap
    <3>3. FreshIsLatest'
      BY <3>1, KeysStay DEF FreshIsLatest, Keys
    <3> QED
      BY <3>2, <3>3
  <2> QED
    BY <2>1, <2>2, <2>3, <2>4 DEF Next, IdleSteps
<1> QED
  BY <1>1, <1>2, WalkTyped, PTL DEF Spec

\* A reader who makes the swaps reported for a counterexample on the recorded
\* order gets the schedule with the findings reported, and it is the first
\* schedule of the walk with any (parents, swap_left, swap_right in
\* p101_tool_analysis_write_interleaving).
THEOREM CounterexampleCorrect == Spec => []CounterexampleReplays
<1>1. WalkType /\ LegalInv /\ AllMadeBySwap /\ FreshIsLatest => CounterexampleReplays
  <2> SUFFICES ASSUME WalkType, LegalInv, AllMadeBySwap, FreshIsLatest, fresh # {}
               PROVE  CounterexampleReplays
    BY DEF CounterexampleReplays
  <2>1. orders # <<>> /\ Len(orders) \in DOMAIN orders
    BY EmptySeq DEF WalkType
  <2>2. BySwaps[Len(orders)] = orders[Len(orders)]
    BY <2>1, SwapsLeadThere DEF LegalInv
  <2> QED
    BY <2>1, <2>2 DEF CounterexampleReplays, FreshIsLatest
<1> QED
  BY <1>1, WalkTyped, ScheduleInv, WayInv, PTL
-----------------------------------------------------------------------------
(* No legal schedule is missed. *)

\* Events that are no synchronization stay where they are, and what is on one
\* side of them stays there.
InPlace(order) ==
  \A k \in DOMAIN log : ~interleaving_node(k) =>
    /\ order[k] = k
    /\ \A j \in DOMAIN log : (j < k => order[j] < k) /\ (k < j => k < order[j])
AllInPlace == \A a \in DOMAIN orders : InPlace(orders[a])

\* The neighbours of the schedules before the current one, and those looked at
\* of the current one, are kept.
Passed(a, k) == a < queue_index \/ (a = queue_index /\ k < index)
AllExplored ==
  \A a \in DOMAIN orders, k \in 1 .. Len(log) - 1 :
    Passed(a, k) /\ Swappable(orders[a][k], orders[a][k + 1]) => Swapped(orders[a], k) \in ToSet(orders)

SearchInv ==
  /\ AllInPlace /\ AllExplored
  /\ phase = "recording" => queue_index = 1 /\ index = 1
  /\ phase = "done" => ~Going

\* A swap of two synchronization events leaves all others in place.
LEMMA SwappedInPlace ==
  ASSUME log \in Seq(Records), NEW order \in [DOMAIN log -> DOMAIN log], InPlace(order),
         NEW k \in 1 .. Len(log) - 1,
         interleaving_node(order[k]), interleaving_node(order[k + 1])
  PROVE  InPlace(Swapped(order, k))
<1> DEFINE n == Len(log)
           new == Swapped(order, k)
<1>1. n \in Nat /\ DOMAIN log = 1 .. n /\ k \in 1 .. n /\ k + 1 \in 1 .. n
      /\ order \in [1 .. n -> 1 .. n]
  OBVIOUS
<1>2. /\ new[k] = order[k + 1] /\ new[k + 1] = order[k]
      /\ \A m \in 1 .. n : m # k /\ m # k + 1 => new[m] = order[m]
  BY <1>1, SwappedPlaces
<1> HIDE DEF n, new
<1> SUFFICES ASSUME NEW x \in 1 .. n, ~interleaving_node(x)
             PROVE  /\ new[x] = x
                    /\ \A j \in 1 .. n : (j < x => new[j] < x) /\ (x < j => x < new[j])
  BY <1>1 DEF InPlace, new
<1>3. /\ order[x] = x
      /\ \A j \in 1 .. n : (j < x => order[j] < x) /\ (x < j => x < order[j])
  BY <1>1 DEF InPlace
<1>4. x # k /\ x # k + 1
  BY <1>3
<1>5. x \in Int /\ k \in Int
  BY <1>1
<1>6. ASSUME NEW j \in 1 .. n PROVE (j < x => new[j] < x) /\ (x < j => x < new[j])
  <2>1. CASE j = k
    <3>1. new[j] = order[k + 1] /\ (k < x <=> k + 1 < x) /\ (x < k <=> x < k + 1)
      BY <2>1, <1>2, <1>4, <1>5
    <3> QED
      BY <3>1, <2>1, <1>1, <1>3
  <2>2. CASE j = k + 1
    <3>1. new[j] = order[k] /\ (k < x <=> k + 1 < x) /\ (x < k <=> x < k + 1)
      BY <2>2, <1>2, <1>4, <1>5
    <3> QED
      BY <3>1, <2>2, <1>1, <1>3
  <2>3. CASE j # k /\ j # k + 1
    BY <2>3, <1>2, <1>3
  <2> QED
    BY <2>1, <2>2, <2>3
<1> QED
  BY <1>2, <1>3, <1>4, <1>6

\* The search is breadth first: what lies behind the current place is done.
LEMMA SearchCorrect == Spec => []SearchInv
<1>1. Init => SearchInv
  BY DEF Init, SearchInv, AllInPlace, AllExplored
<1>2. WalkType /\ SearchInv /\ [Next]_vars => SearchInv'
  <2> SUFFICES ASSUME WalkType, SearchInv, [Next]_vars PROVE SearchInv'
    OBVIOUS
  <2>0. Len(log) \in Nat /\ DOMAIN log = 1 .. Len(log) /\ queue_index \in Nat /\ index \in Nat
    BY DEF WalkType
  <2>1. ASSUME NEW r \in Records, Observe(r) PROVE SearchInv'
    <3>1. DOMAIN orders' = {}
      BY <2>1, NoneYet DEF Observe, walk
    <3>2. phase' = "recording" /\ queue_index' = 1 /\ index' = 1
      BY <2>1 DEF Observe, walk, SearchInv
    <3> QED
      BY <3>1, <3>2 DEF SearchInv, AllInPlace, AllExplored
  <2>2. CASE Begin
    <3>1. /\ log' = log /\ DOMAIN orders' = {1} /\ orders'[1] = Recorded
          /\ phase' = "walking" /\ queue_index' = 1 /\ index' = 1
      BY <2>2, BeginMakes DEF Begin, SearchInv
    <3>2. AllInPlace'
      BY <3>1 DEF AllInPlace, InPlace, Recorded, interleaving_node
    <3>3. AllExplored'
      BY <3>1, <2>0 DEF AllExplored, Passed
    <3> QED
      BY <3>1, <3>2, <3>3 DEF SearchInv
  <2>3. CASE Explore
    <3> DEFINE old == orders[queue_index]
    <3>1. /\ log' = log /\ edges' = edges /\ log \in Seq(Records) /\ Len(orders) \in Nat
          /\ DOMAIN orders = 1 .. Len(orders)
          /\ phase' = "walking" /\ queue_index' = queue_index /\ index' = index + 1
      BY <2>3 DEF Explore, WalkType
    <3>2. /\ queue_index \in DOMAIN orders /\ index \in 1 .. Len(log) - 1
          /\ DOMAIN orders' = 1 .. Len(orders) + 1
          /\ \A a \in DOMAIN orders : orders'[a] = orders[a]
          /\ orders'[Len(orders) + 1] = Candidate
      BY <2>3, ExploreMakes
    <3>3. old \in [DOMAIN log -> DOMAIN log] /\ Candidate = Swapped(old, index)
      BY <3>1, <3>2, ScheduleType DEF Candidate
    <3>4. interleaving_node(old[index]) /\ interleaving_node(old[index + 1])
      BY <2>3 DEF Explore, New, Swappable
    <3>5. \A a \in DOMAIN orders' : a \in DOMAIN orders \/ a = Len(orders) + 1
      BY <3>1, <3>2
    <3> HIDE DEF old
    <3>6. InPlace(old)
      BY <3>2 DEF SearchInv, AllInPlace, old
    <3>7. InPlace(Candidate)
      BY <3>1, <3>2, <3>3, <3>4, <3>6, SwappedInPlace
    <3>8. AllInPlace'
      <4>1. \A a \in DOMAIN orders' : InPlace(orders'[a])
        BY <3>2, <3>5, <3>7 DEF SearchInv, AllInPlace
      <4> QED
        BY <4>1, <3>1 DEF AllInPlace, InPlace, interleaving_node
    <3>9. ToSet(orders) \subseteq ToSet(orders') /\ Candidate \in ToSet(orders')
      BY <3>1, <3>2 DEF ToSet
    <3>10. AllExplored'
      <4> SUFFICES ASSUME NEW a \in DOMAIN orders', NEW k \in 1 .. Len(log) - 1,
                          Passed(a, k)', Swappable(orders'[a][k], orders'[a][k + 1])
                   PROVE  Swapped(orders'[a], k) \in ToSet(orders')
        BY <3>1 DEF AllExplored, Swappable, interleaving_node, same_sync_thread, directly_ordered
      <4>1. a \in DOMAIN orders
        BY <3>1, <3>2, <3>5, <2>0 DEF Passed
      <4>2. CASE Passed(a, k)
        BY <4>1, <4>2, <3>2, <3>9 DEF SearchInv, AllExplored
      <4>3. CASE ~Passed(a, k)
        <5>1. a = queue_index /\ k = index
          BY <4>3, <3>1, <3>2, <2>0 DEF Passed
        <5> QED
          BY <5>1, <3>2, <3>3, <3>9 DEF old
      <4> QED
        BY <4>2, <4>3
    <3> QED
      BY <3>1, <3>8, <3>10 DEF SearchInv
  <2>4. ASSUME UNCHANGED <<log, edges, orders>> PROVE AllInPlace'
    BY <2>4 DEF SearchInv, AllInPlace, InPlace, interleaving_node
  <2>5. ASSUME UNCHANGED <<log, edges, orders>>,
               \A a \in DOMAIN orders, k \in 1 .. Len(log) - 1 :
                 Passed(a, k)' /\ Swappable(orders[a][k], orders[a][k + 1])
                 => Passed(a, k) \/ Swapped(orders[a], k) \in ToSet(orders)
        PROVE  AllExplored'
    BY <2>5 DEF SearchInv, AllExplored, Swappable, interleaving_node, same_sync_thread, directly_ordered
  <2>6. CASE Skip
    <3>1. /\ UNCHANGED <<log, edges, orders, queue_index>> /\ index' = index + 1
          /\ phase = "walking" /\ phase' = "walking" /\ ~New
      BY <2>6 DEF Skip
    <3>2. ASSUME NEW a \in DOMAIN orders, NEW k \in 1 .. Len(log) - 1,
                 Passed(a, k)', ~Passed(a, k), Swappable(orders[a][k], orders[a][k + 1])
          PROVE  Swapped(orders[a], k) \in ToSet(orders)
      <4>1. a = queue_index /\ k = index
        BY <3>1, <3>2, <2>0 DEF Passed
      <4> QED
        BY <4>1, <3>1, <3>2 DEF New, Candidate
    <3>3. AllExplored'
      BY <2>5, <3>1, <3>2
    <3> QED
      BY <3>1, <3>3, <2>4 DEF SearchInv
  <2>7. CASE NextSchedule
    <3>1. /\ UNCHANGED <<log, edges, orders>> /\ index' = 1 /\ queue_index' = queue_index + 1
          /\ phase = "walking" /\ phase' = "walking" /\ index >= Len(log)
      BY <2>7 DEF NextSchedule
    <3>2. \A a \in DOMAIN orders, k \in 1 .. Len(log) - 1 : Passed(a, k)' => Passed(a, k)
      <4> SUFFICES ASSUME NEW a \in DOMAIN orders, NEW k \in 1 .. Len(log) - 1, Passed(a, k)'
                   PROVE  Passed(a, k)
        OBVIOUS
      <4>1. a \in Nat
        BY DEF WalkType
      <4> QED
        BY <4>1, <3>1, <2>0 DEF Passed
    <3>3. AllExplored'
      BY <2>5, <3>1, <3>2
    <3> QED
      BY <3>1, <3>3, <2>4 DEF SearchInv
  <2>8. CASE Finish \/ Fail \/ UNCHANGED vars
    <3>1. /\ UNCHANGED <<log, edges, walk>>
          /\ phase' \in {phase, "done", "failed"}
          /\ phase' = "done" /\ phase # "done" => ~Going
      BY <2>8 DEF Finish, Fail, vars
    <3>2. Going' <=> Going
      BY <3>1 DEF Going, walk
    <3>3. AllExplored'
      BY <2>5, <3>1 DEF walk, Passed
    <3> QED
      BY <3>1, <3>2, <3>3, <2>4 DEF SearchInv, walk
  <2> QED
    BY <2>1, <2>2, <2>3, <2>6, <2>7, <2>8 DEF Next
<1> QED
  BY <1>1, <1>2, WalkTyped, PTL DEF Spec
\* Schedules kept under swaps of free neighbours.
Closed ==
  \A a \in DOMAIN orders, k \in 1 .. Len(log) - 1 :
    Swappable(orders[a][k], orders[a][k + 1]) => Swapped(orders[a], k) \in ToSet(orders)

\* A pair of neighbours that another legal schedule has the other way round may
\* be swapped: x and y are next to each other in order, and y is before x in p,
\* which agrees with order up to the place of y.
LEMMA FreeNeighbours ==
  ASSUME Unmarked = {}, log \in Seq(Records),
         NEW order \in [DOMAIN log -> DOMAIN log], OnceEach(order), InPlace(order),
         Respects(order, LocalOrder),
         NEW p \in [DOMAIN log -> DOMAIN log], OnceEach(p),
         \A k \in DOMAIN log : ~interleaving_node(k) => p[k] = k,
         \A k \in DOMAIN log : ~interleaving_node(k) => \A j \in DOMAIN log : j < k => p[j] < k,
         Respects(p, edges), Respects(p, LocalOrder),
         NEW m \in 2 .. Len(log), NEW l \in 1 .. Len(log), NEW i \in 1 .. Len(log),
         l < m, l < i, order[m] = p[l], order[m - 1] = p[i],
         \A k \in 1 .. l - 1 : order[k] = p[k]
  PROVE  Swappable(order[m - 1], order[m])
<1> DEFINE n == Len(log)
           x == p[i]
           y == p[l]
<1>1. /\ n \in Nat /\ DOMAIN log = 1 .. n /\ m \in 1 .. n /\ m - 1 \in 1 .. n
      /\ l \in 1 .. n /\ i \in 1 .. n /\ x \in 1 .. n /\ y \in 1 .. n
  OBVIOUS
<1>2. /\ \A u, v \in 1 .. n : order[u] = order[v] => u = v
      /\ \A u, v \in 1 .. n : p[u] = p[v] => u = v
      /\ x # y /\ m - 1 < m
  <2>1. /\ \A u, v \in 1 .. n : order[u] = order[v] => u = v
        /\ \A u, v \in 1 .. n : p[u] = p[v] => u = v
    BY <1>1 DEF OnceEach
  <2> QED
    BY <2>1, <1>1
<1>3. /\ <<x, y>> \notin edges /\ <<x, y>> \notin LocalOrder
  BY <1>1 DEF Respects
<1>4. <<y, x>> \notin LocalOrder
  <2>1. <<order[m], order[m - 1]>> \notin LocalOrder
    <3>1. m - 1 \in DOMAIN log /\ m \in DOMAIN log /\ m - 1 < m
      BY <1>1, <1>2
    <3> QED
      BY <3>1 DEF Respects
  <2> QED
    BY <2>1
<1> HIDE DEF n, x, y
<1>5. ~same_sync_thread(x, y)
  <2>1. log[x].thread # log[y].thread
    <3>1. /\ x \in DOMAIN log /\ y \in DOMAIN log /\ (x < y \/ y < x)
      BY <1>1, <1>2
    <3>2. /\ <<x, y>> \in (DOMAIN log) \X (DOMAIN log) /\ <<x, y>>[1] = x /\ <<x, y>>[2] = y
          /\ <<y, x>> \in (DOMAIN log) \X (DOMAIN log) /\ <<y, x>>[1] = y /\ <<y, x>>[2] = x
      BY <3>1
    <3>3. x < y => log[x].thread # log[y].thread
      BY <3>2, <1>3 DEF LocalOrder
    <3>4. y < x => log[y].thread # log[x].thread
      BY <3>2, <1>4 DEF LocalOrder
    <3> QED
      BY <3>1, <3>3, <3>4
  <2>2. log[x] \in Records /\ log[y] \in Records
    BY <1>1 DEF n
  <2> QED
    BY <2>1, <2>2, MetadataIsThread DEF same_sync_thread
<1>6. interleaving_node(y)
  <2> SUFFICES ASSUME ~interleaving_node(y) PROVE FALSE
    OBVIOUS
  <2>1. p[y] = y /\ order[y] = y
    BY <1>1 DEF InPlace
  <2>2. y = l /\ y = m
    BY <2>1, <1>1, <1>2 DEF y
  <2> QED
    BY <2>2, <1>1
<1>7. interleaving_node(x)
  <2> SUFFICES ASSUME ~interleaving_node(x) PROVE FALSE
    OBVIOUS
  <2>1. p[x] = x /\ order[x] = x
    BY <1>1 DEF InPlace
  <2>2. x = i /\ x = m - 1
    <3>1. x = i
      BY <2>1, <1>1, <1>2 DEF x
    <3>2. order[x] = order[m - 1]
      BY <2>1 DEF x
    <3>3. x = m - 1
      BY <3>2, <1>1, <1>2
    <3> QED
      BY <3>1, <3>3
  <2>3. y < x
    BY <2>2, <1>1 DEF y
  <2>4. x < m
    BY <2>2, <1>1
  <2>5. x < order[m]
    BY <2>4, <1>1 DEF InPlace
  <2> QED
    BY <2>3, <2>5, <1>1 DEF y
<1> QED
  BY <1>3, <1>5, <1>6, <1>7 DEF Swappable, directly_ordered, x, y

\* Among schedules kept under swaps there is every legal one: one that agrees
\* with it on the longest prefix, and then has the next event earliest, is it.
LEMMA LegalReached ==
  ASSUME Unmarked = {}, WalkType, LegalInv, AllRespect(LocalOrder), AllInPlace, Closed,
         orders # <<>>,
         NEW p \in [DOMAIN log -> DOMAIN log], OnceEach(p),
         \A k \in DOMAIN log : ~interleaving_node(k) => p[k] = k,
         \A k \in DOMAIN log : ~interleaving_node(k) => \A j \in DOMAIN log : j < k => p[j] < k,
         Respects(p, edges), Respects(p, LocalOrder)
  PROVE  p \in ToSet(orders)
<1> DEFINE n == Len(log)
           Agree(a, l) == \A k \in 1 .. l : orders[a][k] = p[k]
           gaps == {g \in 0 .. n : \E a \in DOMAIN orders : Agree(a, n - g)}
<1>1. /\ n \in Nat /\ DOMAIN log = 1 .. n /\ log \in Seq(Records)
      /\ p \in [1 .. n -> 1 .. n]
      /\ 1 \in DOMAIN orders
  <2>1. n \in Nat /\ DOMAIN log = 1 .. n /\ log \in Seq(Records)
    BY DEF WalkType
  <2>2. 1 \in DOMAIN orders
    BY EmptySeq DEF WalkType
  <2> QED
    BY <2>1, <2>2
<1>2. \A a \in DOMAIN orders :
        /\ orders[a] \in [1 .. n -> 1 .. n] /\ OnceEach(orders[a])
        /\ InPlace(orders[a]) /\ Respects(orders[a], LocalOrder)
  BY ScheduleType DEF LegalInv, AllOnceEach, AllInPlace, AllRespect
<1> HIDE DEF n
<1>3. PICK g \in gaps : \A h \in gaps : g <= h
  <2>1. n \in gaps
    BY <1>1
  <2>2. gaps \in SUBSET Nat
    BY <1>1
  <2> HIDE DEF gaps
  <2> QED
    BY <2>1, <2>2, LeastNatural
<1>4. CASE g = 0
  <2>1. PICK a \in DOMAIN orders : Agree(a, n)
    BY <1>1, <1>3, <1>4
  <2>2. orders[a] = p
    BY <2>1, <1>1, <1>2
  <2> QED
    BY <2>2 DEF ToSet
<1>5. CASE g # 0
  <2> DEFINE l == n - g + 1
             places == {m \in 1 .. n : \E a \in DOMAIN orders : Agree(a, l - 1) /\ orders[a][m] = p[l]}
  <2>1. g \in 1 .. n /\ l \in 1 .. n /\ l - 1 = n - g
    BY <1>1, <1>3, <1>5
  <2>2. places # {}
    <3>1. PICK a \in DOMAIN orders : Agree(a, l - 1)
      BY <1>3, <2>1
    <3>2. p[l] \in 1 .. n
      BY <1>1, <2>1
    <3>3. \A i \in 1 .. n : \E m \in 1 .. n : orders[a][m] = i
      <4>1. OnceEach(orders[a]) /\ DOMAIN log = 1 .. n
        BY <1>1, <1>2, <3>1
      <4> QED
        BY <4>1 DEF OnceEach
    <3> QED
      BY <3>1, <3>2, <3>3
  <2>3. PICK m \in places : \A k \in places : m <= k
    <3>1. places \in SUBSET Nat
      BY <1>1
    <3> HIDE DEF places
    <3> QED
      BY <2>2, <3>1, LeastNatural
  <2>4. PICK a \in DOMAIN orders : Agree(a, l - 1) /\ orders[a][m] = p[l]
    BY <2>3
  <2> DEFINE order == orders[a]
  <2>5. /\ order \in [1 .. n -> 1 .. n] /\ OnceEach(order)
        /\ InPlace(order) /\ Respects(order, LocalOrder)
    BY <1>2
  <2>6. /\ \A x, y \in 1 .. n : order[x] = order[y] => x = y
        /\ \A x, y \in 1 .. n : p[x] = p[y] => x = y
        /\ \A x \in 1 .. n : \E k \in 1 .. n : p[k] = x
    BY <2>5, <1>1 DEF OnceEach
  <2>7. m \in 1 .. n /\ order[m] = p[l] /\ \A k \in 1 .. l - 1 : order[k] = p[k]
    BY <2>3, <2>4
  <2>8. m # l
    <3> SUFFICES ASSUME m = l PROVE FALSE
      OBVIOUS
    <3>1. \A k \in 1 .. l : order[k] = p[k]
      BY <2>7, <2>1, <1>1
    <3>2. Agree(a, n - (g - 1)) /\ g - 1 \in 0 .. n
      BY <3>1, <2>1, <1>1
    <3>3. g - 1 \in gaps
      BY <3>2
    <3> QED
      BY <3>3, <1>3, <2>1
  <2> HIDE DEF order
  <2>9. l < m
    <3> SUFFICES ASSUME m < l PROVE FALSE
      BY <2>1, <2>7, <2>8, <1>1
    <3>1. order[m] = p[m]
      BY <2>7, <2>1, <1>1
    <3> QED
      BY <3>1, <2>1, <2>6, <2>7, <1>1
  <2>10. m - 1 \in 1 .. n /\ m \in 2 .. n /\ m - 1 \in 1 .. n - 1
    BY <2>1, <2>7, <2>9, <1>1
  <2>11. PICK i \in 1 .. n : p[i] = order[m - 1]
    BY <2>5, <2>6, <2>10
  <2>12. l < i
    <3>1. i # l
      <4>1. order[m] # order[m - 1]
        BY <2>6, <2>7, <2>10
      <4> QED
        BY <4>1, <2>7, <2>11
    <3>2. CASE i < l
      <4>1. order[i] = p[i]
        <5>1. i \in 1 .. l - 1
          BY <3>2, <2>1, <1>1
        <5> QED
          BY <5>1, <2>7
      <4>2. i = m - 1
        BY <4>1, <2>6, <2>10, <2>11
      <4> QED
        BY <4>2, <3>2, <2>1, <2>9, <1>1
    <3> QED
      BY <3>1, <3>2, <2>1, <1>1
  <2>13. Swappable(order[m - 1], order[m])
    BY <2>1, <2>5, <2>7, <2>9, <2>10, <2>11, <2>12, <1>1, FreeNeighbours DEF n
  <2>14. Swapped(order, m - 1) \in ToSet(orders)
    <3>1. m - 1 + 1 = m
      BY <2>10
    <3> QED
      BY <3>1, <2>10, <2>13 DEF Closed, order, n
  <2>15. PICK b \in DOMAIN orders : orders[b] = Swapped(order, m - 1)
    BY <2>14 DEF ToSet
  <2>16. /\ orders[b][m - 1] = order[m]
         /\ \A k \in 1 .. n : k # m - 1 /\ k # m => orders[b][k] = order[k]
    <3>1. m - 1 + 1 = m
      BY <2>10
    <3>2. /\ Swapped(order, m - 1)[m - 1] = order[m - 1 + 1]
          /\ \A k \in 1 .. n : k # m - 1 /\ k # m - 1 + 1 => Swapped(order, m - 1)[k] = order[k]
      <4> HIDE DEF l
      <4> QED
        BY <2>5, <2>10, <1>1, SwappedPlaces
    <3> QED
      BY <3>1, <3>2, <2>15
  <2>17. Agree(b, l - 1)
    BY <2>1, <2>7, <2>9, <2>16, <1>1
  <2>18. m - 1 \in places
    BY <2>7, <2>10, <2>16, <2>17
  <2> QED
    BY <2>3, <2>10, <2>18
<1> QED
  BY <1>4, <1>5
\* Keeping pairs by the place of each event is respecting them by places.
LEMMA KeepsIsRespects ==
  ASSUME log \in Seq(Records), NEW p \in [DOMAIN log -> DOMAIN log], OnceEach(p),
         NEW pairs, Keeps(p, pairs)
  PROVE  Respects(p, pairs)
<1> SUFFICES ASSUME NEW k \in DOMAIN log, NEW m \in DOMAIN log, k < m, <<p[m], p[k]>> \in pairs
             PROVE  FALSE
  BY DEF Respects
<1>1. \A j \in DOMAIN log : Place(p, p[j]) = j
  BY DEF OnceEach, Place
<1>2. Place(p, p[m]) < Place(p, p[k])
  BY DEF Keeps
<1>3. m < k
  BY <1>1, <1>2
<1>4. k \in Nat /\ m \in Nat
  OBVIOUS
<1> QED
  BY <1>3, <1>4

\* A schedule that misses no event has every event once.
LEMMA AllIsOnceEach ==
  ASSUME log \in Seq(Records), NEW p \in [DOMAIN log -> DOMAIN log],
         \A i \in DOMAIN log : \E k \in DOMAIN log : p[k] = i
  PROVE  OnceEach(p)
<1>1. IsFiniteSet(DOMAIN log)
  <2>1. DOMAIN log = 1 .. Len(log) /\ Len(log) \in Nat
    OBVIOUS
  <2> QED
    BY <2>1, FS_Interval
<1>2. p \in Surjection(DOMAIN log, DOMAIN log)
  BY DEF Surjection
<1>3. p \in Injection(DOMAIN log, DOMAIN log)
  BY <1>1, <1>2, FS_SurjSameCardinalityImpliesInj
<1> QED
  BY <1>3 DEF Injection, IsInjective, OnceEach

\* For any records, edges and limit: a walk that ends by itself, under its limit
\* and without a counterexample, has seen every schedule that keeps the recorded
\* edges and the order of the threads, although it only swaps neighbours, and
\* none of them has a finding that the recorded order has not
\* (p101_tool_analysis_write_interleaving).
THEOREM WalkExhaustive == ASSUME Unmarked = {} PROVE Spec => []Exhaustive
<1>1. WalkType /\ LegalInv /\ AllRespect(LocalOrder) /\ SearchInv /\ FreshIsLatest => Exhaustive
  <2> SUFFICES ASSUME WalkType, LegalInv, AllRespect(LocalOrder), SearchInv, FreshIsLatest,
                      phase = "done", fresh = {}, Len(orders) < schedule_limit,
                      NEW p \in [DOMAIN log -> DOMAIN log],
                      \A i \in DOMAIN log : \E k \in DOMAIN log : p[k] = i,
                      \A k \in DOMAIN log : ~interleaving_node(k) => p[k] = k,
                      \A k \in DOMAIN log : ~interleaving_node(k) =>
                        \A j \in DOMAIN log : j < k => p[j] < k,
                      Keeps(p, edges), Keeps(p, LocalOrder)
               PROVE  p \in ToSet(orders) /\ Keys(p) \subseteq baseline
    BY DEF Exhaustive
  <2>1. log \in Seq(Records) /\ orders # <<>>
    BY DEF WalkType
  <2>2. OnceEach(p)
    BY <2>1, AllIsOnceEach
  <2>3. Respects(p, edges) /\ Respects(p, LocalOrder)
    BY <2>1, <2>2, KeepsIsRespects
  <2>4. Closed
    <3>1. Len(orders) < queue_index /\ DOMAIN orders = 1 .. Len(orders) /\ Len(orders) \in Nat
      BY DEF SearchInv, Going, WalkType
    <3>2. \A a \in DOMAIN orders : a < queue_index
      BY <3>1 DEF WalkType
    <3> QED
      BY <3>2 DEF SearchInv, AllExplored, Passed, Closed
  <2>5. p \in ToSet(orders)
    BY <2>1, <2>2, <2>3, <2>4, LegalReached DEF SearchInv
  <2>6. Keys(p) \subseteq baseline
    <3>1. PICK a \in DOMAIN orders : orders[a] = p
      BY <2>5 DEF ToSet
    <3>2. Keys(orders[a]) \subseteq baseline
      <4>1. a \in 1 .. Len(orders) /\ Len(orders) \in Nat
        BY DEF WalkType
      <4>2. CASE a = Len(orders)
        BY <2>1, <4>2 DEF FreshIsLatest
      <4>3. CASE a \in 1 .. Len(orders) - 1
        BY <4>3 DEF FreshIsLatest
      <4> QED
        BY <4>1, <4>2, <4>3
    <3> QED
      BY <3>1, <3>2
  <2> QED
    BY <2>5, <2>6
<1> QED
  BY <1>1, WalkTyped, ScheduleInv, LocalInv, SearchCorrect, WayInv, PTL
=============================================================================
