------------------------- MODULE ThreadReplay_proofs -------------------------
(***************************************************************************)
(* Proofs about ThreadReplay and the policy of SyncPolicy that it feeds,   *)
(* for any threads, mutexes, conditions and number of records.  What the   *)
(* policy keeps is what the threads did: the locks they hold, the waits    *)
(* they are in, who consumed whom, how locks were nested.  So the policy   *)
(* reports a lock order cycle, a misuse and, at the end, a deadlock        *)
(* exactly when there is one, and with three mutexes its arrays suffice.   *)
(***************************************************************************)
EXTENDS ThreadReplay, DataLemmas, FiniteSetTheorems

-----------------------------------------------------------------------------
(* The search.  What it reaches is the least set that holds the start and  *)
(* that no edge leaves.                                                    *)

Closed(E, C) == \A e \in E : e[1] \in C => e[2] \in C
Grown(E, V) == V \cup {e[2] : e \in {d \in E : d[1] \in V}}

\* What the rounds of the search reach, as a sequence of sets.
LEMMA ReachedIs ==
  ASSUME NEW E, IsFiniteSet(E), NEW a
  PROVE  \E R : /\ R[0] = {a} /\ \A n \in 1 .. Cardinality(E) : R[n] = Grown(E, R[n - 1])
                /\ \A b : Reaches(E, a, b) <=> b \in R[Cardinality(E)]
<1> DEFINE N == Cardinality(E)
           Body(f, n) == IF n = 0 THEN {a} ELSE Grown(E, f[n - 1])
           R == CHOOSE f : f = [n \in 0 .. N |-> Body(f, n)]
           S == SUBSET ({a} \cup {e[2] : e \in E})
           step == [x \in (1 .. N) \X S |-> Grown(E, x[2])]
<1>1. N \in Nat
  BY FS_CardinalityType
<1>2. \A b : Reaches(E, a, b) <=> b \in R[N]
  BY DEF Reaches, Grown
<1>3. step \in [(1 .. N) \X S -> S] /\ {a} \in S
  BY DEF Grown
<1>4. \A n \in 1 .. N, V \in S : step[<<n, V>>] = Grown(E, V)
  OBVIOUS
<1>5. PICK g : Takes(g, N, S, {a}, step)
  <2> HIDE DEF S, step, N
  <2> QED
    BY <1>1, <1>3, Iterated
<1>6. g = [n \in 0 .. N |-> Body(g, n)]
  <2> HIDE DEF S, step, N
  <2>1. ASSUME NEW n \in 0 .. N PROVE g[n] = Body(g, n)
    <3>1. n # 0 => n \in 1 .. N /\ n - 1 \in 0 .. N
      BY <1>1
    <3> QED
      BY <1>4, <1>5, <3>1 DEF Takes
  <2>2. g = [n \in 0 .. N |-> g[n]]
    BY <1>5 DEF Takes
  <2> HIDE DEF Body
  <2> QED
    BY <2>1, <2>2
<1>7. R = [n \in 0 .. N |-> Body(R, n)]
  <2> HIDE DEF Body, N
  <2> QED
    BY <1>6
<1> HIDE DEF R, N
<1>8. R[0] = {a}
  <2>1. 0 \in 0 .. N
    BY <1>1
  <2> QED
    BY <1>7, <2>1
<1>9. ASSUME NEW n \in 1 .. N PROVE R[n] = Grown(E, R[n - 1])
  <2>1. n \in 0 .. N /\ n # 0
    BY <1>1
  <2> QED
    BY <1>7, <2>1
<1> QED
  BY <1>2, <1>8, <1>9 DEF N

\* sync_reaches ends with nothing more to visit: as long as a round finds
\* something new it uses an edge that no round used before.
LEMMA ReachesIs ==
  ASSUME NEW E, IsFiniteSet(E), NEW a
  PROVE  /\ Reaches(E, a, a)
         /\ \A e \in E : Reaches(E, a, e[1]) => Reaches(E, a, e[2])
         /\ \A C, b : a \in C /\ Closed(E, C) /\ Reaches(E, a, b) => b \in C
<1> DEFINE N == Cardinality(E)
<1>1. N \in Nat
  BY FS_CardinalityType
<1>2. PICK R : /\ R[0] = {a} /\ \A n \in 1 .. N : R[n] = Grown(E, R[n - 1])
               /\ \A b : Reaches(E, a, b) <=> b \in R[N]
  BY ReachedIs
<1> DEFINE used(n) == {e \in E : e[1] \in R[n]}
           H == {n \in 0 .. N : /\ a \in R[n]
                                /\ \A C : a \in C /\ Closed(E, C) => R[n] \subseteq C
                                /\ Closed(E, R[n]) \/ n + 1 <= Cardinality(used(n))}
<1>3. \A n : used(n) \in SUBSET E /\ IsFiniteSet(used(n)) /\ Cardinality(used(n)) \in Nat
             /\ Cardinality(used(n)) <= N
  <2> TAKE n
  <2>1. used(n) \in SUBSET E
    OBVIOUS
  <2> HIDE DEF used
  <2>2. IsFiniteSet(used(n)) /\ Cardinality(used(n)) <= N
    BY <2>1, FS_Subset
  <2> QED
    BY <2>1, <2>2, FS_CardinalityType
<1>4. \A n : Closed(E, R[n]) => Grown(E, R[n]) = R[n]
  BY DEF Closed, Grown
<1>5. 0 \in H
  <2>1. 0 \in 0 .. N
    BY <1>1
  <2>2. ASSUME ~Closed(E, R[0]) PROVE 1 <= Cardinality(used(0))
    <3>1. used(0) # {}
      BY <2>2 DEF Closed
    <3>2. Cardinality(used(0)) # 0
      <4> HIDE DEF used
      <4> QED
        BY <1>3, <3>1, FS_EmptySet
    <3> HIDE DEF used
    <3> QED
      BY <1>3, <3>2
  <2> HIDE DEF used
  <2> QED
    BY <1>2, <2>1, <2>2
<1>6. ASSUME NEW n \in 1 .. N, n - 1 \in H PROVE n \in H
  <2>1. R[n] = Grown(E, R[n - 1])
    BY <1>2
  <2>2. /\ a \in R[n - 1]
        /\ \A C : a \in C /\ Closed(E, C) => R[n - 1] \subseteq C
        /\ Closed(E, R[n - 1]) \/ n - 1 + 1 <= Cardinality(used(n - 1))
    BY <1>6
  <2>3. a \in R[n] /\ R[n - 1] \subseteq R[n]
    BY <2>1, <2>2 DEF Grown
  <2>4. \A C : a \in C /\ Closed(E, C) => R[n] \subseteq C
    BY <2>1, <2>2 DEF Grown, Closed
  <2>5. ASSUME ~Closed(E, R[n]) PROVE n + 1 <= Cardinality(used(n))
    <3>1. ~Closed(E, R[n - 1])
      BY <1>4, <2>1, <2>5
    <3>2. n <= Cardinality(used(n - 1))
      <4> HIDE DEF used
      <4> QED
        BY <2>2, <3>1
    <3>3. PICK e \in E : e[1] \in R[n] /\ e[2] \notin R[n]
      BY <2>5 DEF Closed
    <3>4. e \in used(n) /\ e \notin used(n - 1)
      BY <2>1, <3>3 DEF Grown
    <3>5. used(n - 1) \subseteq used(n)
      BY <2>3
    <3> HIDE DEF used
    <3>6. /\ Cardinality(used(n - 1)) <= Cardinality(used(n))
          /\ Cardinality(used(n - 1)) # Cardinality(used(n))
      BY <1>3, <3>4, <3>5, FS_Subset
    <3>7. Cardinality(used(n - 1)) \in Nat /\ Cardinality(used(n)) \in Nat
      BY <1>3
    <3> QED
      BY <3>2, <3>6, <3>7
  <2>6. n \in 0 .. N
    BY <1>1
  <2> HIDE DEF used
  <2> QED
    BY <2>3, <2>4, <2>5, <2>6
<1>7. N \in H
  <2> HIDE DEF H, N
  <2>1. \A n \in 0 .. N : n \in H
    BY <1>1, <1>5, <1>6, UpTo
  <2> QED
    BY <1>1, <2>1
<1>8. Closed(E, R[N])
  <2>1. Closed(E, R[N]) \/ N + 1 <= Cardinality(used(N))
    BY <1>7
  <2>2. Cardinality(used(N)) \in Nat /\ Cardinality(used(N)) <= N
    BY <1>3
  <2> HIDE DEF used, H
  <2> QED
    BY <1>1, <2>1, <2>2
<1> QED
  BY <1>2, <1>7, <1>8 DEF Closed

\* Where the search leads from a node it leads from every node before it.
LEMMA ReachesOn ==
  ASSUME NEW E, IsFiniteSet(E), NEW a, NEW b, NEW c, Reaches(E, a, b), Reaches(E, b, c)
  PROVE  Reaches(E, a, c)
<1> DEFINE R == {x \in {e[2] : e \in E} \cup {a} : Reaches(E, a, x)}
<1>1. Closed(E, R) /\ b \in R
  <2>1. \A e \in E : Reaches(E, a, e[1]) => Reaches(E, a, e[2])
    BY ReachesIs
  <2>2. Closed(E, {e[2] : e \in E} \cup {a}) /\ a \in {e[2] : e \in E} \cup {a}
    BY DEF Closed
  <2>3. b \in {e[2] : e \in E} \cup {a}
    BY <2>2, ReachesIs
  <2> QED
    BY <2>1, <2>3 DEF Closed
<1> HIDE DEF R
<1>2. c \in R
  BY <1>1, ReachesIs
<1> QED
  BY <1>2 DEF R

\* More edges lead to no fewer nodes.
LEMMA ReachesMore ==
  ASSUME NEW E, IsFiniteSet(E), NEW F, IsFiniteSet(F), E \subseteq F, NEW a, NEW b, Reaches(E, a, b)
  PROVE  Reaches(F, a, b)
<1> DEFINE R == {x \in {e[2] : e \in F} \cup {a} : Reaches(F, a, x)}
<1>1. Closed(E, R) /\ a \in R
  <2>1. Reaches(F, a, a) /\ \A e \in F : Reaches(F, a, e[1]) => Reaches(F, a, e[2])
    BY ReachesIs
  <2> QED
    BY <2>1 DEF Closed
<1> HIDE DEF R
<1>2. b \in R
  BY <1>1, ReachesIs
<1> QED
  BY <1>2 DEF R

Loop(E, V) == \E S \in (SUBSET V) \ {{}} : \A a \in S : \E b \in S : <<a, b>> \in E

\* One more edge closes a loop if its end led back to its start before.
LEMMA LoopAdds ==
  ASSUME NEW V, NEW E \in SUBSET (V \X V), IsFiniteSet(E), NEW x \in V, NEW y \in V
  PROVE  Loop(E \cup {<<y, x>>}, V) <=> Loop(E, V) \/ Reaches(E, x, y)
<1> DEFINE F == E \cup {<<y, x>>}
           R == {v \in V : Reaches(E, x, v)}
<1>1. /\ \A v \in V : Reaches(E, v, v)
      /\ \A v, u, w \in V : Reaches(E, v, u) /\ <<u, w>> \in E => Reaches(E, v, w)
  <2>1. ASSUME NEW v \in V
        PROVE  Reaches(E, v, v) /\ \A e \in E : Reaches(E, v, e[1]) => Reaches(E, v, e[2])
    BY ReachesIs
  <2>2. ASSUME NEW v \in V, NEW u \in V, NEW w \in V, Reaches(E, v, u), <<u, w>> \in E
        PROVE  Reaches(E, v, w)
    <3> DEFINE e == <<u, w>>
    <3>1. e[1] = u /\ e[2] = w /\ e \in E
      BY <2>2
    <3> HIDE DEF e
    <3>2. Reaches(E, v, e[1]) => Reaches(E, v, e[2])
      BY <2>1, <3>1
    <3> QED
      BY <2>2, <3>1, <3>2
  <2> QED
    BY <2>1, <2>2
<1>2. ASSUME Loop(E, V) PROVE Loop(F, V)
  <2>1. PICK S \in (SUBSET V) \ {{}} : \A a \in S : \E b \in S : <<a, b>> \in E
    BY <1>2 DEF Loop
  <2>2. \A a \in S : \E b \in S : <<a, b>> \in F
    BY <2>1
  <2> QED
    BY <2>2 DEF Loop
<1>3. ASSUME Reaches(E, x, y) PROVE Loop(F, V)
  <2> DEFINE S == {v \in R : Reaches(E, v, y)}
  <2>1. x \in S /\ S \in SUBSET V
    BY <1>1, <1>3
  <2>2. ASSUME NEW a \in S PROVE \E b \in S : <<a, b>> \in F
    <3>1. CASE a = y
      BY <2>1, <3>1
    <3>2. CASE a # y
      <4>1. a \in V /\ Reaches(E, x, a) /\ Reaches(E, a, y)
        OBVIOUS
      <4>2. PICK b \in V : <<a, b>> \in E /\ Reaches(E, b, y)
        <5> SUFFICES ASSUME \A b \in V : <<a, b>> \in E => ~Reaches(E, b, y)
                     PROVE  FALSE
          OBVIOUS
        <5> DEFINE C == {a} \cup {v \in V : \E b \in V : <<a, b>> \in E /\ Reaches(E, b, v)}
        <5>1. Closed(E, C)
          <6> SUFFICES ASSUME NEW e \in E, e[1] \in C PROVE e[2] \in C
            BY DEF Closed
          <6>1. e[1] \in V /\ e[2] \in V /\ <<e[1], e[2]>> \in E
            OBVIOUS
          <6>2. CASE e[1] = a
            BY <1>1, <6>1, <6>2
          <6>3. CASE e[1] # a
            <7>1. PICK b \in V : <<a, b>> \in E /\ Reaches(E, b, e[1])
              BY <6>3
            <7>2. Reaches(E, b, e[2])
              BY <1>1, <6>1, <7>1
            <7> QED
              BY <6>1, <7>1, <7>2
          <6> QED
            BY <6>2, <6>3
        <5>2. a \in C /\ y \notin C
          BY <3>2
        <5> HIDE DEF C
        <5> QED
          BY <4>1, <5>1, <5>2, ReachesIs
      <4>3. Reaches(E, x, b)
        BY <1>1, <4>1, <4>2
      <4> QED
        BY <4>2, <4>3
    <3> QED
      BY <3>1, <3>2
  <2> HIDE DEF S
  <2> QED
    BY <2>1, <2>2 DEF Loop
<1>4. ASSUME Loop(F, V), ~Reaches(E, x, y) PROVE Loop(E, V)
  <2>1. PICK S \in (SUBSET V) \ {{}} : \A a \in S : \E b \in S : <<a, b>> \in F
    BY <1>4 DEF Loop
  <2>2. CASE S \cap R # {}
    <3>1. ASSUME NEW a \in S \cap R PROVE \E b \in S \cap R : <<a, b>> \in E
      <4>1. PICK b \in S : <<a, b>> \in F
        BY <2>1
      <4>2. a # y /\ b \in V
        BY <1>4, <2>1
      <4>3. <<a, b>> \in E
        BY <4>1, <4>2
      <4>4. Reaches(E, x, b)
        BY <1>1, <4>2, <4>3
      <4> QED
        BY <4>2, <4>3, <4>4
    <3>2. S \cap R \in (SUBSET V) \ {{}}
      BY <2>2
    <3> QED
      BY <3>1, <3>2 DEF Loop
  <2>3. CASE S \cap R = {}
    <3>1. x \notin S
      BY <1>1, <2>3
    <3>2. ASSUME NEW a \in S PROVE \E b \in S : <<a, b>> \in E
      BY <2>1, <3>1
    <3> QED
      BY <3>2 DEF Loop
  <2> QED
    BY <2>2, <2>3
<1> QED
  BY <1>2, <1>3, <1>4

\* In a loop, some edge is led back to its start.
LEMMA LoopReaches ==
  ASSUME NEW V, NEW E \in SUBSET (V \X V), IsFiniteSet(E)
  PROVE  Loop(E, V) <=> \E e \in E : Reaches(E, e[2], e[1])
<1>1. \A v, u, w \in V : Reaches(E, v, v)
                         /\ (Reaches(E, v, u) /\ <<u, w>> \in E => Reaches(E, v, w))
  <2> SUFFICES ASSUME NEW v \in V, NEW u \in V, NEW w \in V
               PROVE  Reaches(E, v, v) /\ (Reaches(E, v, u) /\ <<u, w>> \in E => Reaches(E, v, w))
    OBVIOUS
  <2>1. Reaches(E, v, v) /\ \A e \in E : Reaches(E, v, e[1]) => Reaches(E, v, e[2])
    BY ReachesIs
  <2> DEFINE e == <<u, w>>
  <2>2. e[1] = u /\ e[2] = w
    OBVIOUS
  <2> HIDE DEF e
  <2>3. e \in E => (Reaches(E, v, e[1]) => Reaches(E, v, e[2]))
    BY <2>1
  <2> QED
    BY <2>1, <2>2, <2>3 DEF e
<1>2. ASSUME NEW e \in E, Reaches(E, e[2], e[1]) PROVE Loop(E, V)
  <2> DEFINE x == e[2]
             y == e[1]
  <2>1. x \in V /\ y \in V /\ e = <<y, x>>
    OBVIOUS
  <2>2. E \cup {<<y, x>>} = E
    BY <2>1
  <2> HIDE DEF x, y
  <2>3. Reaches(E, x, y)
    BY <1>2 DEF x, y
  <2> QED
    BY <2>1, <2>2, <2>3, LoopAdds
<1>3. ASSUME Loop(E, V) PROVE \E e \in E : Reaches(E, e[2], e[1])
  <2> DEFINE Looping(S) == S # {} /\ S \in SUBSET V /\ \A a \in S : \E b \in S : <<a, b>> \in E
             starts == {e[1] : e \in E}
             sizes == {n \in Nat : \E S \in SUBSET V : Looping(S) /\ IsFiniteSet(S) /\ Cardinality(S) = n}
  <2>1. PICK S \in SUBSET V : Looping(S)
    BY <1>3 DEF Loop
  <2>2. IsFiniteSet(starts)
    <3> DEFINE f == [e \in E |-> e[1]]
    <3>1. f \in Surjection(E, starts)
      BY DEF Surjection
    <3> HIDE DEF f, starts
    <3> QED
      BY <3>1, FS_Surjection
  <2>3. S \subseteq starts
    <3> SUFFICES ASSUME NEW a \in S PROVE a \in starts
      OBVIOUS
    <3>1. PICK b \in S : <<a, b>> \in E
      BY <2>1
    <3>2. <<a, b>>[1] = a
      OBVIOUS
    <3> QED
      BY <3>1, <3>2
  <2>4. IsFiniteSet(S) /\ Cardinality(S) \in Nat
    <3> HIDE DEF starts
    <3> QED
      BY <2>2, <2>3, FS_Subset, FS_CardinalityType
  <2>5. sizes # {} /\ sizes \in SUBSET Nat
    BY <2>1, <2>4
  <2>6. PICK n \in sizes : \A m \in sizes : n <= m
    <3> HIDE DEF sizes
    <3> QED
      BY <2>5, LeastNatural
  <2>7. PICK T \in SUBSET V : Looping(T) /\ IsFiniteSet(T) /\ Cardinality(T) = n
    BY <2>6
  <2>8. PICK a \in T, b \in T : <<a, b>> \in E
    BY <2>7
  <2> DEFINE U == {v \in T : Reaches(E, b, v)}
  <2>9. Looping(U)
    <3>1. b \in U
      BY <1>1, <2>7
    <3>2. ASSUME NEW v \in U PROVE \E w \in U : <<v, w>> \in E
      <4>1. PICK w \in T : <<v, w>> \in E
        BY <2>7
      <4>2. Reaches(E, b, w)
        BY <1>1, <2>7, <4>1
      <4> QED
        BY <4>1, <4>2
    <3> QED
      BY <2>7, <3>1, <3>2
  <2>10. IsFiniteSet(U) /\ Cardinality(U) \in Nat /\ Cardinality(U) <= n /\ (Cardinality(U) = n => U = T)
    <3>1. U \in SUBSET T
      OBVIOUS
    <3> HIDE DEF U, Looping, sizes
    <3> QED
      BY <2>7, <3>1, FS_Subset, FS_CardinalityType
  <2>11. Cardinality(U) \in sizes
    BY <2>7, <2>9, <2>10
  <2>12. a \in U
    <3> HIDE DEF U, sizes
    <3>1. n \in Nat /\ n <= Cardinality(U)
      BY <2>5, <2>6, <2>11
    <3> QED
      BY <2>8, <2>10, <3>1
  <2> DEFINE e == <<a, b>>
  <2>13. e[1] = a /\ e[2] = b /\ e \in E
    BY <2>8
  <2> HIDE DEF e
  <2> QED
    BY <2>12, <2>13
<1> QED
  BY <1>2, <1>3

-----------------------------------------------------------------------------
(* What is left of a sequence without its place k.                         *)

Up(k, i) == IF i < k THEN i ELSE i + 1
Down(k, i) == IF i < k THEN i ELSE i - 1

\* Places move up by one from k on, and keep their order.
LEMMA UpIs ==
  ASSUME NEW n \in Nat, NEW k \in 1 .. n
  PROVE  /\ \A i \in 1 .. n - 1 : Up(k, i) \in 1 .. n /\ Up(k, i) # k
         /\ \A i \in 1 .. n : i # k => Down(k, i) \in 1 .. n - 1 /\ Up(k, Down(k, i)) = i
         /\ \A i, j \in 1 .. n - 1 : Up(k, i) < Up(k, j) <=> i < j
         /\ \A i, j \in 1 .. n - 1 : Up(k, i) = Up(k, j) => i = j
BY DEF Up, Down

\* Without place k, each place has what the place it came from had.
LEMMA WithoutIs ==
  ASSUME NEW T, NEW s \in Seq(T), NEW k \in 1 .. Len(s)
  PROVE  /\ Without(s, k) \in Seq(T) /\ Len(Without(s, k)) = Len(s) - 1
         /\ \A i \in 1 .. Len(s) - 1 : Without(s, k)[i] = s[Up(k, i)]
<1> DEFINE n == Len(s)
           a == SubSeq(s, 1, k - 1)
           b == SubSeq(s, k + 1, n)
<1>1. n \in Nat /\ k \in 1 .. n /\ \A i \in 1 .. n : s[i] \in T
  OBVIOUS
<1>2. Without(s, k) = a \o b
  <2>1. k # 0
    BY <1>1
  <2> QED
    BY <2>1 DEF Without, RemoveAt
<1>3. /\ a \in Seq(T) /\ Len(a) = k - 1 /\ \A i \in 1 .. k - 1 : a[i] = s[i]
      /\ b \in Seq(T) /\ Len(b) = n - k /\ \A i \in 1 .. n - k : b[i] = s[k + i]
  <2>1. a \in Seq(T) /\ Len(a) = k - 1 /\ \A i \in 1 .. k - 1 : a[i] = s[i]
    BY <1>1
  <2>2. b \in Seq(T) /\ Len(b) = n - k /\ \A i \in 1 .. n - k : b[i] = s[k + i]
    BY <1>1
  <2> QED
    BY <2>1, <2>2
<1> HIDE DEF a, b
<1>4. a \o b \in Seq(T) /\ Len(a \o b) = n - 1
  BY <1>1, <1>3
<1>5. ASSUME NEW i \in 1 .. n - 1 PROVE (a \o b)[i] = s[Up(k, i)]
  <2>1. CASE i < k
    BY <1>1, <1>3, <2>1 DEF Up
  <2>2. CASE ~(i < k)
    <3>1. (a \o b)[i] = b[i - (k - 1)]
      BY <1>1, <1>3, <2>2
    <3>2. i - (k - 1) \in 1 .. n - k /\ k + (i - (k - 1)) = i + 1
      BY <1>1, <2>2
    <3> QED
      BY <1>3, <2>2, <3>1, <3>2 DEF Up
  <2> QED
    BY <2>1, <2>2
<1> QED
  BY <1>2, <1>4, <1>5

\* The latest of some places, if there are any.
LEMMA LatestMax ==
  ASSUME NEW n \in Nat, NEW S \in SUBSET (1 .. n)
  PROVE  /\ S = {} => Max(S \cup {0}) = 0
         /\ S # {} => Max(S \cup {0}) \in S /\ \A x \in S : x <= Max(S \cup {0})
<1> DEFINE T == S \cup {0}
<1>1. T \in SUBSET Nat /\ T # {} /\ \A x \in T : x <= n
  OBVIOUS
<1>2. Max(T) \in T /\ \A x \in T : x <= Max(T)
  <2> HIDE DEF T
  <2> QED
    BY <1>1, MaxIs
<1>3. S # {} => Max(T) # 0
  <2> SUFFICES ASSUME NEW x \in S, Max(T) = 0 PROVE FALSE
    OBVIOUS
  <2>1. x <= 0 /\ x \in 1 .. n
    BY <1>2
  <2> QED
    BY <2>1
<1> QED
  BY <1>2, <1>3

-----------------------------------------------------------------------------
(* The locks that the policy keeps are those of the threads.               *)

Item(t, m) == [thread |-> t, resource |-> m]
Items == [thread : Threads, resource : Mutexes]

\* Each lock is filed once, and those of a thread in the order of its nest.
HeldIs(held, n) ==
  /\ held \in Seq(Items) /\ n \in [Threads -> Seq(Mutexes)]
  /\ \A i, j \in 1 .. Len(held) : held[i].resource = held[j].resource => i = j
  /\ \A t \in Threads : Once(n[t])
  /\ \A t \in Threads : \A p \in 1 .. Len(n[t]) : \E i \in 1 .. Len(held) : held[i] = Item(t, n[t][p])
  /\ \A i \in 1 .. Len(held) :
       \E p \in 1 .. Len(n[held[i].thread]) : n[held[i].thread][p] = held[i].resource
  /\ \A t \in Threads : \A p, q \in 1 .. Len(n[t]) : \A i, j \in 1 .. Len(held) :
       held[i] = Item(t, n[t][p]) /\ held[j] = Item(t, n[t][q]) /\ p < q => i < j

\* An entry is known by its thread and its mutex.
LEMMA ItemIs ==
  ASSUME NEW x \in Items, NEW t, NEW m
  PROVE  x = Item(t, m) <=> x.thread = t /\ x.resource = m
BY DEF Items, Item

\* Who holds a mutex is who is filed with it, and nobody else.
LEMMA HolderIs ==
  ASSUME NEW held, NEW n, HeldIs(held, n), NEW t \in Threads, NEW m \in Mutexes
  PROVE  /\ m \in ToSet(n[t]) <=> \E i \in 1 .. Len(held) : held[i] = Item(t, m)
         /\ \A u \in Threads : m \in ToSet(n[t]) /\ m \in ToSet(n[u]) => t = u
<1>1. n \in [Threads -> Seq(Mutexes)] /\ held \in Seq(Items)
  BY DEF HeldIs
<1>2. ASSUME NEW u \in Threads
      PROVE  m \in ToSet(n[u]) <=> \E i \in 1 .. Len(held) : held[i] = Item(u, m)
  <2>1. m \in ToSet(n[u]) <=> \E p \in 1 .. Len(n[u]) : n[u][p] = m
    <3>1. DOMAIN n[u] = 1 .. Len(n[u])
      BY <1>1
    <3> QED
      BY <3>1 DEF ToSet
  <2>2. ASSUME NEW i \in 1 .. Len(held), held[i] = Item(u, m)
        PROVE  \E p \in 1 .. Len(n[u]) : n[u][p] = m
    <3>1. held[i].thread = u /\ held[i].resource = m
      BY <2>2 DEF Item
    <3> QED
      BY <3>1 DEF HeldIs
  <2>3. ASSUME NEW p \in 1 .. Len(n[u]), n[u][p] = m
        PROVE  \E i \in 1 .. Len(held) : held[i] = Item(u, m)
    BY <2>3 DEF HeldIs
  <2> QED
    BY <2>1, <2>2, <2>3
<1>3. ASSUME NEW u \in Threads, m \in ToSet(n[t]), m \in ToSet(n[u]) PROVE t = u
  <2>1. PICK i \in 1 .. Len(held) : held[i] = Item(t, m)
    BY <1>2, <1>3
  <2>2. PICK j \in 1 .. Len(held) : held[j] = Item(u, m)
    BY <1>2, <1>3
  <2>3. held[i].resource = m /\ held[j].resource = m
    BY <2>1, <2>2 DEF Item
  <2>4. i = j
    BY <2>3 DEF HeldIs
  <2> QED
    BY <2>1, <2>2, <2>4 DEF Item
<1> QED
  BY <1>2, <1>3

\* The latest lock filed of a thread is the innermost of its nest.
LEMMA LatestHeldIs ==
  ASSUME NEW s, NEW n, HeldIs(s.held, n), NEW t \in Threads
  PROVE  /\ n[t] = <<>> <=> LatestHeld(s, t) = 0
         /\ n[t] # <<>> => /\ LatestHeld(s, t) \in 1 .. Len(s.held)
                           /\ s.held[LatestHeld(s, t)] = Item(t, Last(n[t]))
                           /\ Last(n[t]) \in ToSet(n[t])
<1> DEFINE held == s.held
           S == {k \in 1 .. Len(held) : held[k].thread = t}
           top == Max(S \cup {0})
           last == Len(n[t])
<1>1. /\ held \in Seq(Items) /\ Len(held) \in Nat /\ n[t] \in Seq(Mutexes) /\ last \in Nat
  BY DEF HeldIs
<1>2. LatestHeld(s, t) = top
  <2>1. DOMAIN held = 1 .. Len(held)
    BY <1>1
  <2> QED
    BY <2>1 DEF LatestHeld, Latest
<1>3. S \in SUBSET (1 .. Len(held))
  OBVIOUS
<1>4. (S = {} => top = 0) /\ (S # {} => top \in S /\ \A x \in S : x <= top)
  <2> HIDE DEF S
  <2> QED
    BY <1>1, <1>3, LatestMax
<1>5. CASE n[t] = <<>>
  <2>1. 1 .. Len(n[t]) = {}
    BY <1>5
  <2>2. S = {}
    BY <2>1 DEF HeldIs
  <2> HIDE DEF S
  <2> QED
    BY <1>2, <1>4, <1>5, <2>2
<1>6. CASE n[t] # <<>>
  <2>1. last \in 1 .. last
    BY <1>1, <1>6
  <2>2. PICK i \in 1 .. Len(held) : held[i] = Item(t, n[t][last])
    BY <2>1 DEF HeldIs
  <2>3. held[i].thread = t
    BY <2>2 DEF Item
  <2>4. top \in S /\ i <= top /\ top \in 1 .. Len(held)
    <3>1. i \in S
      BY <2>3
    <3> HIDE DEF S
    <3> QED
      BY <1>3, <1>4, <3>1
  <2>5. held[top] \in Items /\ held[top].thread = t
    <3>1. held[top].thread = t
      BY <2>4
    <3> HIDE DEF top, held
    <3> QED
      BY <1>1, <2>4, <3>1
  <2>6. PICK p \in 1 .. last : n[t][p] = held[top].resource
    BY <2>4, <2>5 DEF HeldIs
  <2>7. held[top] = Item(t, n[t][p])
    BY <2>5, <2>6, ItemIs
  <2> HIDE DEF top, held
  <2>8. p < last => top < i
    BY <1>1, <2>1, <2>2, <2>4, <2>7 DEF HeldIs, held
  <2>9. p = last
    BY <1>1, <2>4, <2>8
  <2>10. Last(n[t]) = n[t][last] /\ n[t][last] \in ToSet(n[t])
    <3>1. DOMAIN n[t] = 1 .. last
      BY <1>1
    <3> QED
      BY <2>1, <3>1 DEF Last, ToSet
  <2>11. top # 0
    BY <2>4
  <2> QED
    BY <1>2, <1>6, <2>4, <2>7, <2>9, <2>10, <2>11 DEF held
<1> QED
  BY <1>5, <1>6

\* A finding about a thread that holds locks names the innermost of them.
LEMMA WhileHoldingIs ==
  ASSUME NEW s, NEW n, HeldIs(s.held, n), NEW r, r.thread \in Threads, NEW id
  PROVE  WhileHolding(s, id, r) =
           IF n[r.thread] = <<>> THEN {} ELSE {Finding(id, Last(n[r.thread]), r.resource)}
<1> DEFINE t == r.thread
           k == LatestHeld(s, t)
<1>1. WhileHolding(s, id, r) = IF k = 0 THEN {} ELSE {Finding(id, s.held[k].resource, r.resource)}
  BY DEF WhileHolding
<1>2. n[t] = <<>> <=> k = 0
  BY LatestHeldIs
<1>3. n[t] # <<>> => s.held[k].resource = Last(n[t])
  <2>1. n[t] # <<>> => s.held[k] = Item(t, Last(n[t]))
    BY LatestHeldIs
  <2>2. Item(t, Last(n[t])).resource = Last(n[t])
    BY DEF Item
  <2> QED
    BY <2>1, <2>2
<1> QED
  BY <1>1, <1>2, <1>3

\* One more element at the end.
LEMMA AppendIs ==
  ASSUME NEW T, NEW s \in Seq(T), NEW x \in T
  PROVE  /\ Append(s, x) \in Seq(T) /\ Len(Append(s, x)) = Len(s) + 1
         /\ \A i \in 1 .. Len(s) : Append(s, x)[i] = s[i]
         /\ Append(s, x)[Len(s) + 1] = x
         /\ \A i \in 1 .. Len(s) + 1 : i # Len(s) + 1 => i \in 1 .. Len(s)
OBVIOUS

\* Acquiring a lock that nobody holds.
LEMMA HeldAcquired ==
  ASSUME NEW held, NEW n, HeldIs(held, n), NEW t \in Threads, NEW m \in Mutexes,
         \A u \in Threads : m \notin ToSet(n[u])
  PROVE  HeldIs(Append(held, Item(t, m)), [n EXCEPT ![t] = Append(@, m)])
<1> DEFINE held2 == Append(held, Item(t, m))
           n2 == [n EXCEPT ![t] = Append(@, m)]
           h == Len(held)
           l == Len(n[t])
<1>1. /\ held \in Seq(Items) /\ n \in [Threads -> Seq(Mutexes)] /\ n[t] \in Seq(Mutexes)
      /\ h \in Nat /\ l \in Nat /\ Item(t, m) \in Items
  BY DEF HeldIs, Items, Item
<1>2. /\ held2 \in Seq(Items) /\ Len(held2) = h + 1
      /\ \A i \in 1 .. h : held2[i] = held[i]
      /\ held2[h + 1] = Item(t, m)
      /\ \A i \in 1 .. h + 1 : i # h + 1 => i \in 1 .. h
  BY <1>1, AppendIs
<1>3. /\ n2 \in [Threads -> Seq(Mutexes)] /\ Len(n2[t]) = l + 1
      /\ \A p \in 1 .. l : n2[t][p] = n[t][p]
      /\ n2[t][l + 1] = m
      /\ \A p \in 1 .. l + 1 : p # l + 1 => p \in 1 .. l
      /\ \A u \in Threads : u # t => n2[u] = n[u]
  <2>1. /\ Append(n[t], m) \in Seq(Mutexes) /\ Len(Append(n[t], m)) = l + 1
        /\ \A p \in 1 .. l : Append(n[t], m)[p] = n[t][p]
        /\ Append(n[t], m)[l + 1] = m
        /\ \A p \in 1 .. l + 1 : p # l + 1 => p \in 1 .. l
    BY <1>1, AppendIs
  <2>2. n2[t] = Append(n[t], m) /\ \A u \in Threads : u # t => n2[u] = n[u]
    BY <1>1
  <2>3. n2 \in [Threads -> Seq(Mutexes)]
    BY <1>1, <2>1
  <2> HIDE DEF n2
  <2> QED
    BY <2>1, <2>2, <2>3
<1>4. \A i \in 1 .. h : held[i].resource # m
  <2> SUFFICES ASSUME NEW i \in 1 .. h, held[i].resource = m PROVE FALSE
    OBVIOUS
  <2>1. held[i] \in Items
    BY <1>1
  <2>2. held[i] = Item(held[i].thread, m) /\ held[i].thread \in Threads
    BY <2>1, ItemIs DEF Items
  <2> QED
    BY <2>2, HolderIs
<1>5. \A u \in Threads : \A p \in 1 .. Len(n[u]) : n[u][p] # m
  <2> SUFFICES ASSUME NEW u \in Threads, NEW p \in 1 .. Len(n[u]), n[u][p] = m PROVE FALSE
    OBVIOUS
  <2>1. DOMAIN n[u] = 1 .. Len(n[u])
    BY <1>1
  <2>2. m \in ToSet(n[u])
    BY <2>1 DEF ToSet
  <2> QED
    BY <2>2
<1>6. held2[h + 1].thread = t /\ held2[h + 1].resource = m
  BY <1>2 DEF Item
<1>7. \A i, j \in 1 .. Len(held) : held[i].resource = held[j].resource => i = j
  BY DEF HeldIs
<1>8. \A u \in Threads : Once(n[u])
  BY DEF HeldIs
<1>9. \A u \in Threads : \A p \in 1 .. Len(n[u]) : \E i \in 1 .. Len(held) : held[i] = Item(u, n[u][p])
  BY DEF HeldIs
<1>10. \A i \in 1 .. Len(held) :
         \E p \in 1 .. Len(n[held[i].thread]) : n[held[i].thread][p] = held[i].resource
  BY DEF HeldIs
<1>11. \A u \in Threads : \A p, q \in 1 .. Len(n[u]) : \A i, j \in 1 .. Len(held) :
         held[i] = Item(u, n[u][p]) /\ held[j] = Item(u, n[u][q]) /\ p < q => i < j
  BY DEF HeldIs
<1> HIDE DEF held2, n2
<1>12. \A i, j \in 1 .. Len(held2) : held2[i].resource = held2[j].resource => i = j
  <2> SUFFICES ASSUME NEW i \in 1 .. h + 1, NEW j \in 1 .. h + 1, held2[i].resource = held2[j].resource
               PROVE  i = j
    BY <1>2
  <2> QED
    BY <1>2, <1>4, <1>6, <1>7
<1>13. \A u \in Threads : Once(n2[u])
  <2>1. ASSUME NEW i \in 1 .. l + 1, NEW j \in 1 .. l + 1, n2[t][i] = n2[t][j] PROVE i = j
    BY <1>3, <1>5, <1>8, <2>1 DEF Once
  <2>2. Once(n2[t])
    BY <1>3, <2>1 DEF Once
  <2> QED
    BY <1>3, <1>8, <2>2
<1>14. \A u \in Threads : \A p \in 1 .. Len(n2[u]) : \E i \in 1 .. Len(held2) : held2[i] = Item(u, n2[u][p])
  <2> SUFFICES ASSUME NEW u \in Threads, NEW p \in 1 .. Len(n2[u])
               PROVE  \E i \in 1 .. Len(held2) : held2[i] = Item(u, n2[u][p])
    OBVIOUS
  <2>0. \A i \in 1 .. h : i \in 1 .. h + 1
    BY <1>1
  <2>1. CASE u # t
    <3>1. n2[u] = n[u]
      BY <1>3, <2>1
    <3>2. PICK i \in 1 .. h : held[i] = Item(u, n[u][p])
      BY <1>9, <3>1
    <3> QED
      BY <1>2, <2>0, <3>1, <3>2
  <2>2. CASE u = t /\ p # l + 1
    <3>1. p \in 1 .. l /\ n2[t][p] = n[t][p]
      BY <1>3, <2>2
    <3>2. PICK i \in 1 .. h : held[i] = Item(t, n[t][p])
      BY <1>9, <3>1
    <3> QED
      BY <1>2, <2>0, <2>2, <3>1, <3>2
  <2>3. CASE u = t /\ p = l + 1
    <3>1. h + 1 \in 1 .. Len(held2)
      BY <1>1, <1>2
    <3> QED
      BY <1>2, <1>3, <2>3, <3>1
  <2> QED
    BY <2>1, <2>2, <2>3
<1>15. \A i \in 1 .. Len(held2) :
         \E p \in 1 .. Len(n2[held2[i].thread]) : n2[held2[i].thread][p] = held2[i].resource
  <2> SUFFICES ASSUME NEW i \in 1 .. h + 1
               PROVE  \E p \in 1 .. Len(n2[held2[i].thread]) : n2[held2[i].thread][p] = held2[i].resource
    BY <1>2
  <2>1. CASE i = h + 1
    <3>1. l + 1 \in 1 .. Len(n2[t])
      BY <1>1, <1>3
    <3> QED
      BY <1>3, <1>6, <2>1, <3>1
  <2>2. CASE i # h + 1
    <3>1. i \in 1 .. h /\ held2[i] = held[i]
      BY <1>2, <2>2
    <3>2. PICK p \in 1 .. Len(n[held[i].thread]) : n[held[i].thread][p] = held[i].resource
      BY <1>10, <3>1
    <3>3. held[i].thread \in Threads
      <4>1. held[i] \in Items
        BY <1>1, <3>1
      <4> QED
        BY <4>1 DEF Items
    <3>4. CASE held[i].thread = t
      <4>1. p \in 1 .. l /\ p \in 1 .. l + 1
        BY <1>1, <3>2, <3>4
      <4> QED
        BY <1>3, <3>1, <3>2, <3>4, <4>1
    <3>5. CASE held[i].thread # t
      BY <1>3, <3>1, <3>2, <3>3, <3>5
    <3> QED
      BY <3>4, <3>5
  <2> QED
    BY <2>1, <2>2
<1>16. \A u \in Threads : \A p, q \in 1 .. Len(n2[u]) : \A i, j \in 1 .. Len(held2) :
         held2[i] = Item(u, n2[u][p]) /\ held2[j] = Item(u, n2[u][q]) /\ p < q => i < j
  <2> SUFFICES ASSUME NEW u \in Threads, NEW p \in 1 .. Len(n2[u]), NEW q \in 1 .. Len(n2[u]),
                      NEW i \in 1 .. h + 1, NEW j \in 1 .. h + 1,
                      held2[i] = Item(u, n2[u][p]), held2[j] = Item(u, n2[u][q]), p < q
               PROVE  i < j
    BY <1>2
  <2>0. /\ held2[i].thread = u /\ held2[i].resource = n2[u][p]
        /\ held2[j].thread = u /\ held2[j].resource = n2[u][q]
    BY DEF Item
  <2>1. CASE i # h + 1 /\ j # h + 1
    <3>1. i \in 1 .. h /\ j \in 1 .. h /\ held2[i] = held[i] /\ held2[j] = held[j]
      BY <1>2, <2>1
    <3>2. CASE u # t
      <4>1. n2[u] = n[u]
        BY <1>3, <3>2
      <4>2. held[i] = Item(u, n[u][p]) /\ held[j] = Item(u, n[u][q])
            /\ p \in 1 .. Len(n[u]) /\ q \in 1 .. Len(n[u])
        BY <3>1, <4>1
      <4> QED
        BY <1>11, <3>1, <4>2
    <3>3. CASE u = t
      <4>1. n2[t][p] # m /\ n2[t][q] # m
        BY <1>4, <2>0, <3>1, <3>3
      <4>2. p \in 1 .. l /\ q \in 1 .. l
        BY <1>3, <3>3, <4>1
      <4>3. held[i] = Item(t, n[t][p]) /\ held[j] = Item(t, n[t][q])
        BY <1>3, <3>1, <3>3, <4>2
      <4> QED
        BY <1>11, <3>1, <4>2, <4>3
    <3> QED
      BY <3>2, <3>3
  <2>2. CASE j = h + 1
    <3>1. u = t /\ n2[t][q] = m
      BY <1>6, <2>0, <2>2
    <3>2. p # q /\ p \in 1 .. l + 1 /\ q \in 1 .. l + 1
      BY <1>3, <3>1
    <3>3. n2[t][p] # m
      BY <1>3, <1>13, <3>1, <3>2 DEF Once
    <3>4. i # h + 1
      BY <1>6, <2>0, <3>1, <3>3
    <3> QED
      BY <1>1, <2>2, <3>4
  <2>3. CASE i = h + 1 /\ j # h + 1
    <3>1. u = t /\ n2[t][p] = m
      BY <1>6, <2>0, <2>3
    <3>2. p = l + 1
      BY <1>3, <1>5, <3>1
    <3>3. q \in 1 .. l + 1
      BY <1>3, <3>1
    <3> QED
      BY <1>1, <3>2, <3>3
  <2> QED
    BY <2>1, <2>2, <2>3
<1> QED
  BY <1>2, <1>3, <1>12, <1>13, <1>14, <1>15, <1>16 DEF HeldIs, held2, n2

\* Releasing a lock from anywhere in the nest.
LEMMA HeldReleased ==
  ASSUME NEW held, NEW n, HeldIs(held, n), NEW t \in Threads, NEW m \in Mutexes,
         NEW o \in 1 .. Len(n[t]), n[t][o] = m, NEW k \in 1 .. Len(held), held[k] = Item(t, m)
  PROVE  HeldIs(Without(held, k), [n EXCEPT ![t] = Without(n[t], o)])
<1> DEFINE held2 == Without(held, k)
           left == Without(n[t], o)
           n2 == [n EXCEPT ![t] = left]
           h == Len(held)
           l == Len(n[t])
<1>1. /\ held \in Seq(Items) /\ n \in [Threads -> Seq(Mutexes)] /\ n[t] \in Seq(Mutexes)
      /\ h \in Nat /\ l \in Nat
  BY DEF HeldIs
<1>2. /\ held2 \in Seq(Items) /\ Len(held2) = h - 1
      /\ \A i \in 1 .. h - 1 : held2[i] = held[Up(k, i)]
  BY <1>1, WithoutIs
<1>3. /\ \A i \in 1 .. h - 1 : Up(k, i) \in 1 .. h /\ Up(k, i) # k
      /\ \A i \in 1 .. h : i # k => Down(k, i) \in 1 .. h - 1 /\ Up(k, Down(k, i)) = i
      /\ \A i, j \in 1 .. h - 1 : Up(k, i) < Up(k, j) <=> i < j
      /\ \A i, j \in 1 .. h - 1 : Up(k, i) = Up(k, j) => i = j
  BY <1>1, UpIs
<1>4. /\ left \in Seq(Mutexes) /\ Len(left) = l - 1
      /\ \A p \in 1 .. l - 1 : left[p] = n[t][Up(o, p)]
  BY <1>1, WithoutIs
<1>5. /\ \A p \in 1 .. l - 1 : Up(o, p) \in 1 .. l /\ Up(o, p) # o
      /\ \A p \in 1 .. l : p # o => Down(o, p) \in 1 .. l - 1 /\ Up(o, Down(o, p)) = p
      /\ \A p, q \in 1 .. l - 1 : Up(o, p) < Up(o, q) <=> p < q
      /\ \A p, q \in 1 .. l - 1 : Up(o, p) = Up(o, q) => p = q
  BY <1>1, UpIs
<1> HIDE DEF held2, left
<1>6. /\ n2 \in [Threads -> Seq(Mutexes)] /\ n2[t] = left
      /\ \A u \in Threads : u # t => n2[u] = n[u]
  BY <1>1, <1>4
<1> HIDE DEF n2
<1>7. \A i, j \in 1 .. h : held[i].resource = held[j].resource => i = j
  BY DEF HeldIs
<1>8. \A u \in Threads : Once(n[u])
  BY DEF HeldIs
<1>9. \A u \in Threads : \A p \in 1 .. Len(n[u]) : \E i \in 1 .. h : held[i] = Item(u, n[u][p])
  BY DEF HeldIs
<1>10. \A i \in 1 .. h : \E p \in 1 .. Len(n[held[i].thread]) : n[held[i].thread][p] = held[i].resource
  BY DEF HeldIs
<1>11. \A u \in Threads : \A p, q \in 1 .. Len(n[u]) : \A i, j \in 1 .. h :
         held[i] = Item(u, n[u][p]) /\ held[j] = Item(u, n[u][q]) /\ p < q => i < j
  BY DEF HeldIs
<1>12. held[k].thread = t /\ held[k].resource = m
  BY DEF Item
<1>13. \A i, j \in 1 .. Len(held2) : held2[i].resource = held2[j].resource => i = j
  <2> SUFFICES ASSUME NEW i \in 1 .. h - 1, NEW j \in 1 .. h - 1, held2[i].resource = held2[j].resource
               PROVE  i = j
    BY <1>2
  <2>1. Up(k, i) = Up(k, j)
    BY <1>2, <1>3, <1>7
  <2> QED
    BY <1>3, <2>1
<1>14. \A u \in Threads : Once(n2[u])
  <2>1. ASSUME NEW p \in 1 .. l - 1, NEW q \in 1 .. l - 1, left[p] = left[q] PROVE p = q
    <3>1. /\ Up(o, p) \in 1 .. l /\ Up(o, q) \in 1 .. l
          /\ n[t][Up(o, p)] = n[t][Up(o, q)]
      BY <1>4, <1>5, <2>1
    <3>2. Up(o, p) = Up(o, q)
      <4>1. Once(n[t])
        BY <1>8
      <4> QED
        BY <3>1, <4>1 DEF Once
    <3> QED
      BY <1>5, <3>2
  <2>2. Once(n2[t])
    BY <1>4, <1>6, <2>1 DEF Once
  <2> QED
    BY <1>6, <1>8, <2>2
<1>15. \A u \in Threads : \A p \in 1 .. Len(n2[u]) : \E i \in 1 .. Len(held2) : held2[i] = Item(u, n2[u][p])
  <2> SUFFICES ASSUME NEW u \in Threads, NEW p \in 1 .. Len(n2[u])
               PROVE  \E i \in 1 .. h - 1 : held2[i] = Item(u, n2[u][p])
    BY <1>2
  <2>1. PICK i \in 1 .. h : held[i] = Item(u, n2[u][p]) /\ i # k
    <3>1. CASE u = t
      <4>1. p \in 1 .. l - 1 /\ n2[u][p] = n[t][Up(o, p)]
        BY <1>4, <1>6, <3>1
      <4>2. PICK i \in 1 .. h : held[i] = Item(t, n[t][Up(o, p)])
        BY <1>5, <1>9, <4>1
      <4>3. n[t][Up(o, p)] # m
        BY <1>5, <1>8, <4>1 DEF Once
      <4>4. held[i].resource # m
        BY <4>2, <4>3 DEF Item
      <4> QED
        BY <1>12, <3>1, <4>1, <4>2, <4>4
    <3>2. CASE u # t
      <4>1. n2[u] = n[u]
        BY <1>6, <3>2
      <4>2. PICK i \in 1 .. h : held[i] = Item(u, n[u][p])
        BY <1>9, <4>1
      <4>3. held[i].thread # t
        BY <3>2, <4>2 DEF Item
      <4> QED
        BY <1>12, <4>1, <4>2, <4>3
    <3> QED
      BY <3>1, <3>2
  <2>2. Down(k, i) \in 1 .. h - 1 /\ held2[Down(k, i)] = held[i]
    BY <1>2, <1>3, <2>1
  <2> QED
    BY <2>1, <2>2
<1>16. \A i \in 1 .. Len(held2) :
         \E p \in 1 .. Len(n2[held2[i].thread]) : n2[held2[i].thread][p] = held2[i].resource
  <2> SUFFICES ASSUME NEW i \in 1 .. h - 1
               PROVE  \E p \in 1 .. Len(n2[held2[i].thread]) : n2[held2[i].thread][p] = held2[i].resource
    BY <1>2
  <2> DEFINE x == held[Up(k, i)]
  <2>1. held2[i] = x /\ Up(k, i) \in 1 .. h /\ Up(k, i) # k
    BY <1>2, <1>3
  <2>2. x \in Items /\ x.resource # m
    BY <1>1, <1>7, <1>12, <2>1
  <2>3. PICK p \in 1 .. Len(n[x.thread]) : n[x.thread][p] = x.resource
    BY <1>10, <2>1
  <2> HIDE DEF x
  <2>4. CASE x.thread = t
    <3>1. p \in 1 .. l /\ p # o
      BY <2>2, <2>3, <2>4
    <3>2. Down(o, p) \in 1 .. l - 1 /\ left[Down(o, p)] = n[t][p]
      BY <1>4, <1>5, <3>1
    <3> QED
      BY <1>4, <1>6, <2>1, <2>3, <2>4, <3>2
  <2>5. CASE x.thread # t
    <3>1. x.thread \in Threads
      BY <2>2 DEF Items
    <3> QED
      BY <1>6, <2>1, <2>3, <2>5, <3>1
  <2> QED
    BY <2>4, <2>5
<1>17. \A u \in Threads : \A p, q \in 1 .. Len(n2[u]) : \A i, j \in 1 .. Len(held2) :
         held2[i] = Item(u, n2[u][p]) /\ held2[j] = Item(u, n2[u][q]) /\ p < q => i < j
  <2> SUFFICES ASSUME NEW u \in Threads, NEW p \in 1 .. Len(n2[u]), NEW q \in 1 .. Len(n2[u]),
                      NEW i \in 1 .. h - 1, NEW j \in 1 .. h - 1,
                      held2[i] = Item(u, n2[u][p]), held2[j] = Item(u, n2[u][q]), p < q
               PROVE  i < j
    BY <1>2
  <2>1. /\ held2[i] = held[Up(k, i)] /\ held2[j] = held[Up(k, j)]
        /\ Up(k, i) \in 1 .. h /\ Up(k, j) \in 1 .. h
    BY <1>2, <1>3
  <2>2. CASE u = t
    <3>1. p \in 1 .. l - 1 /\ q \in 1 .. l - 1
      BY <1>4, <1>6, <2>2
    <3>2. /\ n2[u][p] = n[t][Up(o, p)] /\ n2[u][q] = n[t][Up(o, q)]
          /\ Up(o, p) \in 1 .. l /\ Up(o, q) \in 1 .. l /\ Up(o, p) < Up(o, q)
      BY <1>4, <1>5, <1>6, <2>2, <3>1
    <3> DEFINE a == Up(k, i)
               b == Up(k, j)
               c == Up(o, p)
               d == Up(o, q)
    <3>3. /\ held[a] = Item(t, n[t][c]) /\ held[b] = Item(t, n[t][d]) /\ c < d
          /\ a \in 1 .. h /\ b \in 1 .. h /\ c \in 1 .. l /\ d \in 1 .. l
      BY <2>1, <2>2, <3>2
    <3> HIDE DEF a, b, c, d
    <3>4. a < b
      BY <1>11, <3>3
    <3> QED
      BY <1>3, <3>4 DEF a, b
  <2>3. CASE u # t
    <3>1. n2[u] = n[u] /\ p \in 1 .. Len(n[u]) /\ q \in 1 .. Len(n[u])
      BY <1>6, <2>3
    <3> DEFINE a == Up(k, i)
               b == Up(k, j)
    <3>2. /\ held[a] = Item(u, n[u][p]) /\ held[b] = Item(u, n[u][q])
          /\ a \in 1 .. h /\ b \in 1 .. h
      BY <2>1, <3>1
    <3> HIDE DEF a, b
    <3>3. a < b
      BY <1>11, <3>1, <3>2
    <3> QED
      BY <1>3, <3>3 DEF a, b
  <2> QED
    BY <2>2, <2>3
<1> QED
  BY <1>2, <1>6, <1>13, <1>14, <1>15, <1>16, <1>17 DEF HeldIs, held2, n2, left

\* The searches of LockReleased and of the threads find the place.
Filed(held, t, m) == Max({k \in 1 .. Len(held) : held[k].thread = t /\ held[k].resource = m} \cup {0})
Placed(ms, m) == Max({o \in 1 .. Len(ms) : ms[o] = m} \cup {0})

\* The searches of a release find the lock that the thread has.
LEMMA ReleaseFinds ==
  ASSUME NEW held, NEW n, HeldIs(held, n), NEW t \in Threads, NEW m \in Mutexes, m \in ToSet(n[t])
  PROVE  /\ Filed(held, t, m) \in 1 .. Len(held) /\ held[Filed(held, t, m)] = Item(t, m)
         /\ Placed(n[t], m) \in 1 .. Len(n[t]) /\ n[t][Placed(n[t], m)] = m
<1>1. held \in Seq(Items) /\ Len(held) \in Nat /\ n[t] \in Seq(Mutexes) /\ Len(n[t]) \in Nat
  BY DEF HeldIs
<1>2. DOMAIN held = 1 .. Len(held) /\ DOMAIN n[t] = 1 .. Len(n[t])
  BY <1>1
<1> DEFINE S == {k \in 1 .. Len(held) : held[k].thread = t /\ held[k].resource = m}
           R == {o \in 1 .. Len(n[t]) : n[t][o] = m}
<1>3. Filed(held, t, m) = Max(S \cup {0}) /\ Placed(n[t], m) = Max(R \cup {0})
  BY DEF Filed, Placed
<1>4. S # {}
  <2>1. PICK i \in 1 .. Len(held) : held[i] = Item(t, m)
    BY HolderIs
  <2> QED
    BY <2>1 DEF Item
<1>5. R # {}
  BY <1>2 DEF ToSet
<1>6. S \in SUBSET (1 .. Len(held)) /\ R \in SUBSET (1 .. Len(n[t]))
  OBVIOUS
<1>7. Max(S \cup {0}) \in S
  <2> HIDE DEF S
  <2> QED
    BY <1>1, <1>4, <1>6, LatestMax
<1>8. Max(R \cup {0}) \in R
  <2> HIDE DEF R
  <2> QED
    BY <1>1, <1>5, <1>6, LatestMax
<1>9. \A k \in S : held[k] = Item(t, m)
  <2> SUFFICES ASSUME NEW k \in S PROVE held[k] = Item(t, m)
    OBVIOUS
  <2>1. k \in 1 .. Len(held) /\ held[k].thread = t /\ held[k].resource = m
    OBVIOUS
  <2>2. held[k] \in Items
    BY <1>1, <2>1
  <2> QED
    BY <2>1, <2>2, ItemIs
<1> QED
  BY <1>3, <1>7, <1>8, <1>9

-----------------------------------------------------------------------------
(* The waits that the policy keeps are those of the threads.               *)

Blockings ==
  {Free} \cup {[on |-> "mutex", what |-> m, mutex |-> m] : m \in Mutexes}
         \cup [on : {"condition"}, what : Conditions, mutex : Mutexes]
         \cup [on : {"join"}, what : Threads, mutex : {None}]
WaitOf(t, b) ==
  CASE b.on = "join" -> [thread |-> t, resource |-> t, target |-> b.what, join |-> TRUE]
    [] b.on = "condition" -> [thread |-> t, resource |-> b.what, target |-> b.mutex, join |-> FALSE]
    [] OTHER -> [thread |-> t, resource |-> b.what, target |-> "", join |-> FALSE]
WaitItems == {WaitOf(t, b) : t \in Threads, b \in Blockings}

\* Each thread that waits has one wait filed, and no other does.
WaitsAre(waits, blocking) ==
  /\ waits \in Seq(WaitItems) /\ blocking \in [Threads -> Blockings]
  /\ \A i, j \in 1 .. Len(waits) : waits[i].thread = waits[j].thread => i = j
  /\ \A i \in 1 .. Len(waits) :
       /\ waits[i].thread \in Threads /\ blocking[waits[i].thread].on # "nothing"
       /\ waits[i] = WaitOf(waits[i].thread, blocking[waits[i].thread])
  /\ \A t \in Threads : blocking[t].on # "nothing" => \E i \in 1 .. Len(waits) : waits[i].thread = t

\* The entry that the policy files for each kind of wait.
LEMMA WaitOfIs ==
  ASSUME NEW t, NEW b
  PROVE  /\ WaitOf(t, b).thread = t
         /\ b.on = "mutex" => WaitOf(t, b) = [thread |-> t, resource |-> b.what, target |-> "", join |-> FALSE]
         /\ b.on = "condition" =>
              WaitOf(t, b) = [thread |-> t, resource |-> b.what, target |-> b.mutex, join |-> FALSE]
         /\ b.on = "join" => WaitOf(t, b) = [thread |-> t, resource |-> t, target |-> b.what, join |-> TRUE]
BY DEF WaitOf

\* A wait for a mutex or a condition names what it waits for.
LEMMA LockWaitFields ==
  ASSUME NEW t, NEW b, b.on \in {"mutex", "condition"}
  PROVE  ~WaitOf(t, b).join /\ WaitOf(t, b).thread = t /\ WaitOf(t, b).resource = b.what
<1> DEFINE w == WaitOf(t, b)
<1>1. ASSUME b.on = "mutex" PROVE ~w.join /\ w.thread = t /\ w.resource = b.what
  <2>1. w = [thread |-> t, resource |-> b.what, target |-> "", join |-> FALSE]
    BY <1>1, WaitOfIs
  <2> HIDE DEF w
  <2> QED
    BY <2>1
<1>2. ASSUME b.on = "condition" PROVE ~w.join /\ w.thread = t /\ w.resource = b.what
  <2>1. w = [thread |-> t, resource |-> b.what, target |-> b.mutex, join |-> FALSE]
    BY <1>2, WaitOfIs
  <2> HIDE DEF w
  <2> QED
    BY <2>1
<1> HIDE DEF w
<1>3. ~w.join /\ w.thread = t /\ w.resource = b.what
  BY <1>1, <1>2
<1> QED
  BY <1>3 DEF w

\* What a thread can be blocked on.
LEMMA BlockingIs ==
  ASSUME NEW b \in Blockings
  PROVE  /\ b.on \in {"nothing", "mutex", "condition", "join"}
         /\ b.on = "nothing" <=> b = Free
         /\ b.on = "nothing" => b.mutex = None
         /\ b.on = "mutex" => b.what \in Mutexes /\ b.mutex = b.what
         /\ b.on = "condition" => b.what \in Conditions /\ b.mutex \in Mutexes
         /\ b.on = "join" => b.what \in Threads /\ b.mutex = None
<1>1. CASE b = Free
  BY <1>1 DEF Free
<1>2. CASE b \in {[on |-> "mutex", what |-> m, mutex |-> m] : m \in Mutexes}
  BY <1>2 DEF Free
<1>3. CASE b \in [on : {"condition"}, what : Conditions, mutex : Mutexes]
  BY <1>3 DEF Free
<1>4. CASE b \in [on : {"join"}, what : Threads, mutex : {None}]
  BY <1>4 DEF Free
<1> QED
  BY <1>1, <1>2, <1>3, <1>4 DEF Blockings

\* A thread begins to wait: one more entry, at the end.
LEMMA WaitAdded ==
  ASSUME NEW waits, NEW blocking, WaitsAre(waits, blocking), NEW t \in Threads, blocking[t] = Free,
         NEW b \in Blockings, b.on # "nothing"
  PROVE  WaitsAre(Append(waits, WaitOf(t, b)), [blocking EXCEPT ![t] = b])
<1> DEFINE w == WaitOf(t, b)
           more == Append(waits, w)
           now == [blocking EXCEPT ![t] = b]
           n == Len(waits)
<1>1. /\ waits \in Seq(WaitItems) /\ blocking \in [Threads -> Blockings] /\ n \in Nat /\ w \in WaitItems
      /\ w.thread = t
  <2>1. waits \in Seq(WaitItems) /\ blocking \in [Threads -> Blockings] /\ n \in Nat
    BY DEF WaitsAre
  <2>2. w \in WaitItems
    BY DEF WaitItems
  <2>3. w.thread = t
    BY WaitOfIs
  <2> QED
    BY <2>1, <2>2, <2>3
<1>2. /\ now \in [Threads -> Blockings] /\ now[t] = b
      /\ \A u \in Threads : u # t => now[u] = blocking[u]
  BY <1>1
<1>3. now[t].on # "nothing" /\ w = WaitOf(t, now[t])
  BY <1>2
<1> HIDE DEF w
<1>4. /\ more \in Seq(WaitItems) /\ Len(more) = n + 1
      /\ \A i \in 1 .. n : more[i] = waits[i]
      /\ more[n + 1] = w
      /\ \A i \in 1 .. n + 1 : i # n + 1 => i \in 1 .. n
  BY <1>1, AppendIs
<1> HIDE DEF more, now
<1>5. ASSUME NEW i \in 1 .. n
      PROVE  /\ waits[i].thread \in Threads /\ blocking[waits[i].thread].on # "nothing"
             /\ waits[i] = WaitOf(waits[i].thread, blocking[waits[i].thread])
             /\ waits[i].thread # t
  <2>1. /\ waits[i].thread \in Threads /\ blocking[waits[i].thread].on # "nothing"
        /\ waits[i] = WaitOf(waits[i].thread, blocking[waits[i].thread])
    BY DEF WaitsAre
  <2>2. blocking[t].on = "nothing"
    BY DEF Free
  <2> QED
    BY <2>1, <2>2
<1>6. \A i, j \in 1 .. Len(more) : more[i].thread = more[j].thread => i = j
  <2> SUFFICES ASSUME NEW i \in 1 .. n + 1, NEW j \in 1 .. n + 1, more[i].thread = more[j].thread
               PROVE  i = j
    BY <1>4
  <2>1. \A x, y \in 1 .. n : waits[x].thread = waits[y].thread => x = y
    BY DEF WaitsAre
  <2> QED
    BY <1>1, <1>4, <1>5, <2>1
<1>7. \A i \in 1 .. Len(more) :
        /\ more[i].thread \in Threads /\ now[more[i].thread].on # "nothing"
        /\ more[i] = WaitOf(more[i].thread, now[more[i].thread])
  <2> SUFFICES ASSUME NEW i \in 1 .. n + 1
               PROVE  /\ more[i].thread \in Threads /\ now[more[i].thread].on # "nothing"
                      /\ more[i] = WaitOf(more[i].thread, now[more[i].thread])
    BY <1>4
  <2>1. CASE i = n + 1
    BY <1>1, <1>3, <1>4, <2>1
  <2>2. CASE i # n + 1
    BY <1>2, <1>4, <1>5, <2>2
  <2> QED
    BY <2>1, <2>2
<1>8. \A u \in Threads : now[u].on # "nothing" => \E i \in 1 .. Len(more) : more[i].thread = u
  <2> SUFFICES ASSUME NEW u \in Threads, now[u].on # "nothing" PROVE \E i \in 1 .. n + 1 : more[i].thread = u
    BY <1>4
  <2>1. CASE u = t
    <3>1. n + 1 \in 1 .. n + 1
      BY <1>1
    <3> QED
      BY <1>1, <1>4, <2>1, <3>1
  <2>2. CASE u # t
    <3>1. PICK i \in 1 .. n : waits[i].thread = u
      BY <1>2, <2>2 DEF WaitsAre
    <3>2. i \in 1 .. n + 1
      BY <1>1
    <3> QED
      BY <1>4, <3>1, <3>2
  <2> QED
    BY <2>1, <2>2
<1> QED
  BY <1>2, <1>4, <1>6, <1>7, <1>8 DEF WaitsAre, more, now, w

\* A thread waits no more: its entry goes, wherever it is.
LEMMA WaitRemoved ==
  ASSUME NEW waits, NEW blocking, WaitsAre(waits, blocking), NEW t \in Threads,
         NEW k \in 1 .. Len(waits), waits[k].thread = t
  PROVE  WaitsAre(Without(waits, k), [blocking EXCEPT ![t] = Free])
<1> DEFINE less == Without(waits, k)
           now == [blocking EXCEPT ![t] = Free]
           n == Len(waits)
<1>1. waits \in Seq(WaitItems) /\ blocking \in [Threads -> Blockings] /\ n \in Nat
  BY DEF WaitsAre
<1>2. /\ less \in Seq(WaitItems) /\ Len(less) = n - 1
      /\ \A i \in 1 .. n - 1 : less[i] = waits[Up(k, i)]
  BY <1>1, WithoutIs
<1>3. /\ \A i \in 1 .. n - 1 : Up(k, i) \in 1 .. n /\ Up(k, i) # k
      /\ \A i \in 1 .. n : i # k => Down(k, i) \in 1 .. n - 1 /\ Up(k, Down(k, i)) = i
      /\ \A i, j \in 1 .. n - 1 : Up(k, i) = Up(k, j) => i = j
  BY <1>1, UpIs
<1>4. /\ now \in [Threads -> Blockings] /\ now[t].on = "nothing"
      /\ \A u \in Threads : u # t => now[u] = blocking[u]
  <2>1. Free \in Blockings /\ Free.on = "nothing"
    BY DEF Blockings, Free
  <2> QED
    BY <1>1, <2>1
<1> HIDE DEF less, now
<1>5. \A i, j \in 1 .. n : waits[i].thread = waits[j].thread => i = j
  BY DEF WaitsAre
<1>6. \A i \in 1 .. n :
        /\ waits[i].thread \in Threads /\ blocking[waits[i].thread].on # "nothing"
        /\ waits[i] = WaitOf(waits[i].thread, blocking[waits[i].thread])
  BY DEF WaitsAre
<1>7. \A i, j \in 1 .. Len(less) : less[i].thread = less[j].thread => i = j
  <2> SUFFICES ASSUME NEW i \in 1 .. n - 1, NEW j \in 1 .. n - 1, less[i].thread = less[j].thread
               PROVE  i = j
    BY <1>2
  <2>1. Up(k, i) = Up(k, j)
    BY <1>2, <1>3, <1>5
  <2> QED
    BY <1>3, <2>1
<1>8. \A i \in 1 .. Len(less) :
        /\ less[i].thread \in Threads /\ now[less[i].thread].on # "nothing"
        /\ less[i] = WaitOf(less[i].thread, now[less[i].thread])
  <2> SUFFICES ASSUME NEW i \in 1 .. n - 1
               PROVE  /\ less[i].thread \in Threads /\ now[less[i].thread].on # "nothing"
                      /\ less[i] = WaitOf(less[i].thread, now[less[i].thread])
    BY <1>2
  <2> DEFINE w == waits[Up(k, i)]
  <2>1. less[i] = w /\ w.thread # t
    BY <1>2, <1>3, <1>5
  <2>2. /\ w.thread \in Threads /\ blocking[w.thread].on # "nothing"
        /\ w = WaitOf(w.thread, blocking[w.thread])
    BY <1>3, <1>6
  <2> HIDE DEF w
  <2> QED
    BY <1>4, <2>1, <2>2
<1>9. \A u \in Threads : now[u].on # "nothing" => \E i \in 1 .. Len(less) : less[i].thread = u
  <2> SUFFICES ASSUME NEW u \in Threads, now[u].on # "nothing" PROVE \E i \in 1 .. n - 1 : less[i].thread = u
    BY <1>2
  <2>1. u # t
    BY <1>4
  <2>2. PICK i \in 1 .. n : waits[i].thread = u
    BY <1>4, <2>1 DEF WaitsAre
  <2>3. Down(k, i) \in 1 .. n - 1 /\ less[Down(k, i)] = waits[i]
    BY <1>2, <1>3, <2>1, <2>2
  <2> QED
    BY <2>2, <2>3
<1> QED
  BY <1>2, <1>4, <1>7, <1>8, <1>9 DEF WaitsAre, less, now

\* The search of WaitEnded finds the wait of the thread.
LEMMA WaitFinds ==
  ASSUME NEW waits, NEW blocking, WaitsAre(waits, blocking), NEW t \in Threads,
         blocking[t].on # "nothing", NEW x, x = WaitOf(t, blocking[t]).resource
  PROVE  LET k == Latest(waits, LAMBDA w : w.thread = t /\ w.resource = x)
         IN  k \in 1 .. Len(waits) /\ waits[k].thread = t
<1> DEFINE S == {k \in 1 .. Len(waits) : waits[k].thread = t /\ waits[k].resource = x}
<1>1. waits \in Seq(WaitItems) /\ Len(waits) \in Nat /\ DOMAIN waits = 1 .. Len(waits)
  BY DEF WaitsAre
<1>2. Latest(waits, LAMBDA w : w.thread = t /\ w.resource = x) = Max(S \cup {0})
  BY <1>1 DEF Latest
<1>3. PICK i \in 1 .. Len(waits) : waits[i].thread = t
  BY DEF WaitsAre
<1>4. waits[i] = WaitOf(t, blocking[t])
  BY <1>3 DEF WaitsAre
<1>5. S # {} /\ S \in SUBSET (1 .. Len(waits))
  BY <1>3, <1>4
<1>6. Max(S \cup {0}) \in S
  <2> HIDE DEF S
  <2> QED
    BY <1>1, <1>5, LatestMax
<1> QED
  BY <1>2, <1>6

-----------------------------------------------------------------------------
(* What the policy does with each record.                                  *)

Sync(h, w, t, e, f) == [held |-> h, waits |-> w, terminated |-> t, lock_edges |-> e, found |-> f]
SyncIs(s) == s = Sync(s.held, s.waits, s.terminated, s.lock_edges, s.found)

\* A call of the library publishes one record or two, read in turn.
LEMMA AnalyzedIs ==
  ASSUME NEW s, NEW records, Len(records) \in 1 .. 2
  PROVE  /\ Len(records) = 1 => Analyzed(s, records) = SyncStep(s, records[1])
         /\ Len(records) = 2 => Analyzed(s, records) = SyncStep(SyncStep(s, records[1]), records[2])
<1> DEFINE n == Len(records)
           Body(f, k) == IF k = 0 THEN s ELSE SyncStep(f[k - 1], records[k])
           f == CHOOSE f : f = [k \in 0 .. n |-> Body(f, k)]
           a == SyncStep(s, records[1])
           b == SyncStep(a, records[2])
           g == [k \in 0 .. n |-> IF k = 0 THEN s ELSE IF k = 1 THEN a ELSE b]
<1>1. Analyzed(s, records) = f[n]
  BY DEF Analyzed
<1>2. g = [k \in 0 .. n |-> Body(g, k)]
  <2>1. ASSUME NEW k \in 0 .. n PROVE (IF k = 0 THEN s ELSE IF k = 1 THEN a ELSE b) = Body(g, k)
    <3> HIDE DEF a, b
    <3>1. CASE k = 0
      BY <3>1
    <3>2. CASE k = 1
      <4>1. g[0] = s
        OBVIOUS
      <4> QED
        BY <3>2, <4>1 DEF a
    <3>3. CASE k = 2
      <4>1. g[1] = a
        BY <3>3
      <4> QED
        BY <3>3, <4>1 DEF b
    <3> QED
      BY <3>1, <3>2, <3>3
  <2> HIDE DEF Body
  <2> QED
    BY <2>1
<1>3. f = [k \in 0 .. n |-> Body(f, k)]
  <2> HIDE DEF Body, n, g
  <2> QED
    BY <1>2
<1> HIDE DEF f
<1>4. f[0] = s
  BY <1>3
<1>5. f[1] = a
  BY <1>3, <1>4
<1>6. n = 2 => f[2] = b
  <2> HIDE DEF a
  <2> QED
    BY <1>3, <1>5
<1> QED
  BY <1>1, <1>5, <1>6

\* Each record is handled by what its class and operation select.
LEMMA StepIs ==
  ASSUME NEW s, NEW r
  PROVE  /\ r.class = "mutex" /\ r.op = "RELEASE" => SyncStep(s, r) = MutexDestroyed(s, r)
         /\ r.class = "terminal-attempt" =>
              SyncStep(s, r) = With(s, {Finding("SYNC-008", r.resource, e.thread) :
                                          e \in {x \in s.terminated : x.resource = r.resource}})
         /\ r.class = "joinable-thread" /\ r.op = "RELEASE" =>
              SyncStep(s, r) =
                [s EXCEPT !.terminated = @ \cup {[resource |-> r.resource, thread |-> r.thread]}]
         /\ r.class = "joinable-thread" /\ r.op = "ACQUIRE" => SyncStep(s, r) = s
         /\ r.class = "blocking-operation" => SyncStep(s, r) = With(s, WhileHolding(s, "SYNC-010", r))
         /\ r.class = "held" /\ r.op = "ACQUIRE" => SyncStep(s, r) = LockAcquired(s, r)
         /\ r.class = "held" /\ r.op = "RELEASE" => SyncStep(s, r) = LockReleased(s, r)
         /\ r.class \in Waits /\ r.op = "ACQUIRE" => SyncStep(s, r) = WaitBegun(s, r)
         /\ r.class \in Waits /\ r.op = "RELEASE" => SyncStep(s, r) = WaitEnded(s, r)
<1>1. r.class = "mutex" /\ r.op = "RELEASE" => SyncStep(s, r) = MutexDestroyed(s, r)
  BY DEF SyncStep, Held, Waits
<1>2. r.class = "terminal-attempt" =>
              SyncStep(s, r) = With(s, {Finding("SYNC-008", r.resource, e.thread) :
                                          e \in {x \in s.terminated : x.resource = r.resource}})
  BY DEF SyncStep, Held, Waits
<1>3. /\ r.class = "joinable-thread" /\ r.op = "RELEASE" =>
              SyncStep(s, r) =
                [s EXCEPT !.terminated = @ \cup {[resource |-> r.resource, thread |-> r.thread]}]
      /\ r.class = "joinable-thread" /\ r.op = "ACQUIRE" => SyncStep(s, r) = s
  BY DEF SyncStep, Held, Waits
<1>4. r.class = "blocking-operation" => SyncStep(s, r) = With(s, WhileHolding(s, "SYNC-010", r))
  BY DEF SyncStep, Held, Waits
<1>5. /\ r.class = "held" /\ r.op = "ACQUIRE" => SyncStep(s, r) = LockAcquired(s, r)
      /\ r.class = "held" /\ r.op = "RELEASE" => SyncStep(s, r) = LockReleased(s, r)
  BY DEF SyncStep, Held, Waits
<1>6. /\ r.class \in Waits /\ r.op = "ACQUIRE" => SyncStep(s, r) = WaitBegun(s, r)
      /\ r.class \in Waits /\ r.op = "RELEASE" => SyncStep(s, r) = WaitEnded(s, r)
  BY DEF SyncStep, Held, Waits
<1> QED
  BY <1>1, <1>2, <1>3, <1>4, <1>5, <1>6

\* What is left of the policy when one of its parts changes.
LEMMA SyncFields ==
  ASSUME NEW s, SyncIs(s), NEW x
  PROVE  /\ With(s, x) = Sync(s.held, s.waits, s.terminated, s.lock_edges, s.found \cup x)
         /\ [s EXCEPT !.held = x] = Sync(x, s.waits, s.terminated, s.lock_edges, s.found)
         /\ [s EXCEPT !.waits = x] = Sync(s.held, x, s.terminated, s.lock_edges, s.found)
         /\ [s EXCEPT !.terminated = x] = Sync(s.held, s.waits, x, s.lock_edges, s.found)
         /\ [s EXCEPT !.lock_edges = x] = Sync(s.held, s.waits, s.terminated, x, s.found)
<1>1. s = [held |-> s.held, waits |-> s.waits, terminated |-> s.terminated,
           lock_edges |-> s.lock_edges, found |-> s.found]
  BY DEF SyncIs, Sync
<1>2. With(s, x) = Sync(s.held, s.waits, s.terminated, s.lock_edges, s.found \cup x)
  <2> DEFINE y == s.found \cup x
  <2>1. With(s, x) = [s EXCEPT !.found = y]
    BY DEF With
  <2> HIDE DEF y
  <2>2. [s EXCEPT !.found = y] = Sync(s.held, s.waits, s.terminated, s.lock_edges, y)
    BY <1>1 DEF Sync
  <2> QED
    BY <2>1, <2>2 DEF y
<1>3. /\ [s EXCEPT !.held = x] = Sync(x, s.waits, s.terminated, s.lock_edges, s.found)
      /\ [s EXCEPT !.waits = x] = Sync(s.held, x, s.terminated, s.lock_edges, s.found)
      /\ [s EXCEPT !.terminated = x] = Sync(s.held, s.waits, x, s.lock_edges, s.found)
      /\ [s EXCEPT !.lock_edges = x] = Sync(s.held, s.waits, s.terminated, x, s.found)
  BY <1>1 DEF Sync
<1> QED
  BY <1>2, <1>3

\* The same for a lock acquired, which changes two parts.
LEMMA SyncEdges ==
  ASSUME NEW s, SyncIs(s), NEW x, NEW y
  PROVE  [s EXCEPT !.lock_edges = x, !.held = y] = Sync(y, s.waits, s.terminated, x, s.found)
<1>1. [s EXCEPT !.lock_edges = x, !.held = y] = [[s EXCEPT !.lock_edges = x] EXCEPT !.held = y]
  OBVIOUS
<1>2. [s EXCEPT !.lock_edges = x] = Sync(s.held, s.waits, s.terminated, x, s.found)
  BY SyncFields
<1>3. [[s EXCEPT !.lock_edges = x] EXCEPT !.held = y]
        = [Sync(s.held, s.waits, s.terminated, x, s.found) EXCEPT !.held = y]
  BY <1>2
<1>4. [Sync(s.held, s.waits, s.terminated, x, s.found) EXCEPT !.held = y]
        = Sync(y, s.waits, s.terminated, x, s.found)
  BY DEF Sync
<1> QED
  BY <1>1, <1>3, <1>4

\* The parts of a policy put together.
LEMMA SyncIsSync ==
  ASSUME NEW h, NEW w, NEW t, NEW e, NEW f, NEW s, s = Sync(h, w, t, e, f)
  PROVE  /\ SyncIs(s)
         /\ s.held = h /\ s.waits = w /\ s.terminated = t /\ s.lock_edges = e /\ s.found = f
BY DEF SyncIs, Sync

MutexWait(m) == [on |-> "mutex", what |-> m, mutex |-> m]
ConditionWait(c, m) == [on |-> "condition", what |-> c, mutex |-> m]
JoinWait(u) == [on |-> "join", what |-> u, mutex |-> None]

\* The entries of the three kinds of wait.
LEMMA WaitOfWait ==
  ASSUME NEW t, NEW x
  PROVE  /\ WaitOf(t, MutexWait(x)) = [thread |-> t, resource |-> x, target |-> "", join |-> FALSE]
         /\ \A y : WaitOf(t, ConditionWait(x, y)) = [thread |-> t, resource |-> x, target |-> y, join |-> FALSE]
         /\ WaitOf(t, JoinWait(x)) = [thread |-> t, resource |-> t, target |-> x, join |-> TRUE]
<1>1. WaitOf(t, MutexWait(x)) = [thread |-> t, resource |-> x, target |-> "", join |-> FALSE]
  <2> DEFINE b == MutexWait(x)
  <2>1. b.on = "mutex" /\ b.what = x
    BY DEF MutexWait
  <2> HIDE DEF b
  <2>2. WaitOf(t, b) = [thread |-> t, resource |-> b.what, target |-> "", join |-> FALSE]
    BY <2>1, WaitOfIs
  <2> QED
    BY <2>1, <2>2 DEF b
<1>2. ASSUME NEW y PROVE WaitOf(t, ConditionWait(x, y)) = [thread |-> t, resource |-> x, target |-> y, join |-> FALSE]
  <2> DEFINE b == ConditionWait(x, y)
  <2>1. b.on = "condition" /\ b.what = x /\ b.mutex = y
    BY DEF ConditionWait
  <2> HIDE DEF b
  <2>2. WaitOf(t, b) = [thread |-> t, resource |-> b.what, target |-> b.mutex, join |-> FALSE]
    BY <2>1, WaitOfIs
  <2> QED
    BY <2>1, <2>2 DEF b
<1>3. WaitOf(t, JoinWait(x)) = [thread |-> t, resource |-> t, target |-> x, join |-> TRUE]
  <2> DEFINE b == JoinWait(x)
  <2>1. b.on = "join" /\ b.what = x
    BY DEF JoinWait
  <2> HIDE DEF b
  <2>2. WaitOf(t, b) = [thread |-> t, resource |-> t, target |-> b.what, join |-> TRUE]
    BY <2>1, WaitOfIs
  <2> QED
    BY <2>1, <2>2 DEF b
<1> QED
  BY <1>1, <1>2, <1>3

\* The mistakes that a wait for a condition and the end of a mutex make, and
\* what a lock adds to the nestings.
Mixed(blocking, c, m) ==
  {Finding("SYNC-009", c, m) :
     u \in {x \in Threads : blocking[x].on = "condition" /\ blocking[x].what = c /\ blocking[x].mutex # m}}
Users(n, blocking, m) ==
  {Finding("SYNC-007", m, u) : u \in {x \in Threads : m \in ToSet(n[x]) \/ blocking[x].mutex = m}}
NestedIn(ms, m) == {<<a, m>> : a \in ToSet(ms) \ {m}}

\* A wait filed together with findings.
LEMMA WaitsAdd ==
  ASSUME NEW s, SyncIs(s), NEW x, NEW w
  PROVE  [With(s, x) EXCEPT !.waits = Append(@, w)]
           = Sync(s.held, Append(s.waits, w), s.terminated, s.lock_edges, s.found \cup x)
<1> DEFINE q == With(s, x)
<1>1. q = Sync(s.held, s.waits, s.terminated, s.lock_edges, s.found \cup x)
  BY SyncFields
<1> HIDE DEF q
<1>2. /\ SyncIs(q) /\ q.held = s.held /\ q.waits = s.waits /\ q.terminated = s.terminated
      /\ q.lock_edges = s.lock_edges /\ q.found = s.found \cup x
  BY <1>1, SyncIsSync
<1>3. [q EXCEPT !.waits = Append(@, w)] = [q EXCEPT !.waits = Append(q.waits, w)]
  OBVIOUS
<1>4. [q EXCEPT !.waits = Append(q.waits, w)] = Sync(q.held, Append(q.waits, w), q.terminated, q.lock_edges, q.found)
  BY <1>2, SyncFields
<1> QED
  BY <1>2, <1>3, <1>4 DEF q

\* The record of a thread that starts to wait for a mutex.
LEMMA LockWaitStep ==
  ASSUME NEW s, SyncIs(s), NEW t, NEW m
  PROVE  SyncStep(s, Record("lock-wait", "ACQUIRE", t, m, ""))
           = Sync(s.held, Append(s.waits, WaitOf(t, MutexWait(m))), s.terminated, s.lock_edges, s.found)
<1> DEFINE r == Record("lock-wait", "ACQUIRE", t, m, "")
           w == WaitOf(t, MutexWait(m))
<1>1. r.class = "lock-wait" /\ r.op = "ACQUIRE" /\ r.thread = t /\ r.resource = m /\ r.related = ""
  BY DEF Record
<1>2. w = [thread |-> t, resource |-> m, target |-> "", join |-> FALSE] /\ ~w.join
  <2>1. w = [thread |-> t, resource |-> m, target |-> "", join |-> FALSE]
    BY WaitOfWait
  <2> HIDE DEF w
  <2> QED
    BY <2>1
<1> HIDE DEF r, w
<1>3. SyncStep(s, r) = WaitBegun(s, r)
  BY <1>1, StepIs DEF Waits
<1>4. WaitBegun(s, r) = [With(s, {}) EXCEPT !.waits = Append(@, w)]
  BY <1>1, <1>2 DEF WaitBegun
<1>5. [With(s, {}) EXCEPT !.waits = Append(@, w)]
        = Sync(s.held, Append(s.waits, w), s.terminated, s.lock_edges, s.found \cup {})
  BY WaitsAdd
<1>6. s.found \cup {} = s.found
  OBVIOUS
<1> QED
  BY <1>3, <1>4, <1>5, <1>6 DEF r, w

\* The record of a thread that starts to join: SYNC-005 if it holds a lock.
LEMMA JoinWaitStep ==
  ASSUME NEW s, SyncIs(s), NEW n, HeldIs(s.held, n), NEW t \in Threads, NEW u
  PROVE  SyncStep(s, Record("join-wait", "ACQUIRE", t, t, u))
           = Sync(s.held, Append(s.waits, WaitOf(t, JoinWait(u))), s.terminated, s.lock_edges,
                  s.found \cup (IF n[t] = <<>> THEN {} ELSE {Finding("SYNC-005", Last(n[t]), t)}))
<1> DEFINE r == Record("join-wait", "ACQUIRE", t, t, u)
           w == WaitOf(t, JoinWait(u))
           x == IF n[t] = <<>> THEN {} ELSE {Finding("SYNC-005", Last(n[t]), t)}
<1>1. r.class = "join-wait" /\ r.op = "ACQUIRE" /\ r.thread = t /\ r.resource = t /\ r.related = u
  BY DEF Record
<1>2. w = [thread |-> t, resource |-> t, target |-> u, join |-> TRUE] /\ w.join
  <2>1. w = [thread |-> t, resource |-> t, target |-> u, join |-> TRUE]
    BY WaitOfWait
  <2> HIDE DEF w
  <2> QED
    BY <2>1
<1> HIDE DEF r, w
<1>3. SyncStep(s, r) = WaitBegun(s, r)
  BY <1>1, StepIs DEF Waits
<1>4. WaitBegun(s, r) = [With(s, WhileHolding(s, "SYNC-005", r) \cup {}) EXCEPT !.waits = Append(@, w)]
  BY <1>1, <1>2 DEF WaitBegun
<1>5. WhileHolding(s, "SYNC-005", r) = x
  BY <1>1, WhileHoldingIs
<1>6. WhileHolding(s, "SYNC-005", r) \cup {} = x
  BY <1>5
<1> HIDE DEF x
<1>7. [With(s, x) EXCEPT !.waits = Append(@, w)]
        = Sync(s.held, Append(s.waits, w), s.terminated, s.lock_edges, s.found \cup x)
  BY WaitsAdd
<1> QED
  BY <1>3, <1>4, <1>6, <1>7 DEF r, w, x

\* The record of a wait on a condition: SYNC-009 if others wait with another mutex.
LEMMA ConditionWaitStep ==
  ASSUME NEW s, SyncIs(s), NEW blocking, WaitsAre(s.waits, blocking),
         NEW t, NEW c \in Conditions, NEW m
  PROVE  SyncStep(s, Record("condition-wait", "ACQUIRE", t, c, m))
           = Sync(s.held, Append(s.waits, WaitOf(t, ConditionWait(c, m))), s.terminated, s.lock_edges,
                  s.found \cup Mixed(blocking, c, m))
<1> DEFINE r == Record("condition-wait", "ACQUIRE", t, c, m)
           w == WaitOf(t, ConditionWait(c, m))
           others == {x \in Threads : blocking[x].on = "condition" /\ blocking[x].what = c /\ blocking[x].mutex # m}
           mixed == \E v \in ToSet(s.waits) : v.resource = c /\ v.target # m
           f == Finding("SYNC-009", c, m)
<1>1. r.class = "condition-wait" /\ r.op = "ACQUIRE" /\ r.thread = t /\ r.resource = c /\ r.related = m
  BY DEF Record
<1>2. w = [thread |-> t, resource |-> c, target |-> m, join |-> FALSE] /\ ~w.join
  <2>1. w = [thread |-> t, resource |-> c, target |-> m, join |-> FALSE]
    BY WaitOfWait
  <2> HIDE DEF w
  <2> QED
    BY <2>1
<1> HIDE DEF r, w
<1>3. SyncStep(s, r) = WaitBegun(s, r)
  BY <1>1, StepIs DEF Waits
<1>4. WaitBegun(s, r) = [With(s, {} \cup (IF mixed THEN {f} ELSE {})) EXCEPT !.waits = Append(@, w)]
  BY <1>1, <1>2 DEF WaitBegun
<1>5. mixed <=> others # {}
  <2>1. /\ s.waits \in Seq(WaitItems) /\ blocking \in [Threads -> Blockings]
        /\ ToSet(s.waits) = {s.waits[i] : i \in 1 .. Len(s.waits)}
    BY DEF WaitsAre, ToSet
  <2>2. ASSUME NEW i \in 1 .. Len(s.waits)
        PROVE  s.waits[i].resource = c /\ s.waits[i].target # m => s.waits[i].thread \in others
    <3> DEFINE v == s.waits[i]
               u == v.thread
               b == blocking[u]
    <3>1. u \in Threads /\ b.on # "nothing" /\ v = WaitOf(u, b)
      BY DEF WaitsAre
    <3>2. b \in Blockings
      BY <2>1, <3>1
    <3> HIDE DEF v, b, u
    <3>3. ASSUME v.resource = c, v.target # m PROVE b.on = "condition" /\ b.what = c /\ b.mutex # m
      <4>1. c \notin Mutexes /\ c \notin Threads
        BY ThreadAssumption
      <4>2. b.on # "mutex"
        <5> SUFFICES ASSUME b.on = "mutex" PROVE FALSE
          OBVIOUS
        <5>1. v = [thread |-> u, resource |-> b.what, target |-> "", join |-> FALSE]
          BY <3>1, WaitOfIs
        <5>2. v.resource = b.what /\ b.what \in Mutexes
          <6>1. b.what \in Mutexes
            BY <3>2, BlockingIs
          <6> QED
            BY <5>1, <6>1
        <5> QED
          BY <3>3, <4>1, <5>2
      <4>3. b.on # "join"
        <5> SUFFICES ASSUME b.on = "join" PROVE FALSE
          OBVIOUS
        <5>1. v = [thread |-> u, resource |-> u, target |-> b.what, join |-> TRUE]
          BY <3>1, WaitOfIs
        <5>2. v.resource = u /\ u \in Threads
          BY <3>1, <3>2, <5>1, BlockingIs
        <5> QED
          BY <3>3, <4>1, <5>2
      <4>4. b.on = "condition"
        BY <3>1, <3>2, <4>2, <4>3, BlockingIs
      <4>5. v = [thread |-> u, resource |-> b.what, target |-> b.mutex, join |-> FALSE]
        BY <3>1, <4>4, WaitOfIs
      <4> QED
        BY <3>3, <4>4, <4>5
    <3> QED
      BY <3>1, <3>3 DEF v, u, b
  <2>3. ASSUME NEW u \in others PROVE \E i \in 1 .. Len(s.waits) : s.waits[i].resource = c /\ s.waits[i].target # m
    <3> DEFINE b == blocking[u]
    <3>1. u \in Threads /\ b.on = "condition" /\ b.what = c /\ b.mutex # m
      BY <2>3
    <3>2. PICK i \in 1 .. Len(s.waits) : s.waits[i].thread = u
      BY <3>1 DEF WaitsAre
    <3>3. s.waits[i] = WaitOf(u, b)
      BY <3>2 DEF WaitsAre
    <3> HIDE DEF b
    <3>4. s.waits[i] = [thread |-> u, resource |-> b.what, target |-> b.mutex, join |-> FALSE]
      <4>1. b.on = "condition"
        BY <3>1
      <4>2. WaitOf(u, b) = [thread |-> u, resource |-> b.what, target |-> b.mutex, join |-> FALSE]
        BY <4>1, WaitOfIs
      <4> QED
        BY <3>3, <4>2
    <3> QED
      BY <3>1, <3>4
  <2> HIDE DEF others
  <2> QED
    BY <2>1, <2>2, <2>3
<1>6. {} \cup (IF mixed THEN {f} ELSE {}) = {f : u \in others}
  <2> HIDE DEF mixed, others, f
  <2> QED
    BY <1>5
<1>7. [With(s, {f : u \in others}) EXCEPT !.waits = Append(@, w)]
        = Sync(s.held, Append(s.waits, w), s.terminated, s.lock_edges, s.found \cup {f : u \in others})
  <2> DEFINE x == {f : u \in others}
  <2> HIDE DEF x
  <2>1. [With(s, x) EXCEPT !.waits = Append(@, w)]
        = Sync(s.held, Append(s.waits, w), s.terminated, s.lock_edges, s.found \cup x)
    BY WaitsAdd
  <2> QED
    BY <2>1 DEF x
<1> HIDE DEF mixed, others, f
<1>8. SyncStep(s, r) = Sync(s.held, Append(s.waits, w), s.terminated, s.lock_edges, s.found \cup {f : u \in others})
  BY <1>3, <1>4, <1>6, <1>7
<1>9. {f : u \in others} = Mixed(blocking, c, m)
  BY DEF Mixed, others, f
<1> QED
  BY <1>8, <1>9 DEF r, w

\* The wait that ends is the one the thread began.
LEMMA WaitEndStep ==
  ASSUME NEW s, SyncIs(s), NEW blocking, WaitsAre(s.waits, blocking),
         NEW t \in Threads, blocking[t].on # "nothing",
         NEW r, r.class \in Waits, r.op = "RELEASE", r.thread = t,
         r.class = "join-wait" => r.resource = t,
         r.resource = WaitOf(t, blocking[t]).resource
  PROVE  \E w : /\ SyncStep(s, r) = Sync(s.held, w, s.terminated, s.lock_edges, s.found)
                /\ WaitsAre(w, [blocking EXCEPT ![t] = Free])
<1> DEFINE x == r.resource
           k == Latest(s.waits, LAMBDA w : w.thread = t /\ w.resource = x)
           w == Without(s.waits, k)
<1>1. SyncStep(s, r) = WaitEnded(s, r)
  BY StepIs
<1>2. WaitEnded(s, r) = [s EXCEPT !.waits = w]
  <2> DEFINE waiter == IF r.class = "join-wait" THEN r.resource ELSE r.thread
             K(u) == {i \in DOMAIN s.waits : s.waits[i].thread = u /\ s.waits[i].resource = x}
  <2>1. waiter = t
    OBVIOUS
  <2>2. WaitEnded(s, r) = [s EXCEPT !.waits = Without(s.waits, Max(K(waiter) \cup {0}))]
    BY DEF WaitEnded, Latest
  <2>3. k = Max(K(t) \cup {0})
    BY DEF Latest
  <2> HIDE DEF K, waiter, k
  <2> QED
    BY <2>1, <2>2, <2>3
<1>4. k \in 1 .. Len(s.waits) /\ s.waits[k].thread = t
  <2>1. x = WaitOf(t, blocking[t]).resource
    OBVIOUS
  <2> HIDE DEF x
  <2> QED
    BY <2>1, WaitFinds DEF Latest
<1> HIDE DEF k
<1>5. WaitsAre(w, [blocking EXCEPT ![t] = Free])
  BY <1>4, WaitRemoved
<1> HIDE DEF w
<1>6. [s EXCEPT !.waits = w] = Sync(s.held, w, s.terminated, s.lock_edges, s.found)
  BY SyncFields
<1> QED
  BY <1>1, <1>2, <1>5, <1>6

\* The lock released is the one the thread holds, and what is said of the
\* order is right.
LEMMA ReleaseStep ==
  ASSUME NEW s, SyncIs(s), NEW n, HeldIs(s.held, n), NEW t \in Threads, NEW m \in Mutexes,
         m \in ToSet(n[t])
  PROVE  \E h : /\ SyncStep(s, Record("held", "RELEASE", t, m, ""))
                     = Sync(h, s.waits, s.terminated, s.lock_edges,
                            s.found \cup (IF Last(n[t]) = m THEN {}
                                          ELSE IF n[t] = <<>> THEN {} ELSE {Finding("SYNC-004", Last(n[t]), m)}))
                /\ HeldIs(h, [n EXCEPT ![t] = Without(n[t], Placed(n[t], m))])
<1> DEFINE r == Record("held", "RELEASE", t, m, "")
           top == LatestHeld(s, t)
           k == Filed(s.held, t, m)
           o == Placed(n[t], m)
           x == IF Last(n[t]) = m THEN {}
                ELSE IF n[t] = <<>> THEN {} ELSE {Finding("SYNC-004", Last(n[t]), m)}
           y == IF top # 0 /\ s.held[top].resource # m THEN WhileHolding(s, "SYNC-004", r) ELSE {}
           h == Without(s.held, k)
<1>1. r.class = "held" /\ r.op = "RELEASE" /\ r.thread = t /\ r.resource = m
  BY DEF Record
<1> HIDE DEF r
<1>2. SyncStep(s, r) = LockReleased(s, r)
  BY <1>1, StepIs
<1>3. LockReleased(s, r) = [With(s, y) EXCEPT !.held = Without(@, k)]
  <2> DEFINE held == s.held
  <2>1. Len(held) \in Nat /\ DOMAIN held = 1 .. Len(held)
    BY DEF HeldIs
  <2>2. Latest(held, LAMBDA z : z.thread = t /\ z.resource = m) = Filed(held, t, m)
    <3> HIDE DEF held
    <3> QED
      BY <2>1 DEF Latest, Filed
  <2> QED
    BY <1>1, <2>2 DEF LockReleased
<1>4. /\ k \in 1 .. Len(s.held) /\ s.held[k] = Item(t, m)
      /\ o \in 1 .. Len(n[t]) /\ n[t][o] = m
  BY ReleaseFinds
<1> HIDE DEF k, o
<1>5. HeldIs(h, [n EXCEPT ![t] = Without(n[t], o)])
  BY <1>4, HeldReleased
<1>6. n[t] # <<>>
  <2> SUFFICES ASSUME n[t] = <<>> PROVE FALSE
    OBVIOUS
  <2>1. Len(n[t]) = 0
    OBVIOUS
  <2> QED
    BY <1>4, <2>1
<1>7. top \in 1 .. Len(s.held) /\ s.held[top] = Item(t, Last(n[t]))
  BY <1>6, LatestHeldIs
<1>8. WhileHolding(s, "SYNC-004", r) = IF n[t] = <<>> THEN {} ELSE {Finding("SYNC-004", Last(n[t]), m)}
  BY <1>1, WhileHoldingIs
<1> HIDE DEF top
<1>9. top # 0 /\ s.held[top].resource = Last(n[t])
  <2>1. s.held[top].resource = Last(n[t])
    BY <1>7 DEF Item
  <2>2. Len(s.held) \in Nat
    BY DEF HeldIs
  <2> QED
    BY <1>7, <2>1, <2>2
<1>10. y = x
  BY <1>8, <1>9
<1> HIDE DEF x, y, h
<1> DEFINE q == With(s, x)
<1>11. q = Sync(s.held, s.waits, s.terminated, s.lock_edges, s.found \cup x)
  BY SyncFields
<1> HIDE DEF q
<1>12. /\ SyncIs(q) /\ q.held = s.held /\ q.waits = s.waits /\ q.terminated = s.terminated
       /\ q.lock_edges = s.lock_edges /\ q.found = s.found \cup x
  BY <1>11, SyncIsSync
<1>13. [q EXCEPT !.held = Without(@, k)] = [q EXCEPT !.held = h]
  BY <1>12 DEF h
<1>14. [q EXCEPT !.held = h] = Sync(h, s.waits, s.terminated, s.lock_edges, s.found \cup x)
  <2>1. [q EXCEPT !.held = h] = Sync(h, q.waits, q.terminated, q.lock_edges, q.found)
    BY <1>12, SyncFields
  <2> QED
    BY <1>12, <2>1
<1>15. SyncStep(s, r) = Sync(h, s.waits, s.terminated, s.lock_edges, s.found \cup x)
  BY <1>2, <1>3, <1>10, <1>13, <1>14 DEF q
<1> QED
  BY <1>5, <1>15 DEF r, x, o

\* Edges that end in one place are added one after the other: a loop is
\* closed if one of them leads back by those before it.
Entered(E, mine, from, m, k) == E \cup {<<from[j], m>> : j \in {i \in mine : i < k}}

LEMMA LoopEdges ==
  ASSUME NEW V, NEW E \in SUBSET (V \X V), IsFiniteSet(E), NEW n \in Nat, NEW mine \in SUBSET (1 .. n),
         NEW from, \A j \in mine : from[j] \in V, NEW m \in V
  PROVE  LET more == E \cup {<<from[j], m>> : j \in mine}
         IN  /\ more \in SUBSET (V \X V) /\ IsFiniteSet(more)
             /\ Loop(more, V) <=>
                  Loop(E, V) \/ \E k \in mine : Reaches(Entered(E, mine, from, m, k), m, from[k])
<1> DEFINE G(k) == Entered(E, mine, from, m, k)
           Told(k) == Loop(E, V) \/ \E j \in mine : j <= k /\ Reaches(G(j), m, from[j])
           H == {k \in 0 .. n : /\ G(k + 1) \in SUBSET (V \X V) /\ IsFiniteSet(G(k + 1))
                                /\ Loop(G(k + 1), V) <=> Told(k)}
<1>1. 0 \in H
  <2>1. G(0 + 1) = E
    <3>1. \A i \in mine : ~(i < 0 + 1)
      OBVIOUS
    <3> QED
      BY <3>1 DEF Entered
  <2>2. Told(0) <=> Loop(E, V)
    <3> HIDE DEF G
    <3> QED
      OBVIOUS
  <2> HIDE DEF G, Told
  <2> QED
    BY <2>1, <2>2
<1>2. ASSUME NEW k \in 1 .. n, k - 1 \in H PROVE k \in H
  <2>1. G(k) \in SUBSET (V \X V) /\ IsFiniteSet(G(k)) /\ (Loop(G(k), V) <=> Told(k - 1))
    <3>1. (k - 1) + 1 = k
      OBVIOUS
    <3> HIDE DEF G, Told
    <3> QED
      BY <1>2, <3>1
  <2>2. k \in 0 .. n
    OBVIOUS
  <2>3. CASE k \notin mine
    <3>1. \A i \in mine : i < k + 1 <=> i < k
      BY <2>3
    <3>2. G(k + 1) = G(k)
      BY <3>1 DEF Entered
    <3>3. \A i \in mine : i <= k <=> i <= k - 1
      BY <2>3
    <3> HIDE DEF G
    <3>4. Told(k) <=> Told(k - 1)
      BY <3>3
    <3> HIDE DEF Told
    <3> QED
      BY <2>1, <2>2, <3>2, <3>4
  <2>4. CASE k \in mine
    <3> DEFINE y == from[k]
    <3>1. \A i \in mine : i < k + 1 <=> i < k \/ i = k
      OBVIOUS
    <3>2. G(k + 1) = G(k) \cup {<<y, m>>}
      BY <2>4, <3>1 DEF Entered
    <3>3. y \in V /\ <<y, m>> \in V \X V
      BY <2>4
    <3>4. \A i \in mine : i <= k <=> i <= k - 1 \/ i = k
      OBVIOUS
    <3> HIDE DEF G
    <3>5. Told(k) <=> Told(k - 1) \/ Reaches(G(k), m, y)
      BY <2>4, <3>4
    <3> HIDE DEF Told, y
    <3>6. Loop(G(k) \cup {<<y, m>>}, V) <=> Loop(G(k), V) \/ Reaches(G(k), m, y)
      BY <2>1, <3>3, LoopAdds
    <3>7. IsFiniteSet(G(k) \cup {<<y, m>>})
      BY <2>1, FS_AddElement
    <3>8. G(k) \cup {<<y, m>>} \in SUBSET (V \X V)
      BY <2>1, <3>3
    <3> QED
      BY <2>1, <2>2, <3>2, <3>5, <3>6, <3>7, <3>8
  <2> QED
    BY <2>3, <2>4
<1>3. n \in H
  <2> HIDE DEF H
  <2>1. \A i \in 0 .. n : i \in H
    BY <1>1, <1>2, UpTo
  <2> QED
    BY <2>1
<1>4. G(n + 1) = E \cup {<<from[j], m>> : j \in mine}
  <2>1. \A i \in mine : i < n + 1
    OBVIOUS
  <2>2. {i \in mine : i < n + 1} = mine
    BY <2>1
  <2> QED
    BY <2>2 DEF Entered
<1>5. \A j \in mine : j <= n
  OBVIOUS
<1> HIDE DEF G
<1>6. Told(n) <=> Loop(E, V) \/ \E k \in mine : Reaches(G(k), m, from[k])
  BY <1>5
<1> HIDE DEF Told
<1> DEFINE more == E \cup {<<from[j], m>> : j \in mine}
<1>7. /\ more \in SUBSET (V \X V) /\ IsFiniteSet(more)
      /\ Loop(more, V) <=> Told(n)
  BY <1>3, <1>4
<1> QED
  BY <1>6, <1>7 DEF G

Edges == [from : Mutexes, to : Mutexes]

-----------------------------------------------------------------------------
(* What the policy knows of the threads, and that every record keeps it so. *)

\* Who consumed a thread is known; an older entry is of an identity reused.
Terminated(terminated, consumers, twice) ==
  /\ consumers \in [Threads -> Threads \cup {None}]
  /\ \A e \in terminated : /\ e.resource \in Threads /\ e.thread \in Threads
                           /\ e.resource \in twice \/ consumers[e.resource] = e.thread
  /\ \A u \in Threads : consumers[u] # None =>
       \E e \in terminated : e.resource = u /\ e.thread = consumers[u]

Accurate(found, made, twice) ==
  /\ made \subseteq found
  /\ \A f \in found \ made : f.id = "SYNC-001" \/ (f.id = "SYNC-008" /\ f.from \in twice)

Ordered(edges, pairs, found) ==
  /\ edges \in Seq(Edges) /\ IsFiniteSet(Pairs(edges)) /\ Pairs(edges) = pairs
  /\ (\E f \in found : f.id = "SYNC-001") <=> Loop(pairs, Mutexes)

Tracks(s, n, blocking, consumers, twice, pairs, made) ==
  /\ SyncIs(s)
  /\ HeldIs(s.held, n)
  /\ WaitsAre(s.waits, blocking)
  /\ Terminated(s.terminated, consumers, twice)
  /\ Accurate(s.found, made, twice)
  /\ Ordered(s.lock_edges, pairs, s.found)

\* The parts of the invariant put together.
LEMMA TracksIs ==
  ASSUME NEW h, NEW w, NEW t, NEW e, NEW f, NEW n, NEW b, NEW c, NEW u, NEW p, NEW m,
         HeldIs(h, n), WaitsAre(w, b), Terminated(t, c, u), Accurate(f, m, u), Ordered(e, p, f),
         NEW s, s = Sync(h, w, t, e, f)
  PROVE  Tracks(s, n, b, c, u, p, m)
<1>1. /\ SyncIs(s)
      /\ s.held = h /\ s.waits = w /\ s.terminated = t /\ s.lock_edges = e /\ s.found = f
  BY SyncIsSync
<1> QED
  BY <1>1 DEF Tracks

\* A mistake made and found leaves the findings accurate.
LEMMA AccurateAdds ==
  ASSUME NEW f, NEW m, NEW u, Accurate(f, m, u), NEW x
  PROVE  Accurate(f \cup x, m \cup x, u)
BY DEF Accurate

\* Findings of other kinds say nothing about the order of locks.
LEMMA OrderedAdds ==
  ASSUME NEW e, NEW p, NEW f, Ordered(e, p, f), NEW x, \A y \in x : y.id # "SYNC-001"
  PROVE  Ordered(e, p, f \cup x)
BY DEF Ordered

\* A thread starts to wait for a mutex.
LEMMA TracksLockWait ==
  ASSUME NEW s, NEW n, NEW b, NEW c, NEW u, NEW p, NEW x, Tracks(s, n, b, c, u, p, x),
         NEW t \in Threads, NEW m \in Mutexes, b[t] = Free
  PROVE  Tracks(SyncStep(s, Record("lock-wait", "ACQUIRE", t, m, "")),
                n, [b EXCEPT ![t] = MutexWait(m)], c, u, p, x)
<1> DEFINE w == Append(s.waits, WaitOf(t, MutexWait(m)))
           q == SyncStep(s, Record("lock-wait", "ACQUIRE", t, m, ""))
           now == [b EXCEPT ![t] = MutexWait(m)]
<1>1. /\ SyncIs(s) /\ HeldIs(s.held, n) /\ WaitsAre(s.waits, b) /\ Terminated(s.terminated, c, u)
      /\ Accurate(s.found, x, u) /\ Ordered(s.lock_edges, p, s.found)
  BY DEF Tracks
<1>2. q = Sync(s.held, w, s.terminated, s.lock_edges, s.found)
  BY <1>1, LockWaitStep
<1>3. MutexWait(m) \in Blockings /\ MutexWait(m).on # "nothing"
  BY DEF Blockings, MutexWait
<1>4. WaitsAre(w, now)
  <2> DEFINE v == MutexWait(m)
  <2>1. v \in Blockings /\ v.on # "nothing"
    BY <1>3
  <2> HIDE DEF v
  <2>2. WaitsAre(Append(s.waits, WaitOf(t, v)), [b EXCEPT ![t] = v])
    BY <1>1, <2>1, WaitAdded
  <2> QED
    BY <2>2 DEF v
<1> HIDE DEF q, w, now
<1>5. Tracks(q, n, now, c, u, p, x)
  BY <1>1, <1>2, <1>4, TracksIs
<1> QED
  BY <1>5 DEF q, now

\* A thread starts to join another.
LEMMA TracksJoinWait ==
  ASSUME NEW s, NEW n, NEW b, NEW c, NEW u, NEW p, NEW x, Tracks(s, n, b, c, u, p, x),
         NEW t \in Threads, NEW o \in Threads, b[t] = Free
  PROVE  Tracks(SyncStep(s, Record("join-wait", "ACQUIRE", t, t, o)),
                n, [b EXCEPT ![t] = JoinWait(o)], c, u, p,
                x \cup (IF n[t] = <<>> THEN {} ELSE {Finding("SYNC-005", Last(n[t]), t)}))
<1> DEFINE w == Append(s.waits, WaitOf(t, JoinWait(o)))
           q == SyncStep(s, Record("join-wait", "ACQUIRE", t, t, o))
           now == [b EXCEPT ![t] = JoinWait(o)]
           y == IF n[t] = <<>> THEN {} ELSE {Finding("SYNC-005", Last(n[t]), t)}
<1>1. /\ SyncIs(s) /\ HeldIs(s.held, n) /\ WaitsAre(s.waits, b) /\ Terminated(s.terminated, c, u)
      /\ Accurate(s.found, x, u) /\ Ordered(s.lock_edges, p, s.found)
  BY DEF Tracks
<1>2. q = Sync(s.held, w, s.terminated, s.lock_edges, s.found \cup y)
  BY <1>1, JoinWaitStep
<1>3. WaitsAre(w, now)
  <2> DEFINE v == JoinWait(o)
  <2>1. v \in Blockings /\ v.on # "nothing"
    BY DEF Blockings, JoinWait
  <2> HIDE DEF v
  <2>2. WaitsAre(Append(s.waits, WaitOf(t, v)), [b EXCEPT ![t] = v])
    BY <1>1, <2>1, WaitAdded
  <2> QED
    BY <2>2 DEF v
<1>4. \A f \in y : f.id # "SYNC-001"
  BY DEF Finding
<1> HIDE DEF q, w, now, y
<1>5. Accurate(s.found \cup y, x \cup y, u) /\ Ordered(s.lock_edges, p, s.found \cup y)
  BY <1>1, <1>4, AccurateAdds, OrderedAdds
<1>6. Tracks(q, n, now, c, u, p, x \cup y)
  BY <1>1, <1>2, <1>3, <1>5, TracksIs
<1> QED
  BY <1>6 DEF q, now, y

\* A thread starts to wait on a condition.
LEMMA TracksConditionWait ==
  ASSUME NEW s, NEW n, NEW b, NEW c, NEW u, NEW p, NEW x, Tracks(s, n, b, c, u, p, x),
         NEW t \in Threads, NEW o \in Conditions, NEW m \in Mutexes, b[t] = Free
  PROVE  Tracks(SyncStep(s, Record("condition-wait", "ACQUIRE", t, o, m)),
                n, [b EXCEPT ![t] = ConditionWait(o, m)], c, u, p,
                x \cup Mixed(b, o, m))
<1> DEFINE w == Append(s.waits, WaitOf(t, ConditionWait(o, m)))
           q == SyncStep(s, Record("condition-wait", "ACQUIRE", t, o, m))
           now == [b EXCEPT ![t] = ConditionWait(o, m)]
           y == Mixed(b, o, m)
<1>1. /\ SyncIs(s) /\ HeldIs(s.held, n) /\ WaitsAre(s.waits, b) /\ Terminated(s.terminated, c, u)
      /\ Accurate(s.found, x, u) /\ Ordered(s.lock_edges, p, s.found)
  BY DEF Tracks
<1>2. q = Sync(s.held, w, s.terminated, s.lock_edges, s.found \cup y)
  <2>1. SyncIs(s) /\ WaitsAre(s.waits, b)
    BY <1>1
  <2> QED
    BY <2>1, ConditionWaitStep
<1>3. WaitsAre(w, now)
  <2> DEFINE v == ConditionWait(o, m)
  <2>1. v \in Blockings /\ v.on # "nothing"
    BY DEF Blockings, ConditionWait
  <2> HIDE DEF v
  <2>2. WaitsAre(Append(s.waits, WaitOf(t, v)), [b EXCEPT ![t] = v])
    BY <1>1, <2>1, WaitAdded
  <2> QED
    BY <2>2 DEF v
<1>4. \A f \in y : f.id # "SYNC-001"
  BY DEF Finding, Mixed
<1> HIDE DEF q, w, now, y
<1>5. Accurate(s.found \cup y, x \cup y, u) /\ Ordered(s.lock_edges, p, s.found \cup y)
  BY <1>1, <1>4, AccurateAdds, OrderedAdds
<1>6. Tracks(q, n, now, c, u, p, x \cup y)
  BY <1>1, <1>2, <1>3, <1>5, TracksIs
<1> QED
  BY <1>6 DEF q, now, y

\* A wait ends.
LEMMA TracksWaitEnd ==
  ASSUME NEW s, NEW n, NEW b, NEW c, NEW u, NEW p, NEW x, Tracks(s, n, b, c, u, p, x),
         NEW t \in Threads, b[t].on # "nothing",
         NEW r, r.class \in Waits, r.op = "RELEASE", r.thread = t,
         r.class = "join-wait" => r.resource = t,
         r.resource = WaitOf(t, b[t]).resource
  PROVE  Tracks(SyncStep(s, r), n, [b EXCEPT ![t] = Free], c, u, p, x)
<1> DEFINE q == SyncStep(s, r)
           now == [b EXCEPT ![t] = Free]
<1>1. /\ SyncIs(s) /\ HeldIs(s.held, n) /\ WaitsAre(s.waits, b) /\ Terminated(s.terminated, c, u)
      /\ Accurate(s.found, x, u) /\ Ordered(s.lock_edges, p, s.found)
  BY DEF Tracks
<1>2. PICK w : q = Sync(s.held, w, s.terminated, s.lock_edges, s.found) /\ WaitsAre(w, now)
  BY <1>1, WaitEndStep
<1> HIDE DEF q, now
<1>3. Tracks(q, n, now, c, u, p, x)
  BY <1>1, <1>2, TracksIs
<1> QED
  BY <1>3 DEF q, now

\* A lock is released, from anywhere in the nest: SYNC-004 if not the innermost.
LEMMA TracksRelease ==
  ASSUME NEW s, NEW n, NEW b, NEW c, NEW u, NEW p, NEW x, Tracks(s, n, b, c, u, p, x),
         NEW t \in Threads, NEW m \in Mutexes, m \in ToSet(n[t])
  PROVE  Tracks(SyncStep(s, Record("held", "RELEASE", t, m, "")),
                [n EXCEPT ![t] = Without(n[t], Placed(n[t], m))], b, c, u, p,
                x \cup (IF Last(n[t]) = m THEN {}
                        ELSE IF n[t] = <<>> THEN {} ELSE {Finding("SYNC-004", Last(n[t]), m)}))
<1> DEFINE q == SyncStep(s, Record("held", "RELEASE", t, m, ""))
           now == [n EXCEPT ![t] = Without(n[t], Placed(n[t], m))]
           y == IF Last(n[t]) = m THEN {}
                ELSE IF n[t] = <<>> THEN {} ELSE {Finding("SYNC-004", Last(n[t]), m)}
<1>1. /\ SyncIs(s) /\ HeldIs(s.held, n) /\ WaitsAre(s.waits, b) /\ Terminated(s.terminated, c, u)
      /\ Accurate(s.found, x, u) /\ Ordered(s.lock_edges, p, s.found)
  BY DEF Tracks
<1>2. PICK h : q = Sync(h, s.waits, s.terminated, s.lock_edges, s.found \cup y) /\ HeldIs(h, now)
  BY <1>1, ReleaseStep
<1>3. \A f \in y : f.id # "SYNC-001"
  BY DEF Finding
<1> HIDE DEF q, now, y
<1>4. Accurate(s.found \cup y, x \cup y, u) /\ Ordered(s.lock_edges, p, s.found \cup y)
  BY <1>1, <1>3, AccurateAdds, OrderedAdds
<1>5. Tracks(q, now, b, c, u, p, x \cup y)
  BY <1>1, <1>2, <1>4, TracksIs
<1> QED
  BY <1>5 DEF q, now, y

\* A lock taken while others are held: each of them leads to it.
LEMMA TracksAcquire ==
  ASSUME NEW s, NEW n, NEW blocking, NEW consumers, NEW twice, NEW pairs, NEW mistakes,
         Tracks(s, n, blocking, consumers, twice, pairs, mistakes),
         NEW t \in Threads, NEW m \in Mutexes, \A o \in Threads : m \notin ToSet(n[o])
  PROVE  Tracks(SyncStep(s, Record("held", "ACQUIRE", t, m, "")), [n EXCEPT ![t] = Append(@, m)],
                blocking, consumers, twice, pairs \cup NestedIn(n[t], m), mistakes)
<1> DEFINE r == Record("held", "ACQUIRE", t, m, "")
           held == s.held
           N == Len(held)
           mine == {k \in DOMAIN held : held[k].thread = t /\ held[k].resource # m}
           from == [k \in 1 .. N |-> held[k].resource]
           E == Pairs(s.lock_edges)
           cycles == {k \in mine : Reaches(Entered(E, mine, from, m, k), m, from[k])}
           c == {Finding("SYNC-001", from[k], m) : k \in cycles}
           piece(k) == IF k \in mine THEN <<[from |-> held[k].resource, to |-> m]>> ELSE <<>>
           pieces == [k \in DOMAIN held |-> piece(k)]
           e == s.lock_edges \o FlattenSeq(pieces)
<1>0. /\ SyncIs(s) /\ HeldIs(s.held, n) /\ WaitsAre(s.waits, blocking) /\ Terminated(s.terminated, consumers, twice)
      /\ Accurate(s.found, mistakes, twice) /\ Ordered(s.lock_edges, pairs, s.found)
      /\ s.lock_edges \in Seq(Edges) /\ IsFiniteSet(Pairs(s.lock_edges)) /\ Pairs(s.lock_edges) = pairs
      /\ (\E f \in s.found : f.id = "SYNC-001") <=> Loop(pairs, Mutexes)
  BY DEF Tracks, Ordered
<1>1. r.class = "held" /\ r.op = "ACQUIRE" /\ r.thread = t /\ r.resource = m
  BY DEF Record
<1> HIDE DEF r
<1>2. SyncStep(s, r) = LockAcquired(s, r)
  BY <1>1, StepIs
<1>3. held \in Seq(Items) /\ N \in Nat /\ DOMAIN held = 1 .. N /\ \A k \in 1 .. N : held[k] \in Items
  BY <1>0 DEF HeldIs
<1>4. \A k \in 1 .. N : from[k] = held[k].resource /\ from[k] \in Mutexes
  BY <1>3 DEF Items
<1>5. LockAcquired(s, r)
        = [With(s, c) EXCEPT !.lock_edges = @ \o FlattenSeq(pieces), !.held = Append(@, Item(t, m))]
  <2> DEFINE Before(k) == E \cup {<<held[j].resource, m>> : j \in {i \in mine : i < k}}
             told == {Finding("SYNC-001", held[k].resource, m) :
                        k \in {x \in mine : Reaches(Before(x), m, held[x].resource)}}
  <2>1. LockAcquired(s, r)
        = [With(s, told) EXCEPT !.lock_edges = @ \o FlattenSeq(pieces), !.held = Append(@, Item(t, m))]
    BY <1>1 DEF LockAcquired, Item
  <2>2. \A k \in mine : from[k] = held[k].resource
    BY <1>3, <1>4
  <2>3. mine \subseteq 1 .. N
    BY <1>3
  <2>4. ASSUME NEW k PROVE Before(k) = Entered(E, mine, from, m, k)
    <3> HIDE DEF E, from, mine
    <3> QED
      BY <2>2 DEF Entered
  <2> HIDE DEF Before, E, from, mine
  <2>5. told = c
    BY <2>2, <2>4
  <2> HIDE DEF told, c, pieces
  <2> QED
    BY <2>1, <2>5
<1>6. mine \in SUBSET (1 .. N) /\ \A k \in mine : held[k].resource # m /\ held[k].thread = t
  BY <1>3
<1>7. {<<from[k], m>> : k \in mine} = NestedIn(n[t], m)
  <2>1. ASSUME NEW k \in mine PROVE from[k] \in ToSet(n[t]) \ {m}
    <3>1. held[k] = Item(t, from[k])
      BY <1>3, <1>4, <1>6, ItemIs
    <3>2. from[k] \in ToSet(n[t])
      <4> DEFINE a == from[k]
      <4>1. a \in Mutexes /\ k \in 1 .. N
        BY <1>4, <1>6
      <4> HIDE DEF a
      <4>2. a \in ToSet(n[t]) <=> \E i \in 1 .. Len(held) : held[i] = Item(t, a)
        BY <4>1, <1>0, HolderIs
      <4> QED
        BY <3>1, <4>1, <4>2 DEF a
    <3> QED
      BY <1>4, <1>6, <3>2
  <2>2. ASSUME NEW a \in ToSet(n[t]) \ {m} PROVE \E k \in mine : from[k] = a
    <3>1. a \in Mutexes
      BY <1>0 DEF HeldIs, ToSet
    <3>2. PICK k \in 1 .. N : held[k] = Item(t, a)
      BY <3>1, <1>0, HolderIs
    <3>3. held[k].thread = t /\ held[k].resource = a
      BY <3>2 DEF Item
    <3>4. k \in mine
      BY <1>3, <3>3
    <3> QED
      BY <1>4, <3>3, <3>4
  <2> HIDE DEF from, mine
  <2> QED
    BY <2>1, <2>2 DEF NestedIn
<1>8. /\ pieces \in Seq(Seq(Edges)) /\ Len(pieces) = N
      /\ \A k \in 1 .. N : pieces[k] = piece(k)
  <2>1. ASSUME NEW k \in 1 .. N PROVE piece(k) \in Seq(Edges)
    <3>1. [from |-> held[k].resource, to |-> m] \in Edges
      BY <1>4 DEF Edges
    <3> HIDE DEF mine
    <3> QED
      BY <3>1
  <2> HIDE DEF piece
  <2> QED
    BY <1>3, <2>1
<1>9. /\ FlattenSeq(pieces) \in Seq(Edges)
      /\ ToSet(FlattenSeq(pieces)) = UNION {ToSet(pieces[k]) : k \in 1 .. Len(pieces)}
  <2> HIDE DEF pieces
  <2> QED
    BY <1>8, FlattenIs
<1>10. e \in Seq(Edges) /\ ToSet(e) = ToSet(s.lock_edges) \cup ToSet(FlattenSeq(pieces))
  <2> DEFINE fs == FlattenSeq(pieces)
  <2>1. fs \in Seq(Edges)
    BY <1>9
  <2> HIDE DEF fs
  <2>2. s.lock_edges \o fs \in Seq(Edges) /\ ToSet(s.lock_edges \o fs) = ToSet(s.lock_edges) \cup ToSet(fs)
    BY <1>0, <2>1, ConcatIs
  <2> QED
    BY <2>2 DEF fs
<1>11. ToSet(FlattenSeq(pieces)) = {[from |-> from[k], to |-> m] : k \in mine}
  <2>1. \A k \in 1 .. N : ToSet(pieces[k]) = IF k \in mine THEN {[from |-> from[k], to |-> m]} ELSE {}
    <3> SUFFICES ASSUME NEW k \in 1 .. N
                 PROVE  ToSet(pieces[k]) = IF k \in mine THEN {[from |-> from[k], to |-> m]} ELSE {}
      OBVIOUS
    <3> DEFINE x == [from |-> held[k].resource, to |-> m]
    <3>1. ToSet(<<x>>) = {x} /\ ToSet(<<>>) = {}
      BY DEF ToSet
    <3> HIDE DEF mine
    <3> QED
      BY <1>4, <1>8, <3>1
  <2> DEFINE fs == ToSet(FlattenSeq(pieces))
             x(k) == [from |-> from[k], to |-> m]
  <2>2. fs = UNION {ToSet(pieces[k]) : k \in 1 .. N}
    BY <1>8, <1>9
  <2> HIDE DEF pieces, mine, from, fs, x
  <2>3. ASSUME NEW y \in fs PROVE \E k \in mine : y = x(k)
    <3>1. PICK k \in 1 .. N : y \in ToSet(pieces[k])
      BY <2>2
    <3> QED
      BY <2>1, <3>1 DEF x
  <2>4. ASSUME NEW k \in mine PROVE x(k) \in fs
    <3>1. k \in 1 .. N /\ x(k) \in ToSet(pieces[k])
      BY <1>6, <2>1 DEF x
    <3> QED
      BY <2>2, <3>1
  <2>5. fs = {x(k) : k \in mine}
    BY <2>3, <2>4
  <2> QED
    BY <2>5 DEF fs, x
<1>12. Pairs(e) = E \cup {<<from[k], m>> : k \in mine}
  <2>1. ToSet(e) = ToSet(s.lock_edges) \cup {[from |-> from[k], to |-> m] : k \in mine}
    BY <1>10, <1>11
  <2> HIDE DEF e, mine, from
  <2>2. ASSUME NEW z \in Pairs(e) PROVE z \in E \cup {<<from[k], m>> : k \in mine}
    <3>1. PICK y \in ToSet(e) : z = <<y.from, y.to>>
      BY DEF Pairs
    <3>2. CASE y \in ToSet(s.lock_edges)
      BY <3>1, <3>2 DEF Pairs
    <3>3. ASSUME NEW k \in mine, y = [from |-> from[k], to |-> m] PROVE z = <<from[k], m>>
      BY <3>1, <3>3
    <3> QED
      BY <2>1, <3>2, <3>3
  <2>3. ASSUME NEW z \in E PROVE z \in Pairs(e)
    BY <2>1 DEF Pairs
  <2>4. ASSUME NEW k \in mine PROVE <<from[k], m>> \in Pairs(e)
    <3> DEFINE y == [from |-> from[k], to |-> m]
    <3>1. y \in ToSet(e) /\ y.from = from[k] /\ y.to = m
      BY <2>1
    <3> HIDE DEF y
    <3> QED
      BY <3>1 DEF Pairs
  <2> QED
    BY <2>2, <2>3, <2>4
<1>13. E \in SUBSET (Mutexes \X Mutexes) /\ IsFiniteSet(E)
  <2>1. ToSet(s.lock_edges) \subseteq Edges
    BY <1>0 DEF ToSet
  <2> QED
    BY <1>0, <2>1 DEF Pairs, Edges
<1>14. LET more == E \cup {<<from[k], m>> : k \in mine}
       IN  /\ more \in SUBSET (Mutexes \X Mutexes) /\ IsFiniteSet(more)
           /\ Loop(more, Mutexes) <=>
                Loop(E, Mutexes) \/ \E k \in mine : Reaches(Entered(E, mine, from, m, k), m, from[k])
  <2>1. \A k \in mine : from[k] \in Mutexes
    BY <1>4, <1>6
  <2> HIDE DEF E, mine, from, N
  <2> QED
    BY <1>3, <1>6, <1>13, <2>1, LoopEdges
<1>15. c # {} <=> \E k \in mine : Reaches(Entered(E, mine, from, m, k), m, from[k])
  <2> HIDE DEF E, mine, from
  <2> QED
    OBVIOUS
<1>16. \A f \in c : f.id = "SYNC-001"
  <2> SUFFICES ASSUME NEW f \in c PROVE f.id = "SYNC-001"
    OBVIOUS
  <2> HIDE DEF cycles, from
  <2>1. PICK k \in cycles : f = Finding("SYNC-001", from[k], m)
    OBVIOUS
  <2> QED
    BY <2>1 DEF Finding
<1> HIDE DEF c, pieces, e, mine, from, cycles
<1>17. [With(s, c) EXCEPT !.lock_edges = @ \o FlattenSeq(pieces), !.held = Append(@, Item(t, m))]
         = Sync(Append(held, Item(t, m)), s.waits, s.terminated, e, s.found \cup c)
  <2> DEFINE q == With(s, c)
             h == Append(held, Item(t, m))
  <2>1. q = Sync(s.held, s.waits, s.terminated, s.lock_edges, s.found \cup c)
    BY <1>0, SyncFields
  <2> HIDE DEF q
  <2>2. /\ SyncIs(q) /\ q.held = s.held /\ q.waits = s.waits /\ q.terminated = s.terminated
        /\ q.lock_edges = s.lock_edges /\ q.found = s.found \cup c
    BY <2>1, SyncIsSync
  <2>3. [q EXCEPT !.lock_edges = @ \o FlattenSeq(pieces), !.held = Append(@, Item(t, m))]
          = [q EXCEPT !.lock_edges = e, !.held = h]
    BY <2>2 DEF e
  <2> HIDE DEF h
  <2>4. [q EXCEPT !.lock_edges = e, !.held = h] = Sync(h, q.waits, q.terminated, e, q.found)
    <3>1. SyncIs(q)
      BY <2>2
    <3> QED
      BY ONLY <3>1, SyncEdges
  <2>5. Sync(h, q.waits, q.terminated, e, q.found) = Sync(h, s.waits, s.terminated, e, s.found \cup c)
    BY <2>2
  <2>6. [q EXCEPT !.lock_edges = @ \o FlattenSeq(pieces), !.held = Append(@, Item(t, m))]
          = Sync(h, s.waits, s.terminated, e, s.found \cup c)
    BY <2>3, <2>4, <2>5
  <2> QED
    BY <2>6 DEF q, h
<1>18. /\ SyncStep(s, r) = Sync(Append(held, Item(t, m)), s.waits, s.terminated, e, s.found \cup c)
       /\ e \in Seq(Edges) /\ IsFiniteSet(Pairs(e))
       /\ Pairs(e) = E \cup NestedIn(n[t], m)
       /\ Loop(Pairs(e), Mutexes) <=> Loop(E, Mutexes) \/ c # {}
  BY <1>2, <1>5, <1>7, <1>10, <1>12, <1>14, <1>15, <1>17
<1> DEFINE now == [n EXCEPT ![t] = Append(@, m)]
           h == Append(held, Item(t, m))
           q == SyncStep(s, r)
           more == pairs \cup NestedIn(n[t], m)
<1>19. HeldIs(h, now)
  BY <1>0, HeldAcquired
<1>20. Pairs(e) = more
  BY <1>0, <1>18 DEF E
<1> HIDE DEF now, h, q, more
<1>21. Ordered(e, more, s.found \cup c)
  <2>1. (\E f \in s.found \cup c : f.id = "SYNC-001") <=> Loop(more, Mutexes)
    BY <1>0, <1>16, <1>18, <1>20 DEF E
  <2> QED
    BY <1>18, <1>20, <2>1 DEF Ordered
<1>22. Accurate(s.found \cup c, mistakes, twice)
  BY <1>0, <1>16 DEF Accurate
<1>23. Tracks(q, now, blocking, consumers, twice, more, mistakes)
  BY <1>0, <1>18, <1>19, <1>21, <1>22, TracksIs DEF q, h
<1> QED
  BY <1>23 DEF q, now, more, r

\* A mutex is destroyed: SYNC-007 for each thread that holds it or waits with it.
LEMMA TracksDestroy ==
  ASSUME NEW s, NEW n, NEW blocking, NEW consumers, NEW twice, NEW pairs, NEW mistakes,
         Tracks(s, n, blocking, consumers, twice, pairs, mistakes), NEW t, NEW m \in Mutexes
  PROVE  Tracks(SyncStep(s, Record("mutex", "RELEASE", t, m, "")), n, blocking, consumers, twice, pairs,
                mistakes \cup Users(n, blocking, m))
<1> DEFINE r == Record("mutex", "RELEASE", t, m, "")
           items == {h \in ToSet(s.held) : h.resource = m} \cup {w \in ToSet(s.waits) : m \in {w.resource, w.target}}
           users == {x \in Threads : m \in ToSet(n[x]) \/ blocking[x].mutex = m}
           told == {Finding("SYNC-007", m, x.thread) : x \in items}
           made == {Finding("SYNC-007", m, u) : u \in users}
<1>0. /\ SyncIs(s) /\ HeldIs(s.held, n) /\ WaitsAre(s.waits, blocking) /\ Terminated(s.terminated, consumers, twice)
      /\ Accurate(s.found, mistakes, twice) /\ Ordered(s.lock_edges, pairs, s.found)
  BY DEF Tracks
<1>1. r.class = "mutex" /\ r.op = "RELEASE" /\ r.resource = m
  BY DEF Record
<1> HIDE DEF r
<1>2. SyncStep(s, r) = MutexDestroyed(s, r)
  BY <1>1, StepIs
<1>3. MutexDestroyed(s, r) = With(s, told)
  BY <1>1 DEF MutexDestroyed
<1>4. /\ s.held \in Seq(Items) /\ s.waits \in Seq(WaitItems)
      /\ ToSet(s.held) = {s.held[i] : i \in 1 .. Len(s.held)}
      /\ ToSet(s.waits) = {s.waits[i] : i \in 1 .. Len(s.waits)}
  BY <1>0 DEF HeldIs, WaitsAre, ToSet
<1>5. None \notin Mutexes /\ "" \notin Mutexes /\ Conditions \cap Mutexes = {} /\ Threads \cap Mutexes = {}
  BY ThreadAssumption
<1>6. ASSUME NEW i \in 1 .. Len(s.waits)
      PROVE  /\ s.waits[i].thread \in Threads
             /\ m \in {s.waits[i].resource, s.waits[i].target} <=> blocking[s.waits[i].thread].mutex = m
  <2> DEFINE w == s.waits[i]
             u == w.thread
             b == blocking[u]
  <2>1. u \in Threads /\ b.on # "nothing" /\ w = WaitOf(u, b)
    BY <1>0 DEF WaitsAre
  <2>2. b \in Blockings
    BY <1>0, <2>1 DEF WaitsAre
  <2> HIDE DEF w, b, u
  <2>3. ASSUME b.on = "mutex" PROVE m \in {w.resource, w.target} <=> b.mutex = m
    <3>1. w = [thread |-> u, resource |-> b.what, target |-> "", join |-> FALSE]
      BY <2>1, <2>3, WaitOfIs
    <3>2. b.mutex = b.what
      BY <2>2, <2>3, BlockingIs
    <3> QED
      BY <1>5, <3>1, <3>2
  <2>4. ASSUME b.on = "condition" PROVE m \in {w.resource, w.target} <=> b.mutex = m
    <3>1. w = [thread |-> u, resource |-> b.what, target |-> b.mutex, join |-> FALSE]
      BY <2>1, <2>4, WaitOfIs
    <3>2. b.what \in Conditions
      BY <2>2, <2>4, BlockingIs
    <3> QED
      BY <1>5, <3>1, <3>2
  <2>5. ASSUME b.on = "join" PROVE m \in {w.resource, w.target} <=> b.mutex = m
    <3>1. w = [thread |-> u, resource |-> u, target |-> b.what, join |-> TRUE]
      BY <2>1, <2>5, WaitOfIs
    <3>2. b.what \in Threads /\ b.mutex = None
      BY <2>2, <2>5, BlockingIs
    <3>3. w.resource = u /\ w.target = b.what
      BY <3>1
    <3>4. m # u /\ m # b.what /\ b.mutex # m
      BY <1>5, <2>1, <3>2
    <3> QED
      BY <3>3, <3>4
  <2>6. b.on \in {"mutex", "condition", "join"}
    BY <2>1, <2>2, BlockingIs
  <2> QED
    BY <2>1, <2>3, <2>4, <2>5, <2>6 DEF w, u, b
<1>7. ASSUME NEW x \in items PROVE x.thread \in users
  <2>1. CASE x \in ToSet(s.held) /\ x.resource = m
    <3>1. PICK i \in 1 .. Len(s.held) : x = s.held[i]
      BY <1>4, <2>1
    <3>2. x \in Items
      BY <1>4, <3>1
    <3>3. x.thread \in Threads /\ x = Item(x.thread, m)
      BY <2>1, <3>2 DEF Items, Item
    <3>4. m \in ToSet(n[x.thread])
      BY <3>1, <3>3, <1>0, HolderIs
    <3> QED
      BY <3>3, <3>4
  <2>2. CASE x \in ToSet(s.waits) /\ m \in {x.resource, x.target}
    <3>1. PICK i \in 1 .. Len(s.waits) : x = s.waits[i]
      BY <1>4, <2>2
    <3> QED
      BY <1>6, <2>2, <3>1
  <2> QED
    BY <2>1, <2>2
<1>8. ASSUME NEW u \in users PROVE \E x \in items : x.thread = u
  <2>1. CASE m \in ToSet(n[u])
    <3>1. PICK i \in 1 .. Len(s.held) : s.held[i] = Item(u, m)
      BY <2>1, <1>0, HolderIs
    <3>2. s.held[i].thread = u /\ s.held[i].resource = m
      BY <3>1 DEF Item
    <3> QED
      BY <1>4, <3>2
  <2>2. CASE blocking[u].mutex = m
    <3>1. blocking[u] \in Blockings
      BY <1>0 DEF WaitsAre
    <3>2. blocking[u].on # "nothing"
      BY <1>5, <2>2, <3>1, BlockingIs
    <3>3. PICK i \in 1 .. Len(s.waits) : s.waits[i].thread = u
      BY <1>0, <3>2 DEF WaitsAre
    <3> QED
      BY <1>4, <1>6, <2>2, <3>3
  <2> QED
    BY <2>1, <2>2
<1>9. told = made
  <2> HIDE DEF items, users
  <2> QED
    BY <1>7, <1>8
<1> HIDE DEF told, made
<1>10. With(s, made) = Sync(s.held, s.waits, s.terminated, s.lock_edges, s.found \cup made)
  BY <1>0, SyncFields
<1>11. made = Users(n, blocking, m)
  BY DEF made, Users
<1>12. SyncStep(s, r) = Sync(s.held, s.waits, s.terminated, s.lock_edges, s.found \cup made)
  BY <1>2, <1>3, <1>9, <1>10
<1>13. \A f \in made : f.id # "SYNC-001"
  BY DEF Finding, made
<1> DEFINE q == SyncStep(s, r)
<1> HIDE DEF q
<1>14. Accurate(s.found \cup made, mistakes \cup made, twice) /\ Ordered(s.lock_edges, pairs, s.found \cup made)
  BY <1>0, <1>13, AccurateAdds, OrderedAdds
<1>15. Tracks(q, n, blocking, consumers, twice, pairs, mistakes \cup made)
  BY <1>0, <1>12, <1>14, TracksIs DEF q
<1> QED
  BY <1>11, <1>15 DEF q, r

\* A thread calls what may block: SYNC-010 if it holds a lock.
LEMMA TracksBlock ==
  ASSUME NEW s, NEW n, NEW b, NEW c, NEW u, NEW p, NEW x, Tracks(s, n, b, c, u, p, x), NEW t \in Threads, NEW o
  PROVE  Tracks(SyncStep(s, Record("blocking-operation", "USE", t, o, "")), n, b, c, u, p,
                x \cup (IF n[t] = <<>> THEN {} ELSE {Finding("SYNC-010", Last(n[t]), o)}))
<1> DEFINE r == Record("blocking-operation", "USE", t, o, "")
           q == SyncStep(s, r)
           y == IF n[t] = <<>> THEN {} ELSE {Finding("SYNC-010", Last(n[t]), o)}
<1>1. /\ SyncIs(s) /\ HeldIs(s.held, n) /\ WaitsAre(s.waits, b) /\ Terminated(s.terminated, c, u)
      /\ Accurate(s.found, x, u) /\ Ordered(s.lock_edges, p, s.found)
  BY DEF Tracks
<1>2. r.class = "blocking-operation" /\ r.thread = t /\ r.resource = o
  BY DEF Record
<1> HIDE DEF r
<1>3. q = With(s, WhileHolding(s, "SYNC-010", r))
  BY <1>2, StepIs
<1>4. WhileHolding(s, "SYNC-010", r) = y
  BY <1>1, <1>2, WhileHoldingIs
<1>5. \A f \in y : f.id # "SYNC-001"
  BY DEF Finding
<1> HIDE DEF q, y
<1>6. q = Sync(s.held, s.waits, s.terminated, s.lock_edges, s.found \cup y)
  BY <1>1, <1>3, <1>4, SyncFields
<1>7. Accurate(s.found \cup y, x \cup y, u) /\ Ordered(s.lock_edges, p, s.found \cup y)
  BY <1>1, <1>5, AccurateAdds, OrderedAdds
<1>8. Tracks(q, n, b, c, u, p, x \cup y)
  BY <1>1, <1>6, <1>7, TracksIs
<1> QED
  BY <1>8 DEF q, y, r

\* An attempt finds whoever consumed the thread, and with a thread that was not
\* consumed only what is left of an earlier one.
LEMMA TracksAttempt ==
  ASSUME NEW s, NEW n, NEW b, NEW c, NEW u, NEW p, NEW x, Tracks(s, n, b, c, u, p, x),
         NEW t \in Threads, NEW o \in Threads
  PROVE  Tracks(SyncStep(s, Record("terminal-attempt", "USE", t, o, "")), n, b, c, u, p,
                x \cup (IF c[o] = None THEN {} ELSE {Finding("SYNC-008", o, c[o])}))
<1> DEFINE r == Record("terminal-attempt", "USE", t, o, "")
           q == SyncStep(s, r)
           entries == {e \in s.terminated : e.resource = o}
           y == {Finding("SYNC-008", o, e.thread) : e \in entries}
           made == IF c[o] = None THEN {} ELSE {Finding("SYNC-008", o, c[o])}
<1>1. /\ SyncIs(s) /\ HeldIs(s.held, n) /\ WaitsAre(s.waits, b) /\ Terminated(s.terminated, c, u)
      /\ Accurate(s.found, x, u) /\ Ordered(s.lock_edges, p, s.found)
  BY DEF Tracks
<1>2. r.class = "terminal-attempt" /\ r.thread = t /\ r.resource = o
  BY DEF Record
<1> HIDE DEF r
<1>3. q = With(s, y)
  BY <1>2, StepIs
<1>4. \A f \in y : f.id = "SYNC-008" /\ f.from = o
  BY DEF Finding
<1>5. made \subseteq y
  <2> SUFFICES ASSUME c[o] # None PROVE Finding("SYNC-008", o, c[o]) \in y
    OBVIOUS
  <2>1. PICK e \in s.terminated : e.resource = o /\ e.thread = c[o]
    BY <1>1 DEF Terminated
  <2> QED
    BY <2>1
<1>6. \A f \in y : f \in made \/ o \in u
  <2> SUFFICES ASSUME NEW e \in entries, o \notin u PROVE Finding("SYNC-008", o, e.thread) \in made
    OBVIOUS
  <2>1. c[o] = e.thread /\ e.thread # None
    <3>1. e \in s.terminated /\ e.resource = o
      OBVIOUS
    <3>2. e.thread \in Threads /\ c[o] = e.thread
      BY <1>1, <3>1 DEF Terminated
    <3>3. None \notin Threads
      BY ThreadAssumption
    <3> QED
      BY <3>2, <3>3
  <2> QED
    BY <2>1
<1> HIDE DEF q, y, made
<1>7. q = Sync(s.held, s.waits, s.terminated, s.lock_edges, s.found \cup y)
  BY <1>1, <1>3, SyncFields
<1>8. Ordered(s.lock_edges, p, s.found \cup y)
  BY <1>1, <1>4, OrderedAdds
<1>9. Accurate(s.found \cup y, x \cup made, u)
  BY <1>1, <1>4, <1>5, <1>6 DEF Accurate
<1>10. Tracks(q, n, b, c, u, p, x \cup made)
  BY <1>1, <1>7, <1>8, <1>9, TracksIs
<1> QED
  BY <1>10 DEF q, made, r

\* A thread is joined or detached: who did it is filed.
LEMMA TracksConsumed ==
  ASSUME NEW s, NEW n, NEW b, NEW c, NEW u, NEW p, NEW x, Tracks(s, n, b, c, u, p, x),
         NEW t \in Threads, NEW o \in Threads, c[o] = None
  PROVE  Tracks(SyncStep(s, Record("joinable-thread", "RELEASE", t, o, "")), n, b, [c EXCEPT ![o] = t], u, p, x)
<1> DEFINE r == Record("joinable-thread", "RELEASE", t, o, "")
           q == SyncStep(s, r)
           entry == [resource |-> o, thread |-> t]
           more == s.terminated \cup {entry}
           now == [c EXCEPT ![o] = t]
<1>1. /\ SyncIs(s) /\ HeldIs(s.held, n) /\ WaitsAre(s.waits, b) /\ Terminated(s.terminated, c, u)
      /\ Accurate(s.found, x, u) /\ Ordered(s.lock_edges, p, s.found)
  BY DEF Tracks
<1>2. r.class = "joinable-thread" /\ r.op = "RELEASE" /\ r.thread = t /\ r.resource = o
  BY DEF Record
<1> HIDE DEF r
<1>3. q = [s EXCEPT !.terminated = more]
  <2>1. q = [s EXCEPT !.terminated = @ \cup {[resource |-> r.resource, thread |-> r.thread]}]
    BY <1>2, StepIs
  <2> QED
    BY <1>2, <2>1
<1>4. Terminated(more, now, u)
  <2>1. /\ c \in [Threads -> Threads \cup {None}]
        /\ \A e \in s.terminated : /\ e.resource \in Threads /\ e.thread \in Threads
                                   /\ e.resource \in u \/ c[e.resource] = e.thread
        /\ \A i \in Threads : c[i] # None =>
             \E e \in s.terminated : e.resource = i /\ e.thread = c[i]
    BY <1>1 DEF Terminated
  <2>2. /\ now \in [Threads -> Threads \cup {None}] /\ now[o] = t
        /\ \A i \in Threads : i # o => now[i] = c[i]
    BY <2>1
  <2>3. entry.resource = o /\ entry.thread = t /\ entry \in more
    OBVIOUS
  <2> HIDE DEF entry, now
  <2>4. ASSUME NEW e \in more
        PROVE  e.resource \in Threads /\ e.thread \in Threads /\ (e.resource \in u \/ now[e.resource] = e.thread)
    <3>1. CASE e = entry
      BY <2>2, <2>3, <3>1
    <3>2. CASE e \in s.terminated
      <4>1. CASE e.resource = o
        \* Nobody has consumed o yet, so the entry is of an earlier thread.
        <5>1. o \in u
          <6>1. None \notin Threads
            BY ThreadAssumption
          <6> QED
            BY <2>1, <3>2, <4>1, <6>1
        <5> QED
          BY <2>1, <3>2, <4>1, <5>1
      <4>2. CASE e.resource # o
        BY <2>1, <2>2, <3>2, <4>2
      <4> QED
        BY <4>1, <4>2
    <3> QED
      BY <3>1, <3>2
  <2>5. ASSUME NEW i \in Threads, now[i] # None PROVE \E e \in more : e.resource = i /\ e.thread = now[i]
    <3>1. CASE i = o
      BY <2>2, <2>3, <3>1
    <3>2. CASE i # o
      BY <2>1, <2>2, <2>5, <3>2
    <3> QED
      BY <3>1, <3>2
  <2> HIDE DEF more
  <2> QED
    BY <2>2, <2>4, <2>5 DEF Terminated
<1> HIDE DEF q, more, now
<1>5. q = Sync(s.held, s.waits, more, s.lock_edges, s.found)
  BY <1>1, <1>3, SyncFields
<1>6. Tracks(q, n, b, now, u, p, x)
  BY <1>1, <1>4, <1>5, TracksIs
<1> QED
  BY <1>6 DEF q, now, r

\* A thread is created under an identity that was used before.
LEMMA TracksCreated ==
  ASSUME NEW s, NEW n, NEW b, NEW c, NEW u, NEW p, NEW x, Tracks(s, n, b, c, u, p, x),
         NEW t, NEW o \in Threads
  PROVE  Tracks(SyncStep(s, Record("joinable-thread", "ACQUIRE", t, o, "")), n, b,
                [c EXCEPT ![o] = None], u \cup {o}, p, x)
<1> DEFINE r == Record("joinable-thread", "ACQUIRE", t, o, "")
           now == [c EXCEPT ![o] = None]
           twice == u \cup {o}
<1>1. /\ SyncIs(s) /\ HeldIs(s.held, n) /\ WaitsAre(s.waits, b) /\ Terminated(s.terminated, c, u)
      /\ Accurate(s.found, x, u) /\ Ordered(s.lock_edges, p, s.found)
  BY DEF Tracks
<1>2. r.class = "joinable-thread" /\ r.op = "ACQUIRE"
  BY DEF Record
<1> HIDE DEF r
<1>3. SyncStep(s, r) = s
  BY <1>2, StepIs
<1>4. Terminated(s.terminated, now, twice)
  <2>1. /\ c \in [Threads -> Threads \cup {None}]
        /\ \A e \in s.terminated : /\ e.resource \in Threads /\ e.thread \in Threads
                                   /\ e.resource \in u \/ c[e.resource] = e.thread
        /\ \A i \in Threads : c[i] # None =>
             \E e \in s.terminated : e.resource = i /\ e.thread = c[i]
    BY <1>1 DEF Terminated
  <2>2. /\ now \in [Threads -> Threads \cup {None}] /\ now[o] = None
        /\ \A i \in Threads : i # o => now[i] = c[i]
    BY <2>1
  <2> HIDE DEF now
  <2> QED
    BY <2>1, <2>2 DEF Terminated
<1>5. Accurate(s.found, x, twice)
  BY <1>1 DEF Accurate
<1> HIDE DEF now, twice
<1>6. Tracks(s, n, b, now, twice, p, x)
  BY <1>1, <1>4, <1>5 DEF Tracks
<1> QED
  BY <1>3, <1>6 DEF now, twice, r

-----------------------------------------------------------------------------
(* The invariant.                                                          *)

PolicyTracks == Tracks(sync, nest, blocked, consumer, reused, nestings, misuses)

\* Nothing has happened and nothing is known.
LEMMA InitTracks ==
  ASSUME Init
  PROVE  PolicyTracks
<1>1. /\ nest = [t \in Threads |-> <<>>] /\ blocked = [t \in Threads |-> Free]
      /\ consumer = [t \in Threads |-> None]
      /\ reused = {} /\ nestings = {} /\ misuses = {} /\ sync = Unanalyzed
  BY DEF Init
<1>2. /\ sync.held = <<>> /\ sync.waits = <<>> /\ sync.terminated = {} /\ sync.lock_edges = <<>>
      /\ sync.found = {} /\ SyncIs(sync)
  BY <1>1 DEF Unanalyzed, SyncIs, Sync
<1>3. /\ \A T : <<>> \in Seq(T)
      /\ Len(<<>>) = 0 /\ \A i : i \notin 1 .. 0
  OBVIOUS
<1>4. HeldIs(<<>>, nest)
  <2>1. nest \in [Threads -> Seq(Mutexes)] /\ \A t \in Threads : nest[t] = <<>>
    BY <1>1
  <2>2. Once(<<>>)
    BY DEF Once
  <2> QED
    BY <1>3, <2>1, <2>2 DEF HeldIs
<1>5. WaitsAre(<<>>, blocked)
  <2>1. blocked \in [Threads -> Blockings] /\ \A t \in Threads : blocked[t].on = "nothing"
    BY <1>1 DEF Blockings, Free
  <2> QED
    BY <1>3, <2>1 DEF WaitsAre
<1>6. Terminated({}, consumer, reused)
  BY <1>1 DEF Terminated
<1>7. Accurate({}, misuses, reused)
  BY <1>1 DEF Accurate
<1>8. Ordered(<<>>, nestings, {})
  <2>1. Pairs(<<>>) = {}
    BY DEF Pairs, ToSet
  <2>2. ~Loop({}, Mutexes)
    BY DEF Loop
  <2> QED
    BY <1>1, <1>3, <2>1, <2>2, FS_EmptySet DEF Ordered
<1> QED
  BY <1>2, <1>4, <1>5, <1>6, <1>7, <1>8 DEF PolicyTracks, Tracks

\* What the records of one call do to the policy.
LEMMA PublishIs ==
  ASSUME NEW r, NEW q
  PROVE  /\ Publish(<<r>>) => sync' = SyncStep(sync, r)
         /\ Publish(<<r, q>>) => sync' = SyncStep(SyncStep(sync, r), q)
<1>1. Len(<<r>>) = 1 /\ <<r>>[1] = r /\ Len(<<r, q>>) = 2 /\ <<r, q>>[1] = r /\ <<r, q>>[2] = q
  OBVIOUS
<1>2. Analyzed(sync, <<r>>) = SyncStep(sync, r)
  <2> DEFINE z == <<r>>
  <2>1. Len(z) = 1 /\ z[1] = r
    OBVIOUS
  <2> HIDE DEF z
  <2>2. Analyzed(sync, z) = SyncStep(sync, z[1])
    BY <2>1, AnalyzedIs
  <2> QED
    BY <2>1, <2>2 DEF z
<1>3. Analyzed(sync, <<r, q>>) = SyncStep(SyncStep(sync, r), q)
  <2> DEFINE z == <<r, q>>
  <2>1. Len(z) = 2 /\ z[1] = r /\ z[2] = q
    OBVIOUS
  <2> HIDE DEF z
  <2>2. Analyzed(sync, z) = SyncStep(SyncStep(sync, z[1]), z[2])
    BY <2>1, AnalyzedIs
  <2> QED
    BY <2>1, <2>2 DEF z
<1> QED
  BY <1>2, <1>3 DEF Publish

\* What unlocking leaves of the nest.
LEMMA DroppedIs ==
  ASSUME HeldIs(sync.held, nest), NEW t \in Threads, NEW m
  PROVE  Dropped(t, m) = Without(nest[t], Placed(nest[t], m))
<1>1. Len(nest[t]) \in Nat /\ DOMAIN nest[t] = 1 .. Len(nest[t])
  BY DEF HeldIs
<1> QED
  BY <1>1 DEF Dropped, Latest, Placed

\* pthread_mutex_lock starts.
LEMMA LockTracks ==
  ASSUME PolicyTracks, NEW t \in Threads, NEW m \in Mutexes, Lock(t, m)
  PROVE  PolicyTracks'
<1> DEFINE q == SyncStep(sync, Record("lock-wait", "ACQUIRE", t, m, ""))
<1>1. sync' = q
  BY PublishIs DEF Lock
<1>2. /\ blocked[t] = Free /\ blocked' = [blocked EXCEPT ![t] = MutexWait(m)]
      /\ UNCHANGED <<nest, consumer, reused, nestings, misuses>>
  BY DEF Lock, Runs, MutexWait
<1>3. Tracks(q, nest, [blocked EXCEPT ![t] = MutexWait(m)], consumer, reused, nestings, misuses)
  BY <1>2, TracksLockWait DEF PolicyTracks
<1> HIDE DEF q
<1> QED
  BY <1>1, <1>2, <1>3 DEF PolicyTracks

\* pthread_mutex_lock or pthread_cond_wait has the mutex.
LEMMA LockedTracks ==
  ASSUME PolicyTracks, NEW t \in Threads, Locked(t)
  PROVE  PolicyTracks'
<1> DEFINE b == blocked[t]
           m == b.mutex
           r == Record(IF b.on = "mutex" THEN "lock-wait" ELSE "condition-wait", "RELEASE",
                       t, b.what, IF b.on = "mutex" THEN "" ELSE m)
           s == SyncStep(sync, r)
           q == SyncStep(s, Record("held", "ACQUIRE", t, m, ""))
           now == [blocked EXCEPT ![t] = Free]
<1>1. sync' = q
  BY PublishIs DEF Locked
<1>2. /\ b.on \in {"mutex", "condition"} /\ \A u \in Threads : m \notin ToSet(nest[u])
      /\ blocked' = now /\ nest' = [nest EXCEPT ![t] = Append(@, m)]
      /\ nestings' = nestings \cup NestedIn(nest[t], m)
      /\ UNCHANGED <<consumer, reused, misuses>>
  BY DEF Locked, Untaken, Holds, Nested, NestedIn
<1>3. b \in Blockings
  BY DEF PolicyTracks, Tracks, WaitsAre
<1>4. /\ r.class \in Waits /\ r.class # "join-wait" /\ r.op = "RELEASE" /\ r.thread = t /\ r.resource = b.what
  BY DEF Record, Waits
<1>5. WaitOf(t, b).resource = b.what
  <2> HIDE DEF b
  <2> QED
    BY <1>2, LockWaitFields
<1>6. m \in Mutexes
  <2> HIDE DEF b
  <2> QED
    BY <1>2, <1>3, BlockingIs
<1>7. Tracks(s, nest, now, consumer, reused, nestings, misuses)
  <2> HIDE DEF r
  <2>1. b.on # "nothing"
    BY <1>2
  <2> QED
    BY <1>4, <1>5, <2>1, TracksWaitEnd DEF PolicyTracks
<1> HIDE DEF s, now
<1>8. Tracks(q, [nest EXCEPT ![t] = Append(@, m)], now, consumer, reused,
             nestings \cup NestedIn(nest[t], m), misuses)
  <2> HIDE DEF b
  <2> QED
    BY <1>2, <1>6, <1>7, TracksAcquire
<1> HIDE DEF q
<1> QED
  BY <1>1, <1>2, <1>8 DEF PolicyTracks

\* pthread_mutex_trylock succeeds at once.
LEMMA TryLockTracks ==
  ASSUME PolicyTracks, NEW t \in Threads, NEW m \in Mutexes, TryLock(t, m)
  PROVE  PolicyTracks'
<1> DEFINE q == SyncStep(sync, Record("held", "ACQUIRE", t, m, ""))
<1>1. sync' = q
  BY PublishIs DEF TryLock
<1>2. /\ \A u \in Threads : m \notin ToSet(nest[u])
      /\ nest' = [nest EXCEPT ![t] = Append(@, m)] /\ nestings' = nestings \cup NestedIn(nest[t], m)
      /\ UNCHANGED <<blocked, consumer, reused, misuses>>
  BY DEF TryLock, Untaken, Holds, Nested, NestedIn
<1>3. Tracks(q, [nest EXCEPT ![t] = Append(@, m)], blocked, consumer, reused,
             nestings \cup NestedIn(nest[t], m), misuses)
  BY <1>2, TracksAcquire DEF PolicyTracks
<1> HIDE DEF q
<1> QED
  BY <1>1, <1>2, <1>3 DEF PolicyTracks

\* pthread_mutex_unlock.
LEMMA UnlockTracks ==
  ASSUME PolicyTracks, NEW t \in Threads, NEW m \in Mutexes, Unlock(t, m)
  PROVE  PolicyTracks'
<1> DEFINE q == SyncStep(sync, Record("held", "RELEASE", t, m, ""))
           y == IF Last(nest[t]) = m THEN {}
                ELSE IF nest[t] = <<>> THEN {} ELSE {Finding("SYNC-004", Last(nest[t]), m)}
           now == [nest EXCEPT ![t] = Without(nest[t], Placed(nest[t], m))]
<1>1. sync' = q
  BY PublishIs DEF Unlock
<1>2. /\ m \in ToSet(nest[t]) /\ nest' = [nest EXCEPT ![t] = Dropped(t, m)]
      /\ misuses' = misuses \cup y
      /\ UNCHANGED <<blocked, consumer, reused, nestings>>
  BY DEF Unlock, Holds, DisorderlyRelease, Holding
<1>3. nest' = now
  <2>1. HeldIs(sync.held, nest)
    BY DEF PolicyTracks, Tracks
  <2>2. Dropped(t, m) = Without(nest[t], Placed(nest[t], m))
    BY <2>1, DroppedIs
  <2> QED
    BY <1>2, <2>2
<1>4. Tracks(q, now, blocked, consumer, reused, nestings, misuses \cup y)
  BY <1>2, TracksRelease DEF PolicyTracks
<1> HIDE DEF q, y, now
<1> QED
  BY <1>1, <1>2, <1>3, <1>4 DEF PolicyTracks

\* pthread_cond_wait gives up the mutex and waits.
LEMMA WaitTracks ==
  ASSUME PolicyTracks, NEW t \in Threads, NEW c \in Conditions, NEW m \in Mutexes, Wait(t, c, m)
  PROVE  PolicyTracks'
<1> DEFINE s == SyncStep(sync, Record("held", "RELEASE", t, m, ""))
           q == SyncStep(s, Record("condition-wait", "ACQUIRE", t, c, m))
           y == IF Last(nest[t]) = m THEN {}
                ELSE IF nest[t] = <<>> THEN {} ELSE {Finding("SYNC-004", Last(nest[t]), m)}
           now == [nest EXCEPT ![t] = Without(nest[t], Placed(nest[t], m))]
           waiting == [blocked EXCEPT ![t] = ConditionWait(c, m)]
<1>1. sync' = q
  BY PublishIs DEF Wait
<1>2. /\ m \in ToSet(nest[t]) /\ blocked[t] = Free /\ nest' = [nest EXCEPT ![t] = Dropped(t, m)]
      /\ blocked' = waiting
      /\ UNCHANGED <<consumer, reused, nestings>>
  BY DEF Wait, Holds, Runs, ConditionWait
<1>3. misuses' = misuses \cup y \cup Mixed(blocked, c, m)
  BY DEF Wait, DisorderlyRelease, Holding, Mixed
<1>4. nest' = now
  <2>1. HeldIs(sync.held, nest)
    BY DEF PolicyTracks, Tracks
  <2>2. Dropped(t, m) = Without(nest[t], Placed(nest[t], m))
    BY <2>1, DroppedIs
  <2> QED
    BY <1>2, <2>2
<1>5. Tracks(s, now, blocked, consumer, reused, nestings, misuses \cup y)
  BY <1>2, TracksRelease DEF PolicyTracks
<1> HIDE DEF s, y, now
<1>6. Tracks(q, now, waiting, consumer, reused, nestings, misuses \cup y \cup Mixed(blocked, c, m))
  BY <1>2, <1>5, TracksConditionWait
<1> HIDE DEF q, waiting
<1> QED
  BY <1>1, <1>2, <1>3, <1>4, <1>6 DEF PolicyTracks

\* pthread_mutex_destroy.
LEMMA DestroyTracks ==
  ASSUME PolicyTracks, NEW t \in Threads, NEW m \in Mutexes, Destroy(t, m)
  PROVE  PolicyTracks'
<1> DEFINE q == SyncStep(sync, Record("mutex", "RELEASE", t, m, ""))
<1>1. sync' = q
  BY PublishIs DEF Destroy
<1>2. /\ misuses' = misuses \cup Users(nest, blocked, m)
      /\ UNCHANGED <<nest, blocked, consumer, reused, nestings>>
  BY DEF Destroy, Holds, Users
<1>3. Tracks(q, nest, blocked, consumer, reused, nestings, misuses \cup Users(nest, blocked, m))
  BY TracksDestroy DEF PolicyTracks
<1> HIDE DEF q
<1> QED
  BY <1>1, <1>2, <1>3 DEF PolicyTracks

\* A call that may block.
LEMMA BlockTracks ==
  ASSUME PolicyTracks, NEW t \in Threads, Block(t)
  PROVE  PolicyTracks'
<1> DEFINE q == SyncStep(sync, Record("blocking-operation", "USE", t, "read", ""))
           y == IF nest[t] = <<>> THEN {} ELSE {Finding("SYNC-010", Last(nest[t]), "read")}
<1>1. sync' = q
  BY PublishIs DEF Block
<1>2. misuses' = misuses \cup y /\ UNCHANGED <<nest, blocked, consumer, reused, nestings>>
  BY DEF Block, Holding
<1>3. Tracks(q, nest, blocked, consumer, reused, nestings, misuses \cup y)
  BY TracksBlock DEF PolicyTracks
<1> HIDE DEF q, y
<1> QED
  BY <1>1, <1>2, <1>3 DEF PolicyTracks

\* pthread_join starts.
LEMMA JoinTracks ==
  ASSUME PolicyTracks, NEW t \in Threads, NEW u \in Threads, Join(t, u)
  PROVE  PolicyTracks'
<1> DEFINE s == SyncStep(sync, Attempt(t, u))
           q == SyncStep(s, Record("join-wait", "ACQUIRE", t, t, u))
           y == IF nest[t] = <<>> THEN {} ELSE {Finding("SYNC-005", Last(nest[t]), t)}
           waiting == [blocked EXCEPT ![t] = JoinWait(u)]
<1>1. sync' = q
  BY PublishIs DEF Join
<1>2. /\ blocked[t] = Free /\ consumer[u] = None /\ blocked' = waiting
      /\ UNCHANGED <<nest, consumer, reused, nestings>>
  BY DEF Join, Runs, JoinWait
<1>3. misuses' = misuses \cup y
  BY DEF Join, Holding
<1>4. Tracks(s, nest, blocked, consumer, reused, nestings, misuses)
  <2> DEFINE x == IF consumer[u] = None THEN {} ELSE {Finding("SYNC-008", u, consumer[u])}
  <2>1. Tracks(s, nest, blocked, consumer, reused, nestings, misuses \cup x)
    BY TracksAttempt DEF PolicyTracks, Attempt
  <2>2. misuses \cup x = misuses
    BY <1>2
  <2> HIDE DEF s, x
  <2> QED
    BY <2>1, <2>2
<1> HIDE DEF s
<1>5. Tracks(q, nest, waiting, consumer, reused, nestings, misuses \cup y)
  BY <1>2, <1>4, TracksJoinWait
<1> HIDE DEF q, y, waiting
<1> QED
  BY <1>1, <1>2, <1>3, <1>5 DEF PolicyTracks

\* pthread_join returns.
LEMMA JoinedTracks ==
  ASSUME PolicyTracks, NEW t \in Threads, Joined(t)
  PROVE  PolicyTracks'
<1> DEFINE b == blocked[t]
           u == b.what
           r == Record("join-wait", "RELEASE", t, t, u)
           s == SyncStep(sync, r)
           q == SyncStep(s, Consumed(t, u))
           now == [blocked EXCEPT ![t] = Free]
<1>1. /\ b.on = "join" /\ blocked' = now
      /\ consumer' = [consumer EXCEPT ![u] = IF @ = None THEN t ELSE @]
      /\ Publish(<<r>> \o (IF consumer[u] = None THEN <<Consumed(t, u)>> ELSE <<>>))
      /\ UNCHANGED <<nest, reused, nestings, misuses>>
  BY DEF Joined
<1>2. b \in Blockings /\ consumer \in [Threads -> Threads \cup {None}]
  BY DEF PolicyTracks, Tracks, WaitsAre, Terminated
<1>3. u \in Threads
  <2> HIDE DEF b
  <2> QED
    BY <1>1, <1>2, BlockingIs
<1>4. r.class = "join-wait" /\ r.op = "RELEASE" /\ r.thread = t /\ r.resource = t
  BY DEF Record
<1>5. WaitOf(t, b).resource = t
  <2> HIDE DEF b
  <2>1. WaitOf(t, b) = [thread |-> t, resource |-> t, target |-> b.what, join |-> TRUE]
    BY <1>1, WaitOfIs
  <2> QED
    BY <2>1
<1>6. Tracks(s, nest, now, consumer, reused, nestings, misuses)
  <2> HIDE DEF r
  <2>1. b.on # "nothing" /\ r.class \in Waits
    BY <1>1, <1>4 DEF Waits
  <2> QED
    BY <1>4, <1>5, <2>1, TracksWaitEnd DEF PolicyTracks
<1>7. ASSUME consumer[u] = None PROVE PolicyTracks'
  <2> DEFINE v == Consumed(t, u)
             records == <<r>> \o <<v>>
  <2>1. sync' = Analyzed(sync, records)
    BY <1>1, <1>7 DEF Publish
  <2>2. sync' = q
    <3> HIDE DEF r, v
    <3>1. <<r>> \in Seq({r, v}) /\ <<v>> \in Seq({r, v}) /\ Len(<<r>>) = 1 /\ Len(<<v>>) = 1
          /\ <<r>>[1] = r /\ <<v>>[1] = v
      OBVIOUS
    <3>2. Len(records) = 2 /\ records[1] = r /\ records[2] = v
      BY <3>1, ConcatProperties
    <3> HIDE DEF records
    <3>3. Analyzed(sync, records) = SyncStep(SyncStep(sync, records[1]), records[2])
      BY <3>2, AnalyzedIs
    <3> QED
      BY <2>1, <3>2, <3>3 DEF v
  <2>3. consumer' = [consumer EXCEPT ![u] = t]
    BY <1>1, <1>2, <1>3, <1>7
  <2> HIDE DEF s, now, b
  <2>4. Tracks(q, nest, now, [consumer EXCEPT ![u] = t], reused, nestings, misuses)
    BY <1>3, <1>6, <1>7, TracksConsumed DEF Consumed
  <2> HIDE DEF q
  <2> QED
    BY <1>1, <2>2, <2>3, <2>4 DEF PolicyTracks
<1>8. ASSUME consumer[u] # None PROVE PolicyTracks'
  <2>1. Publish(<<r>>)
    <3>1. <<r>> \o <<>> = <<r>>
      <4> HIDE DEF r
      <4> QED
        OBVIOUS
    <3> QED
      BY <1>1, <1>8, <3>1
  <2>2. sync' = s
    BY <2>1, PublishIs
  <2>3. consumer' = consumer
    BY <1>1, <1>2, <1>3, <1>8
  <2> HIDE DEF s, now, b
  <2> QED
    BY <1>1, <1>6, <2>2, <2>3 DEF PolicyTracks
<1> HIDE DEF b
<1> QED
  BY <1>7, <1>8

\* pthread_detach.
LEMMA DetachTracks ==
  ASSUME PolicyTracks, NEW t \in Threads, NEW u \in Threads, Detach(t, u)
  PROVE  PolicyTracks'
<1> DEFINE s == SyncStep(sync, Attempt(t, u))
           q == SyncStep(s, Consumed(t, u))
<1>1. sync' = q
  BY PublishIs DEF Detach
<1>2. /\ consumer[u] = None /\ consumer' = [consumer EXCEPT ![u] = t]
      /\ UNCHANGED <<nest, blocked, reused, nestings, misuses>>
  BY DEF Detach
<1>3. Tracks(s, nest, blocked, consumer, reused, nestings, misuses)
  <2> DEFINE x == IF consumer[u] = None THEN {} ELSE {Finding("SYNC-008", u, consumer[u])}
  <2>1. Tracks(s, nest, blocked, consumer, reused, nestings, misuses \cup x)
    BY TracksAttempt DEF PolicyTracks, Attempt
  <2>2. misuses \cup x = misuses
    BY <1>2
  <2> HIDE DEF s, x
  <2> QED
    BY <2>1, <2>2
<1> HIDE DEF s
<1>4. Tracks(q, nest, blocked, [consumer EXCEPT ![u] = t], reused, nestings, misuses)
  BY <1>2, <1>3, TracksConsumed DEF Consumed
<1> HIDE DEF q
<1> QED
  BY <1>1, <1>2, <1>4 DEF PolicyTracks

\* A thread is joined or detached again.
LEMMA ConsumeAgainTracks ==
  ASSUME PolicyTracks, NEW t \in Threads, NEW u \in Threads, ConsumeAgain(t, u)
  PROVE  PolicyTracks'
<1> DEFINE s == SyncStep(sync, Attempt(t, u))
           x == IF consumer[u] = None THEN {} ELSE {Finding("SYNC-008", u, consumer[u])}
<1>1. sync' = s
  BY PublishIs DEF ConsumeAgain
<1>2. misuses' = misuses \cup x /\ UNCHANGED <<nest, blocked, consumer, reused, nestings>>
  BY DEF ConsumeAgain
<1>3. Tracks(s, nest, blocked, consumer, reused, nestings, misuses \cup x)
  BY TracksAttempt DEF PolicyTracks, Attempt
<1> HIDE DEF s, x
<1> QED
  BY <1>1, <1>2, <1>3 DEF PolicyTracks

\* pthread_create, perhaps with an identity that was used before.
LEMMA CreateTracks ==
  ASSUME PolicyTracks, NEW t \in Threads, NEW u \in Threads, Create(t, u)
  PROVE  PolicyTracks'
<1> DEFINE q == SyncStep(sync, Record("joinable-thread", "ACQUIRE", t, u, ""))
<1>1. sync' = q
  BY PublishIs DEF Create
<1>2. /\ consumer' = [consumer EXCEPT ![u] = None] /\ reused' = reused \cup {u}
      /\ UNCHANGED <<nest, blocked, nestings, misuses>>
  BY DEF Create
<1>3. Tracks(q, nest, blocked, [consumer EXCEPT ![u] = None], reused \cup {u}, nestings, misuses)
  BY TracksCreated DEF PolicyTracks
<1> HIDE DEF q
<1> QED
  BY <1>1, <1>2, <1>3 DEF PolicyTracks

\* Every action keeps the invariant.
LEMMA StepTracks ==
  ASSUME PolicyTracks, [Next]_vars
  PROVE  PolicyTracks'
<1>1. CASE UNCHANGED vars
  BY <1>1 DEF vars, threads, PolicyTracks
<1>2. ASSUME NEW t \in Threads, NEW m \in Mutexes,
             Lock(t, m) \/ TryLock(t, m) \/ Unlock(t, m) \/ Destroy(t, m)
      PROVE  PolicyTracks'
  BY <1>2, LockTracks, TryLockTracks, UnlockTracks, DestroyTracks
<1>3. ASSUME NEW t \in Threads, NEW m \in Mutexes, NEW c \in Conditions, Wait(t, c, m)
      PROVE  PolicyTracks'
  BY <1>3, WaitTracks
<1>4. ASSUME NEW t \in Threads, NEW u \in Threads,
             Join(t, u) \/ Detach(t, u) \/ ConsumeAgain(t, u) \/ Create(t, u)
      PROVE  PolicyTracks'
  BY <1>4, JoinTracks, DetachTracks, ConsumeAgainTracks, CreateTracks
<1>5. ASSUME NEW t \in Threads, Locked(t) \/ Joined(t) \/ Block(t)
      PROVE  PolicyTracks'
  BY <1>5, LockedTracks, JoinedTracks, BlockTracks
<1>6. ASSUME NEW t \in Threads, Exit(t)
      PROVE  PolicyTracks'
  BY <1>6 DEF Exit, PolicyTracks
<1> QED
  BY <1>1, <1>2, <1>3, <1>4, <1>5, <1>6 DEF Next

\* What analyze_synchronization keeps (held, waits, terminated, lock_edges and
\* the findings) is what the threads did, after every record.
THEOREM PolicyTracksThreads == Spec => []PolicyTracks
<1>1. Init => PolicyTracks
  BY InitTracks
<1>2. PolicyTracks /\ [Next]_vars => PolicyTracks'
  BY StepTracks
<1> QED
  BY <1>1, <1>2, PTL DEF Spec

\* SYNC-001: analyze_synchronization has reported a cycle exactly when the threads have
\* nested mutexes in a circle, whichever edge of it came last.
THEOREM LockOrderCorrect == Spec => []LockOrderExact
<1>1. PolicyTracks => LockOrderExact
  BY DEF PolicyTracks, Tracks, Ordered, LockOrderExact, Cycle, Loop
<1> QED
  BY <1>1, PolicyTracksThreads, PTL

\* SYNC-004, 005 and 007 to 010: each mistake of a thread is found when it is made, and
\* nothing else is, but SYNC-008 of an identity that was used twice (the entry of
\* the earlier thread is never removed from terminated).
THEOREM MisuseCorrect == Spec => []MisuseExact
<1>1. PolicyTracks => MisuseExact
  BY DEF PolicyTracks, Tracks, Accurate, MisuseExact
<1> QED
  BY <1>1, PolicyTracksThreads, PTL

-----------------------------------------------------------------------------
(* Deadlocks.                                                              *)

\* A circle that has an edge outside J is found by that edge, and one that has
\* none is found in J alone.
LEMMA LoopParts ==
  ASSUME NEW V, NEW E \in SUBSET (V \X V), IsFiniteSet(E), NEW J \in SUBSET E
  PROVE  Loop(E, V) <=> \/ \E e \in J : Reaches(J, e[2], e[1])
                        \/ \E e \in E \ J : Reaches(E, e[2], e[1])
<1>1. IsFiniteSet(J)
  BY FS_Subset
<1>2. ASSUME NEW e \in J, Reaches(J, e[2], e[1]) PROVE Reaches(E, e[2], e[1])
  BY <1>1, <1>2, ReachesMore
<1>3. ASSUME NEW e \in J, Reaches(E, e[2], e[1]), \A d \in E \ J : ~Reaches(E, d[2], d[1])
      PROVE  Reaches(J, e[2], e[1])
  <2> DEFINE a == e[2]
             z == e[1]
             C == {x \in V : Reaches(E, a, x) /\ (Reaches(E, x, z) => Reaches(J, a, x))}
  <2>1. a \in V /\ z \in V
    OBVIOUS
  <2>2. Reaches(E, a, a) /\ Reaches(J, a, a) /\ Reaches(E, z, z) /\ Reaches(E, z, a)
    <3>1. Reaches(E, z, z) /\ \A d \in E : Reaches(E, z, d[1]) => Reaches(E, z, d[2])
      BY ReachesIs
    <3>2. Reaches(E, z, a)
      BY <3>1
    <3> QED
      BY <1>1, <3>1, <3>2, ReachesIs
  <2>3. ASSUME NEW d \in E, d[1] \in C PROVE d[2] \in C
    <3> DEFINE x == d[1]
               y == d[2]
    <3>1. y \in V /\ Reaches(E, a, x)
      BY <2>3
    <3>2. Reaches(E, a, y)
      BY <3>1, ReachesIs
    <3>3. ASSUME Reaches(E, y, z) PROVE Reaches(J, a, y)
      <4>1. Reaches(E, x, y)
        <5>1. Reaches(E, x, x)
          BY ReachesIs
        <5> QED
          BY <5>1, ReachesIs
      <4>2. Reaches(E, x, z) /\ Reaches(E, y, a)
        BY <2>2, <3>3, <4>1, ReachesOn
      <4>3. Reaches(E, y, x)
        BY <3>1, <4>2, ReachesOn
      <4>4. d \in J
        BY <1>3, <4>3
      <4>5. Reaches(J, a, x)
        BY <2>3, <4>2
      <4> QED
        BY <1>1, <4>4, <4>5, ReachesIs
    <3> QED
      BY <3>1, <3>2, <3>3
  <2>4. a \in C /\ Closed(E, C)
    BY <2>1, <2>2, <2>3 DEF Closed
  <2>5. z \in C
    <3> HIDE DEF C, a, z
    <3>1. Reaches(E, a, z)
      BY <1>3 DEF a, z
    <3> QED
      BY <2>4, <3>1, ReachesIs
  <2> QED
    BY <2>2, <2>5
<1>4. Loop(E, V) <=> \E e \in E : Reaches(E, e[2], e[1])
  BY LoopReaches
<1> QED
  BY <1>2, <1>3, <1>4

\* A sequence has finitely many edges.
LEMMA PairsFinite ==
  ASSUME NEW T, NEW s \in Seq(T)
  PROVE  IsFiniteSet(Pairs(s))
<1> DEFINE n == Len(s)
           P(k) == {<<s[i].from, s[i].to>> : i \in 1 .. k}
           H == {k \in 0 .. n : IsFiniteSet(P(k))}
<1>1. n \in Nat
  OBVIOUS
<1>2. 0 \in H
  <2>1. P(0) = {}
    OBVIOUS
  <2> HIDE DEF P
  <2> QED
    BY <1>1, <2>1, FS_EmptySet
<1>3. ASSUME NEW k \in 1 .. n, k - 1 \in H PROVE k \in H
  <2>1. P(k) = P(k - 1) \cup {<<s[k].from, s[k].to>>}
    <3>1. 1 .. k = (1 .. (k - 1)) \cup {k}
      BY <1>1
    <3> QED
      BY <3>1
  <2>2. IsFiniteSet(P(k - 1)) /\ k \in 0 .. n
    BY <1>1, <1>3
  <2> DEFINE x == <<s[k].from, s[k].to>>
             A == P(k - 1)
  <2> HIDE DEF P, x, A
  <2>3. IsFiniteSet(A) /\ P(k) = A \cup {x}
    BY <2>1, <2>2 DEF x, A
  <2>4. IsFiniteSet(A \cup {x})
    BY <2>3, FS_AddElement
  <2> QED
    BY <2>2, <2>3, <2>4
<1>4. n \in H
  <2> HIDE DEF H
  <2>1. \A i \in 0 .. n : i \in H
    BY <1>1, <1>2, <1>3, UpTo
  <2> QED
    BY <1>1, <2>1
<1>5. Pairs(s) = P(n)
  BY DEF Pairs, ToSet
<1> QED
  BY <1>4, <1>5

\* Who waits for whom.
Waiting(n, b, t, u) ==
  \/ b[t].on = "mutex" /\ b[t].what \in ToSet(n[u])
  \/ b[t].on = "join" /\ b[t].what = u
WaitGraph(n, b) == {e \in Threads \X Threads : Waiting(n, b, e[1], e[2])}
JoinGraph(b) == {e \in Threads \X Threads : b[e[1]].on = "join" /\ b[e[1]].what = e[2]}
WaitEdge == [from : Threads, to : Threads]
EdgesOf(held, w) ==
  IF w.join THEN <<[from |-> w.thread, to |-> w.target]>>
  ELSE FlattenSeq([j \in DOMAIN held |->
         IF held[j].resource = w.resource THEN <<[from |-> w.thread, to |-> held[j].thread]>> ELSE <<>>])

\* The edges of one wait.
LEMMA EdgesOfIs ==
  ASSUME NEW held, NEW n, HeldIs(held, n), NEW waits, NEW blocking, WaitsAre(waits, blocking),
         NEW w, NEW t \in Threads, blocking[t].on # "nothing", w = WaitOf(t, blocking[t])
  PROVE  /\ EdgesOf(held, w) \in Seq(WaitEdge)
         /\ \A e : e \in ToSet(EdgesOf(held, w)) <=>
              \E u \in Threads : e = [from |-> t, to |-> u] /\ Waiting(n, blocking, t, u)
<1> DEFINE b == blocking[t]
           es == EdgesOf(held, w)
<1>1. b \in Blockings /\ w = WaitOf(t, b)
  BY DEF WaitsAre
<1>2. held \in Seq(Items) /\ Len(held) \in Nat /\ DOMAIN held = 1 .. Len(held)
      /\ \A j \in 1 .. Len(held) : held[j].thread \in Threads /\ held[j].resource \in Mutexes
  <2>1. held \in Seq(Items)
    BY DEF HeldIs
  <2>2. Len(held) \in Nat /\ DOMAIN held = 1 .. Len(held) /\ \A j \in 1 .. Len(held) : held[j] \in Items
    BY <2>1
  <2>3. \A i \in Items : i.thread \in Threads /\ i.resource \in Mutexes
    BY DEF Items
  <2> QED
    BY <2>1, <2>2, <2>3
<1>3. ASSUME b.on = "join"
      PROVE  /\ es \in Seq(WaitEdge)
             /\ \A e : e \in ToSet(es) <=> \E u \in Threads : e = [from |-> t, to |-> u] /\ Waiting(n, blocking, t, u)
  <2> DEFINE x == [from |-> t, to |-> b.what]
  <2>1. w.join /\ w.thread = t /\ w.target = b.what
    <3> HIDE DEF b
    <3>1. w = [thread |-> t, resource |-> t, target |-> b.what, join |-> TRUE]
      BY <1>1, <1>3, WaitOfIs
    <3> QED
      BY <3>1
  <2>2. es = <<x>>
    BY <2>1 DEF EdgesOf
  <2>3. b.what \in Threads
    <3> HIDE DEF b
    <3> QED
      BY <1>1, <1>3, BlockingIs
  <2>4. x \in WaitEdge
    BY <2>3 DEF WaitEdge
  <2>5. ToSet(es) = {x}
    BY <2>2 DEF ToSet
  <2>6. \A u : Waiting(n, blocking, t, u) <=> u = b.what
    BY <1>3 DEF Waiting
  <2> HIDE DEF es, b
  <2>7. es \in Seq(WaitEdge)
    BY <2>2, <2>4
  <2> QED
    BY <2>3, <2>5, <2>6, <2>7
<1>4. ASSUME b.on \in {"mutex", "condition"}
      PROVE  /\ es \in Seq(WaitEdge)
             /\ \A e : e \in ToSet(es) <=> \E u \in Threads : e = [from |-> t, to |-> u] /\ Waiting(n, blocking, t, u)
  <2> DEFINE x(j) == [from |-> t, to |-> held[j].thread]
             piece(j) == IF held[j].resource = b.what THEN <<x(j)>> ELSE <<>>
             pieces == [j \in DOMAIN held |-> piece(j)]
  <2>1. ~w.join /\ w.thread = t /\ w.resource = b.what
    <3> HIDE DEF b
    <3>1. ~WaitOf(t, b).join /\ WaitOf(t, b).thread = t /\ WaitOf(t, b).resource = b.what
      BY <1>4, LockWaitFields
    <3> QED
      BY <1>1, <3>1
  <2>2. es = FlattenSeq(pieces)
    BY <2>1 DEF EdgesOf
  <2>3. pieces \in Seq(Seq(WaitEdge)) /\ Len(pieces) = Len(held) /\ \A j \in 1 .. Len(held) : pieces[j] = piece(j)
    <3>1. ASSUME NEW j \in 1 .. Len(held) PROVE piece(j) \in Seq(WaitEdge)
      <4>1. x(j) \in WaitEdge
        BY <1>2 DEF WaitEdge
      <4> HIDE DEF x, b
      <4> QED
        BY <4>1
    <3> HIDE DEF piece
    <3> QED
      BY <1>2, <3>1
  <2>4. /\ FlattenSeq(pieces) \in Seq(WaitEdge)
        /\ ToSet(FlattenSeq(pieces)) = UNION {ToSet(pieces[j]) : j \in 1 .. Len(pieces)}
    <3> HIDE DEF pieces
    <3> QED
      BY <2>3, FlattenIs
  <2>5. \A j \in 1 .. Len(held) : ToSet(pieces[j]) = IF held[j].resource = b.what THEN {x(j)} ELSE {}
    <3> SUFFICES ASSUME NEW j \in 1 .. Len(held)
                 PROVE  ToSet(pieces[j]) = IF held[j].resource = b.what THEN {x(j)} ELSE {}
      OBVIOUS
    <3>1. ToSet(<<x(j)>>) = {x(j)} /\ ToSet(<<>>) = {}
      BY DEF ToSet
    <3>2. pieces[j] = IF held[j].resource = b.what THEN <<x(j)>> ELSE <<>>
      BY <2>3
    <3> HIDE DEF x, b, pieces
    <3> QED
      BY <3>1, <3>2
  <2>6. \A e : e \in ToSet(es) <=> \E j \in 1 .. Len(held) : held[j].resource = b.what /\ e = x(j)
    <3> DEFINE y == b.what
               N == Len(held)
               all == ToSet(es)
    <3>1. all = UNION {ToSet(pieces[j]) : j \in 1 .. N}
      BY <2>2, <2>3, <2>4
    <3>2. \A j \in 1 .. N : ToSet(pieces[j]) = IF held[j].resource = y THEN {x(j)} ELSE {}
      BY <2>5
    <3> HIDE DEF pieces, x, b, es, y, N, all
    <3>3. ASSUME NEW e PROVE e \in all <=> \E j \in 1 .. N : held[j].resource = y /\ e = x(j)
      <4>1. ASSUME e \in all PROVE \E j \in 1 .. N : held[j].resource = y /\ e = x(j)
        <5>1. PICK j \in 1 .. N : e \in ToSet(pieces[j])
          BY <3>1, <4>1
        <5> QED
          BY <3>2, <5>1
      <4>2. ASSUME NEW j \in 1 .. N, held[j].resource = y, e = x(j) PROVE e \in all
        <5>1. e \in ToSet(pieces[j])
          BY <3>2, <4>2
        <5> QED
          BY <3>1, <5>1
      <4> QED
        BY <4>1, <4>2
    <3> QED
      BY <3>3 DEF y, N, all
  <2>7. ASSUME NEW j \in 1 .. Len(held), held[j].resource = b.what
        PROVE  held[j].thread \in Threads /\ Waiting(n, blocking, t, held[j].thread)
    <3>1. b.what \in Mutexes /\ held[j].thread \in Threads /\ held[j] \in Items
      BY <1>2, <2>7
    <3>2. b.on = "mutex"
      <4>1. b.on = "condition" => b.what \in Conditions
        <5> HIDE DEF b
        <5> QED
          BY <1>1, BlockingIs
      <4> QED
        BY <1>4, <3>1, <4>1, ThreadAssumption
    <3>3. held[j] = Item(held[j].thread, b.what)
      BY <2>7, <3>1, ItemIs
    <3>4. b.what \in ToSet(n[held[j].thread])
      <4> HIDE DEF b
      <4> QED
        BY <3>1, <3>3, HolderIs
    <3> QED
      BY <3>1, <3>2, <3>4 DEF Waiting
  <2>8. ASSUME NEW u \in Threads, Waiting(n, blocking, t, u)
        PROVE  \E j \in 1 .. Len(held) : held[j].resource = b.what /\ held[j].thread = u
    <3>1. b.on = "mutex" /\ b.what \in ToSet(n[u])
      BY <1>4, <2>8 DEF Waiting
    <3>2. b.what \in Mutexes
      <4> HIDE DEF b
      <4> QED
        BY <1>1, <3>1, BlockingIs
    <3> HIDE DEF b
    <3>3. PICK j \in 1 .. Len(held) : held[j] = Item(u, b.what)
      BY <3>1, <3>2, HolderIs
    <3> QED
      BY <3>3 DEF Item
  <2>9. es \in Seq(WaitEdge)
    BY <2>2, <2>4
  <2> HIDE DEF es, b, pieces, piece
  <2>10. ASSUME NEW e
         PROVE  e \in ToSet(es) <=> \E u \in Threads : e = [from |-> t, to |-> u] /\ Waiting(n, blocking, t, u)
    BY <2>6, <2>7, <2>8
  <2> QED
    BY <2>9, <2>10
<1>5. b.on \in {"mutex", "condition", "join"}
  <2>1. b.on # "nothing"
    OBVIOUS
  <2> HIDE DEF b
  <2> QED
    BY <1>1, <2>1, BlockingIs
<1> HIDE DEF b, es
<1>6. /\ es \in Seq(WaitEdge)
      /\ \A e : e \in ToSet(es) <=> \E u \in Threads : e = [from |-> t, to |-> u] /\ Waiting(n, blocking, t, u)
  BY <1>3, <1>4, <1>5
<1> QED
  BY <1>6 DEF es

\* The wait filed at a place is the wait of its thread.
LEMMA FiledWait ==
  ASSUME NEW waits, NEW blocking, WaitsAre(waits, blocking), NEW k \in 1 .. Len(waits),
         NEW w, w = waits[k], NEW t, t = w.thread
  PROVE  /\ t \in Threads /\ blocking[t].on # "nothing" /\ w = WaitOf(t, blocking[t])
         /\ w.join <=> blocking[t].on = "join"
         /\ w.join => w.target = blocking[t].what /\ blocking[t].what \in Threads
<1> DEFINE b == blocking[t]
<1>1. t \in Threads /\ b.on # "nothing" /\ w = WaitOf(t, b)
  BY DEF WaitsAre
<1>2. b \in Blockings
  BY <1>1 DEF WaitsAre
<1> HIDE DEF b
<1>3. ASSUME b.on \in {"mutex", "condition"} PROVE ~w.join
  BY <1>1, <1>3, LockWaitFields
<1>4. ASSUME b.on = "join" PROVE w.join /\ w.target = b.what /\ b.what \in Threads
  <2>1. w = [thread |-> t, resource |-> t, target |-> b.what, join |-> TRUE]
    BY <1>1, <1>4, WaitOfIs
  <2>2. b.what \in Threads
    BY <1>2, <1>4, BlockingIs
  <2> QED
    BY <2>1, <2>2
<1>5. b.on \in {"mutex", "condition", "join"}
  BY <1>1, <1>2, BlockingIs
<1>6. /\ w.join <=> b.on = "join"
      /\ w.join => w.target = b.what /\ b.what \in Threads
  BY <1>3, <1>4, <1>5
<1> QED
  BY <1>1, <1>6 DEF b

\* The edges collected when the records end are who waits for whom.
LEMMA WaitEdgesAre ==
  ASSUME NEW s, NEW n, HeldIs(s.held, n), NEW blocking, WaitsAre(s.waits, blocking)
  PROVE  /\ WaitEdges(s) \in Seq(WaitEdge)
         /\ Pairs(WaitEdges(s)) = WaitGraph(n, blocking)
<1> DEFINE waits == s.waits
           N == Len(waits)
           pieces == [k \in DOMAIN waits |-> EdgesOf(s.held, waits[k])]
           es == FlattenSeq(pieces)
<1>1. WaitEdges(s) = es
  BY DEF WaitEdges, EdgesOf
<1>2. waits \in Seq(WaitItems) /\ N \in Nat /\ DOMAIN waits = 1 .. N
  BY DEF WaitsAre
<1>3. ASSUME NEW k \in 1 .. N
      PROVE  /\ waits[k].thread \in Threads
             /\ EdgesOf(s.held, waits[k]) \in Seq(WaitEdge)
             /\ \A e : e \in ToSet(EdgesOf(s.held, waits[k])) <=>
                  \E u \in Threads : e = [from |-> waits[k].thread, to |-> u]
                                     /\ Waiting(n, blocking, waits[k].thread, u)
  <2> DEFINE w == waits[k]
             t == w.thread
  <2>1. t \in Threads /\ blocking[t].on # "nothing" /\ w = WaitOf(t, blocking[t])
    BY DEF WaitsAre
  <2> HIDE DEF w, t
  <2>2. /\ EdgesOf(s.held, w) \in Seq(WaitEdge)
        /\ \A e : e \in ToSet(EdgesOf(s.held, w)) <=>
             \E u \in Threads : e = [from |-> t, to |-> u] /\ Waiting(n, blocking, t, u)
    BY <2>1, EdgesOfIs
  <2> QED
    BY <2>1, <2>2 DEF w, t
<1>4. pieces \in Seq(Seq(WaitEdge)) /\ Len(pieces) = N /\ \A k \in 1 .. N : pieces[k] = EdgesOf(s.held, waits[k])
  BY <1>2, <1>3
<1>5. es \in Seq(WaitEdge) /\ ToSet(es) = UNION {ToSet(pieces[k]) : k \in 1 .. N}
  <2> HIDE DEF pieces
  <2>1. /\ FlattenSeq(pieces) \in Seq(WaitEdge)
        /\ ToSet(FlattenSeq(pieces)) = UNION {ToSet(pieces[k]) : k \in 1 .. Len(pieces)}
    BY <1>4, FlattenIs
  <2> QED
    BY <1>4, <2>1
<1> HIDE DEF pieces, es
<1>6. ASSUME NEW z \in Pairs(es) PROVE z \in WaitGraph(n, blocking)
  <2>1. PICK e \in ToSet(es) : z = <<e.from, e.to>>
    BY DEF Pairs
  <2>2. PICK k \in 1 .. N : e \in ToSet(pieces[k])
    BY <1>5
  <2>3. PICK u \in Threads : e = [from |-> waits[k].thread, to |-> u] /\ Waiting(n, blocking, waits[k].thread, u)
    BY <1>3, <1>4, <2>2
  <2>4. waits[k].thread \in Threads
    BY <1>3
  <2>5. z = <<waits[k].thread, u>>
    BY <2>1, <2>3
  <2> QED
    BY <2>3, <2>4, <2>5 DEF WaitGraph
<1>7. ASSUME NEW z \in WaitGraph(n, blocking) PROVE z \in Pairs(es)
  <2>1. PICK t \in Threads, u \in Threads : z = <<t, u>> /\ Waiting(n, blocking, t, u)
    BY DEF WaitGraph
  <2>2. blocking[t].on # "nothing"
    BY <2>1 DEF Waiting
  <2>3. PICK k \in 1 .. N : waits[k].thread = t
    BY <2>2 DEF WaitsAre
  <2> DEFINE e == [from |-> t, to |-> u]
  <2>4. e \in ToSet(EdgesOf(s.held, waits[k]))
    BY <1>3, <2>1, <2>3
  <2>5. e.from = t /\ e.to = u
    OBVIOUS
  <2> HIDE DEF e
  <2>6. e \in ToSet(es)
    BY <1>4, <1>5, <2>4
  <2> QED
    BY <2>1, <2>5, <2>6 DEF Pairs
<1> QED
  BY <1>1, <1>5, <1>6, <1>7

\* Those of the joins alone.
LEMMA JoinEdgesAre ==
  ASSUME NEW s, NEW blocking, WaitsAre(s.waits, blocking)
  PROVE  JoinEdges(s) = JoinGraph(blocking)
<1> DEFINE waits == s.waits
           N == Len(waits)
<1>1. ToSet(waits) = {waits[k] : k \in 1 .. N}
  BY DEF WaitsAre, ToSet
<1>2. ASSUME NEW z \in JoinEdges(s) PROVE z \in JoinGraph(blocking)
  <2>1. PICK k \in 1 .. N : waits[k].join /\ z = <<waits[k].thread, waits[k].target>>
    BY <1>1 DEF JoinEdges
  <2> DEFINE w == waits[k]
             t == w.thread
  <2>2. /\ t \in Threads
        /\ w.join <=> blocking[t].on = "join"
        /\ w.join => w.target = blocking[t].what /\ blocking[t].what \in Threads
    BY FiledWait
  <2> QED
    BY <2>1, <2>2 DEF JoinGraph
<1>3. ASSUME NEW z \in JoinGraph(blocking) PROVE z \in JoinEdges(s)
  <2>1. PICK t \in Threads, u \in Threads : z = <<t, u>> /\ blocking[t].on = "join" /\ blocking[t].what = u
    BY DEF JoinGraph
  <2>2. PICK k \in 1 .. N : waits[k].thread = t
    BY <2>1 DEF WaitsAre
  <2> DEFINE w == waits[k]
  <2>3. /\ w.join <=> blocking[t].on = "join"
        /\ w.join => w.target = blocking[t].what
    BY <2>2, FiledWait
  <2>4. w \in ToSet(waits) /\ w.join /\ z = <<w.thread, w.target>>
    BY <1>1, <2>1, <2>2, <2>3
  <2> HIDE DEF w
  <2> QED
    BY <2>4 DEF JoinEdges
<1> QED
  BY <1>2, <1>3

\* What the end of the records adds.
LEMMA AtEndIs ==
  ASSUME NEW s, NEW n, HeldIs(s.held, n), NEW blocking, WaitsAre(s.waits, blocking),
         NEW E, E = WaitGraph(n, blocking), NEW J, J = JoinGraph(blocking)
  PROVE  AtEnd(s) # {} <=> \/ \E e \in J : Reaches(J, e[2], e[1])
                           \/ \E e \in E \ J : Reaches(E, e[2], e[1])
<1> DEFINE edges == WaitEdges(s)
           waits == s.waits
           Back(w) == {k \in DOMAIN edges : edges[k].from = w.thread
                                            /\ Reaches(Pairs(edges), edges[k].to, w.thread)}
           joins == {x \in ToSet(waits) : x.join /\ Reaches(JoinEdges(s), x.target, x.thread)}
           others == {x \in ToSet(waits) : ~x.join /\ Back(x) # {}}
<1>1. AtEnd(s) = {Finding("SYNC-003", w.thread, w.target) : w \in joins}
                 \cup {Finding("SYNC-002", w.thread, edges[Min(Back(w))].to) : w \in others}
  BY DEF AtEnd
<1>2. AtEnd(s) # {} <=> joins # {} \/ others # {}
  <2> HIDE DEF joins, others, edges, Back
  <2> QED
    BY <1>1
<1>3. /\ edges \in Seq(WaitEdge) /\ Pairs(edges) = E /\ JoinEdges(s) = J
      /\ Pairs(edges) = {<<edges[k].from, edges[k].to>> : k \in DOMAIN edges}
  <2>1. edges \in Seq(WaitEdge) /\ Pairs(edges) = E
    BY WaitEdgesAre
  <2>2. JoinEdges(s) = J
    BY JoinEdgesAre
  <2>3. Pairs(edges) = {<<edges[k].from, edges[k].to>> : k \in DOMAIN edges}
    BY DEF Pairs, ToSet
  <2> QED
    BY <2>1, <2>2, <2>3
<1> HIDE DEF edges
<1>4. ToSet(waits) = {waits[k] : k \in 1 .. Len(waits)}
  BY DEF WaitsAre, ToSet
<1>5. joins # {} <=> \E e \in J : Reaches(J, e[2], e[1])
  <2>1. ASSUME NEW x \in joins PROVE \E e \in J : Reaches(J, e[2], e[1])
    <3>1. <<x.thread, x.target>> \in J /\ Reaches(J, x.target, x.thread)
      BY <1>3 DEF JoinEdges
    <3> QED
      BY <3>1
  <2>2. ASSUME NEW e \in J, Reaches(J, e[2], e[1]) PROVE joins # {}
    <3>1. PICK x \in ToSet(waits) : x.join /\ e = <<x.thread, x.target>>
      BY <1>3 DEF JoinEdges
    <3>2. x \in joins
      BY <1>3, <2>2, <3>1
    <3> QED
      BY <3>2
  <2> HIDE DEF joins
  <2> QED
    BY <2>1, <2>2
<1>6. others # {} <=> \E e \in E \ J : Reaches(E, e[2], e[1])
  <2>1. ASSUME NEW x \in others PROVE \E e \in E \ J : Reaches(E, e[2], e[1])
    <3>1. PICK k \in DOMAIN edges : edges[k].from = x.thread /\ Reaches(E, edges[k].to, x.thread)
      BY <1>3
    <3> DEFINE e == <<edges[k].from, edges[k].to>>
    <3>2. e \in E /\ e[1] = x.thread /\ Reaches(E, e[2], e[1])
      BY <1>3, <3>1
    <3>3. blocking[x.thread].on # "join"
      <4>1. PICK i \in 1 .. Len(waits) : x = waits[i]
        BY <1>4
      <4>2. ~x.join
        OBVIOUS
      <4>3. x.join <=> blocking[x.thread].on = "join"
        BY <4>1, FiledWait
      <4> QED
        BY <4>2, <4>3
    <3> HIDE DEF e
    <3>4. e \notin J
      BY <3>2, <3>3 DEF JoinGraph
    <3> QED
      BY <3>2, <3>4
  <2>2. ASSUME NEW e \in E \ J, Reaches(E, e[2], e[1]) PROVE others # {}
    <3>1. e \in Threads \X Threads /\ Waiting(n, blocking, e[1], e[2])
      BY DEF WaitGraph
    <3> DEFINE t == e[1]
    <3>2. blocking[t].on = "mutex"
      BY <3>1 DEF Waiting, JoinGraph
    <3>3. PICK i \in 1 .. Len(waits) : waits[i].thread = t
      BY <3>1, <3>2 DEF WaitsAre
    <3> DEFINE x == waits[i]
    <3>4. x \in ToSet(waits) /\ x.thread = t
      BY <1>4, <3>3
    <3>5. ~x.join
      <4>1. x.join <=> blocking[t].on = "join"
        BY <3>3, FiledWait
      <4> QED
        BY <3>2, <4>1
    <3>6. PICK k \in DOMAIN edges : e = <<edges[k].from, edges[k].to>>
      BY <1>3
    <3>7. edges[k].from = t /\ edges[k].to = e[2]
      BY <3>6
    <3>8. k \in Back(x)
      BY <1>3, <2>2, <3>4, <3>7
    <3> HIDE DEF x, Back
    <3> QED
      BY <3>4, <3>5, <3>8
  <2> HIDE DEF others
  <2> QED
    BY <2>1, <2>2
<1> QED
  BY <1>2, <1>5, <1>6

\* SYNC-002 and SYNC-003: at the end of the records a cycle of waits is reported
\* exactly when there are threads each of which waits for another of them.
THEOREM DeadlockCorrect == Spec => []DeadlockExact
<1>1. ASSUME PolicyTracks PROVE DeadlockExact
  <2> DEFINE E == WaitGraph(nest, blocked)
             J == JoinGraph(blocked)
  <2>1. HeldIs(sync.held, nest) /\ WaitsAre(sync.waits, blocked)
    BY <1>1 DEF PolicyTracks, Tracks
  <2>2. E \in SUBSET (Threads \X Threads) /\ J \in SUBSET E
    BY DEF WaitGraph, JoinGraph, Waiting
  <2>3. IsFiniteSet(E)
    <3> DEFINE edges == WaitEdges(sync)
    <3>1. edges \in Seq(WaitEdge) /\ Pairs(edges) = E
      BY <2>1, WaitEdgesAre
    <3> HIDE DEF edges, E
    <3> QED
      BY <3>1, PairsFinite
  <2>4. AtEnd(sync) # {} <=> \/ \E e \in J : Reaches(J, e[2], e[1])
                             \/ \E e \in E \ J : Reaches(E, e[2], e[1])
    BY <2>1, AtEndIs
  <2>5. Cycle(Threads, WaitsFor) <=> Loop(E, Threads)
    <3>1. ASSUME NEW t \in Threads, NEW u \in Threads PROVE WaitsFor(t, u) <=> <<t, u>> \in E
      BY DEF WaitsFor, WaitGraph, Waiting, Holds
    <3>2. Cycle(Threads, WaitsFor) <=> \E S \in (SUBSET Threads) \ {{}} : \A a \in S : \E b \in S : WaitsFor(a, b)
      BY DEF Cycle
    <3> HIDE DEF E
    <3> QED
      BY <3>1, <3>2 DEF Loop
  <2> HIDE DEF E, J
  <2>6. Loop(E, Threads) <=> \/ \E e \in J : Reaches(J, e[2], e[1])
                             \/ \E e \in E \ J : Reaches(E, e[2], e[1])
    BY <2>2, <2>3, LoopParts
  <2> QED
    BY <2>4, <2>5, <2>6 DEF DeadlockExact
<1> QED
  BY <1>1, PolicyTracksThreads, PTL

-----------------------------------------------------------------------------
(* The places that the edges take.                                         *)

Sized(s) ==
  /\ SyncIs(s)
  /\ \E T : s.held \in Seq(T)
  /\ \E T : s.waits \in Seq(T)
  /\ \E T : s.lock_edges \in Seq(T)
\* No record adds more than one wait, or one lock and an edge from each other.
Grows(s, q, acquires) ==
  /\ Sized(q)
  /\ Len(q.waits) <= Len(s.waits) + 1
  /\ \/ /\ acquires /\ Len(q.held) = Len(s.held) + 1
        /\ Len(q.lock_edges) <= Len(s.lock_edges) + Len(s.held)
     \/ /\ Len(q.held) \in {Len(s.held), Len(s.held) - 1}
        /\ Len(q.lock_edges) = Len(s.lock_edges)

\* The latest place, or none.
LEMMA LatestIn ==
  ASSUME NEW n \in Nat, NEW S \in SUBSET (1 .. n)
  PROVE  Max(S \cup {0}) \in 0 .. n
<1> DEFINE top == Max(S \cup {0})
<1>1. (S = {} => top = 0) /\ (S # {} => top \in S)
  BY LatestMax
<1>2. CASE S = {}
  BY <1>1, <1>2
<1>3. CASE S # {}
  <2>1. top \in 1 .. n
    BY <1>1, <1>3
  <2> HIDE DEF top
  <2> QED
    BY <2>1 DEF top
<1> QED
  BY <1>2, <1>3

\* A record that changes no array.
LEMMA KeepsSizes ==
  ASSUME NEW s, Sized(s), NEW t, NEW f, NEW q, q = Sync(s.held, s.waits, t, s.lock_edges, f)
  PROVE  Grows(s, q, FALSE)
<1>1. /\ SyncIs(q) /\ q.held = s.held /\ q.waits = s.waits /\ q.lock_edges = s.lock_edges
  BY SyncIsSync
<1>2. Len(s.waits) \in Nat
  <2>1. PICK T : s.waits \in Seq(T)
    BY DEF Sized
  <2> QED
    BY <2>1
<1> QED
  BY <1>1, <1>2 DEF Sized, Grows

\* What is left without a place, if it is one.
LEMMA WithoutShort ==
  ASSUME NEW T, NEW s \in Seq(T), NEW k \in 0 .. Len(s)
  PROVE  Without(s, k) \in Seq(T) /\ Len(Without(s, k)) \in {Len(s), Len(s) - 1}
<1>1. CASE k = 0
  BY <1>1 DEF Without
<1>2. CASE k # 0
  <2>1. k \in 1 .. Len(s)
    BY <1>2
  <2> QED
    BY <2>1, WithoutIs
<1> QED
  BY <1>1, <1>2

\* A lock acquired adds itself and an edge from each other at most.
LEMMA AcquireSizes ==
  ASSUME NEW s, Sized(s), NEW r, NEW q, q = LockAcquired(s, r)
  PROVE  Grows(s, q, TRUE)
<1> DEFINE held == s.held
           N == Len(held)
           m == r.resource
           mine == {k \in DOMAIN held : held[k].thread = r.thread /\ held[k].resource # m}
           Before(k) == Pairs(s.lock_edges) \cup {<<held[j].resource, m>> : j \in {i \in mine : i < k}}
           cycles == {k \in mine : Reaches(Before(k), m, held[k].resource)}
           c == {Finding("SYNC-001", held[k].resource, m) : k \in cycles}
           x(k) == [from |-> held[k].resource, to |-> m]
           piece(k) == IF k \in mine THEN <<x(k)>> ELSE <<>>
           pieces == [k \in DOMAIN held |-> piece(k)]
           fs == FlattenSeq(pieces)
           item == [thread |-> r.thread, resource |-> m]
           w == With(s, c)
<1>1. q = [w EXCEPT !.lock_edges = @ \o fs, !.held = Append(@, item)]
  BY DEF LockAcquired
<1>2. PICK T : held \in Seq(T)
  BY DEF Sized
<1>3. N \in Nat /\ DOMAIN held = 1 .. N
  BY <1>2
<1> DEFINE S == {x(k) : k \in 1 .. N}
<1>4. /\ pieces \in Seq(Seq(S)) /\ Len(pieces) = N
      /\ \A k \in 1 .. N : Len(pieces[k]) <= 1
  <2>1. ASSUME NEW k \in 1 .. N PROVE piece(k) \in Seq(S) /\ Len(piece(k)) <= 1
    <3>1. x(k) \in S
      OBVIOUS
    <3> HIDE DEF x, S, mine
    <3> QED
      BY <3>1
  <2> HIDE DEF piece, S
  <2> QED
    BY <1>3, <2>1
<1> HIDE DEF pieces, S, c
<1>5. fs \in Seq(S) /\ Len(fs) \in Nat /\ Len(fs) <= N
  BY <1>4, FlattenIs, FlattenShort
<1>6. PICK U : s.lock_edges \in Seq(U)
  BY DEF Sized
<1> HIDE DEF fs
<1> DEFINE e == s.lock_edges \o fs
           h == Append(held, item)
<1>7. e \in Seq(U \cup S) /\ Len(e) = Len(s.lock_edges) + Len(fs) /\ Len(s.lock_edges) \in Nat
  <2>1. s.lock_edges \in Seq(U \cup S) /\ fs \in Seq(U \cup S)
    BY <1>5, <1>6
  <2> QED
    BY <2>1
<1>8. h \in Seq(T \cup {item}) /\ Len(h) = N + 1
  <2> HIDE DEF item
  <2>1. held \in Seq(T \cup {item})
    BY <1>2
  <2> QED
    BY <2>1
<1>9. w = Sync(s.held, s.waits, s.terminated, s.lock_edges, s.found \cup c)
  BY SyncFields DEF Sized
<1> HIDE DEF w
<1>10. /\ SyncIs(w) /\ w.held = s.held /\ w.waits = s.waits /\ w.terminated = s.terminated
       /\ w.lock_edges = s.lock_edges /\ w.found = s.found \cup c
  BY <1>9, SyncIsSync
<1>11. q = [w EXCEPT !.lock_edges = e, !.held = h]
  BY <1>1, <1>10
<1> HIDE DEF e, h
<1>12. q = Sync(h, w.waits, w.terminated, e, w.found)
  BY <1>10, <1>11, SyncEdges
<1>13. SyncIs(q) /\ q.held = h /\ q.waits = s.waits /\ q.lock_edges = e
  BY <1>10, <1>12, SyncIsSync
<1>14. PICK W : s.waits \in Seq(W)
  BY DEF Sized
<1>15. Len(s.waits) \in Nat
  BY <1>14
<1>16. Sized(q)
  BY <1>7, <1>8, <1>13, <1>14 DEF Sized
<1>17. Len(q.waits) <= Len(s.waits) + 1
  BY <1>13, <1>15
<1>18. Len(q.held) = Len(s.held) + 1
  BY <1>8, <1>13
<1>19. Len(q.lock_edges) <= Len(s.lock_edges) + Len(s.held)
  <2>1. Len(q.lock_edges) = Len(s.lock_edges) + Len(fs) /\ Len(fs) <= N
    BY <1>5, <1>7, <1>13
  <2> HIDE DEF N
  <2>2. Len(s.lock_edges) + Len(fs) <= Len(s.lock_edges) + N
    BY <1>3, <1>5, <1>7, <2>1
  <2> QED
    BY <2>1, <2>2 DEF N
<1> QED
  BY <1>16, <1>17, <1>18, <1>19 DEF Grows

\* A lock released leaves at most one place.
LEMMA ReleaseSizes ==
  ASSUME NEW s, Sized(s), NEW r, NEW q, q = LockReleased(s, r)
  PROVE  Grows(s, q, FALSE)
<1> DEFINE held == s.held
           top == LatestHeld(s, r.thread)
           f == IF top # 0 /\ held[top].resource # r.resource THEN WhileHolding(s, "SYNC-004", r) ELSE {}
           S == {k \in DOMAIN held : held[k].thread = r.thread /\ held[k].resource = r.resource}
           this == Max(S \cup {0})
           w == With(s, f)
           h == Without(held, this)
<1>1. q = [w EXCEPT !.held = Without(@, this)]
  BY DEF LockReleased, Latest
<1>2. PICK T : held \in Seq(T)
  BY DEF Sized
<1>3. Len(held) \in Nat /\ DOMAIN held = 1 .. Len(held)
  BY <1>2
<1>4. this \in 0 .. Len(held)
  <2>1. S \in SUBSET (1 .. Len(held))
    BY <1>3
  <2> HIDE DEF S
  <2> QED
    BY <1>3, <2>1, LatestIn
<1> HIDE DEF this, f
<1>5. h \in Seq(T) /\ Len(h) \in {Len(held), Len(held) - 1}
  BY <1>2, <1>4, WithoutShort
<1>6. w = Sync(s.held, s.waits, s.terminated, s.lock_edges, s.found \cup f)
  BY SyncFields DEF Sized
<1> HIDE DEF w
<1>7. /\ SyncIs(w) /\ w.held = s.held /\ w.waits = s.waits /\ w.terminated = s.terminated
      /\ w.lock_edges = s.lock_edges /\ w.found = s.found \cup f
  BY <1>6, SyncIsSync
<1>8. q = [w EXCEPT !.held = h]
  BY <1>1, <1>7
<1> HIDE DEF h
<1>9. q = Sync(h, w.waits, w.terminated, w.lock_edges, w.found)
  BY <1>7, <1>8, SyncFields
<1>10. SyncIs(q) /\ q.held = h /\ q.waits = s.waits /\ q.lock_edges = s.lock_edges
  BY <1>7, <1>9, SyncIsSync
<1>11. PICK W : s.waits \in Seq(W)
  BY DEF Sized
<1>12. Len(s.waits) \in Nat
  BY <1>11
<1>13. Sized(q)
  BY <1>5, <1>10, <1>11 DEF Sized
<1> QED
  BY <1>5, <1>10, <1>12, <1>13 DEF Grows

\* A wait begun adds itself.
LEMMA WaitSizes ==
  ASSUME NEW s, Sized(s), NEW r, NEW q, q = WaitBegun(s, r)
  PROVE  Grows(s, q, FALSE)
<1>1. PICK f, wait : q = [With(s, f) EXCEPT !.waits = Append(@, wait)]
  BY DEF WaitBegun
<1>2. PICK T : s.waits \in Seq(T)
  BY DEF Sized
<1> DEFINE w == Append(s.waits, wait)
<1>3. w \in Seq(T \cup {wait}) /\ Len(w) = Len(s.waits) + 1 /\ Len(s.waits) \in Nat
  <2>1. s.waits \in Seq(T \cup {wait})
    BY <1>2
  <2> QED
    BY <2>1
<1>4. q = Sync(s.held, w, s.terminated, s.lock_edges, s.found \cup f)
  BY <1>1, WaitsAdd DEF Sized
<1> HIDE DEF w
<1>5. SyncIs(q) /\ q.held = s.held /\ q.waits = w /\ q.lock_edges = s.lock_edges
  BY <1>4, SyncIsSync
<1>6. Sized(q)
  BY <1>3, <1>5 DEF Sized
<1> QED
  BY <1>3, <1>5, <1>6 DEF Grows

\* A wait ended adds nothing.
LEMMA WaitEndSizes ==
  ASSUME NEW s, Sized(s), NEW r, NEW q, q = WaitEnded(s, r)
  PROVE  Grows(s, q, FALSE)
<1> DEFINE waits == s.waits
           waiter == IF r.class = "join-wait" THEN r.resource ELSE r.thread
           S == {k \in DOMAIN waits : waits[k].thread = waiter /\ waits[k].resource = r.resource}
           this == Max(S \cup {0})
           w == Without(waits, this)
<1>1. q = [s EXCEPT !.waits = w]
  BY DEF WaitEnded, Latest
<1>2. PICK T : waits \in Seq(T)
  BY DEF Sized
<1>3. Len(waits) \in Nat /\ DOMAIN waits = 1 .. Len(waits)
  BY <1>2
<1>4. this \in 0 .. Len(waits)
  <2>1. S \in SUBSET (1 .. Len(waits))
    BY <1>3
  <2> HIDE DEF S
  <2> QED
    BY <1>3, <2>1, LatestIn
<1> HIDE DEF this
<1>5. w \in Seq(T) /\ Len(w) \in {Len(waits), Len(waits) - 1}
  BY <1>2, <1>4, WithoutShort
<1> HIDE DEF w
<1>6. q = Sync(s.held, w, s.terminated, s.lock_edges, s.found)
  BY <1>1, SyncFields DEF Sized
<1>7. SyncIs(q) /\ q.held = s.held /\ q.waits = w /\ q.lock_edges = s.lock_edges
  BY <1>6, SyncIsSync
<1>8. Sized(q)
  BY <1>5, <1>7 DEF Sized
<1>9. Len(q.waits) <= Len(s.waits) + 1
  BY <1>3, <1>5, <1>7
<1> QED
  BY <1>7, <1>8, <1>9 DEF Grows

\* Whatever a record does.
LEMMA StepSizes ==
  ASSUME NEW s, Sized(s), NEW r, NEW q, q = SyncStep(s, r)
  PROVE  Grows(s, q, r.op = "ACQUIRE")
<1>1. \/ q = s \/ (\E f : q = With(s, f))
      \/ (\E t : q = [s EXCEPT !.terminated = t])
      \/ (q = LockAcquired(s, r) /\ r.op = "ACQUIRE")
      \/ q = LockReleased(s, r) \/ q = WaitBegun(s, r) \/ q = WaitEnded(s, r)
  <2> DEFINE users == {Finding("SYNC-007", r.resource, x.thread) :
                         x \in {h \in ToSet(s.held) : h.resource = r.resource}
                               \cup {w \in ToSet(s.waits) : r.resource \in {w.resource, w.target}}}
             again == {Finding("SYNC-008", r.resource, e.thread) :
                         e \in {x \in s.terminated : x.resource = r.resource}}
             holding == WhileHolding(s, "SYNC-010", r)
             entries == s.terminated \cup {[resource |-> r.resource, thread |-> r.thread]}
             ended == [s EXCEPT !.terminated = entries]
  <2>1. MutexDestroyed(s, r) = With(s, users)
    BY DEF MutexDestroyed
  <2>2. [s EXCEPT !.terminated = @ \cup {[resource |-> r.resource, thread |-> r.thread]}] = ended
    OBVIOUS
  <2>3. SyncStep(s, r) \in {s, MutexDestroyed(s, r), With(s, again), ended, With(s, holding),
                           LockReleased(s, r), WaitBegun(s, r), WaitEnded(s, r)}
        \/ (SyncStep(s, r) = LockAcquired(s, r) /\ r.op = "ACQUIRE")
    <3> HIDE DEF holding, again, ended
    <3> QED
      BY <2>2 DEF SyncStep, holding, again
  <2>4. q = With(s, users) => \E f : q = With(s, f)
    <3> HIDE DEF users
    <3> QED
      OBVIOUS
  <2>5. q = With(s, again) => \E f : q = With(s, f)
    <3> HIDE DEF again
    <3> QED
      OBVIOUS
  <2>6. q = With(s, holding) => \E f : q = With(s, f)
    <3> HIDE DEF holding
    <3> QED
      OBVIOUS
  <2>7. q = ended => \E t : q = [s EXCEPT !.terminated = t]
    <3> HIDE DEF entries
    <3> QED
      OBVIOUS
  <2> HIDE DEF users, again, holding, ended
  <2> QED
    BY <2>1, <2>3, <2>4, <2>5, <2>6, <2>7
<1>2. SyncIs(s)
  BY DEF Sized
<1>3. CASE q = s
  <2>1. q = Sync(s.held, s.waits, s.terminated, s.lock_edges, s.found)
    BY <1>2, <1>3 DEF SyncIs
  <2>2. Grows(s, q, FALSE)
    BY <2>1, KeepsSizes
  <2> QED
    BY <2>2 DEF Grows
<1>4. ASSUME NEW f, q = With(s, f) PROVE Grows(s, q, r.op = "ACQUIRE")
  <2>1. q = Sync(s.held, s.waits, s.terminated, s.lock_edges, s.found \cup f)
    BY <1>2, <1>4, SyncFields
  <2>2. Grows(s, q, FALSE)
    BY <2>1, KeepsSizes
  <2> QED
    BY <2>2 DEF Grows
<1>5. ASSUME NEW t, q = [s EXCEPT !.terminated = t] PROVE Grows(s, q, r.op = "ACQUIRE")
  <2>1. q = Sync(s.held, s.waits, t, s.lock_edges, s.found)
    BY <1>2, <1>5, SyncFields
  <2>2. Grows(s, q, FALSE)
    BY <2>1, KeepsSizes
  <2> QED
    BY <2>2 DEF Grows
<1>6. CASE q = LockAcquired(s, r) /\ r.op = "ACQUIRE"
  <2>1. Grows(s, q, TRUE)
    BY <1>6, AcquireSizes
  <2> QED
    BY <1>6, <2>1 DEF Grows
<1>7. CASE q = LockReleased(s, r) \/ q = WaitBegun(s, r) \/ q = WaitEnded(s, r)
  <2>1. Grows(s, q, FALSE)
    BY <1>7, ReleaseSizes, WaitSizes, WaitEndSizes
  <2> QED
    BY <2>1 DEF Grows
<1> QED
  BY <1>1, <1>3, <1>4, <1>5, <1>6, <1>7

-----------------------------------------------------------------------------
(* With three mutexes the arrays suffice.                                  *)

\* How many places of lock_edges are left over for the locks held.  The third
\* lock takes two edges, one of which the first, which took none, has saved.
Saved(h) == IF h \in {1, 2} THEN 1 ELSE 0
Fit(s, n) ==
  /\ Sized(s) /\ n \in Nat
  /\ Len(s.waits) <= n /\ Len(s.lock_edges) + Saved(Len(s.held)) <= n

\* What one record adds, fits.
LEMMA GrowsFit ==
  ASSUME NEW s, NEW n, Fit(s, n), NEW q, NEW acquires \in BOOLEAN, Grows(s, q, acquires),
         acquires => Len(q.held) <= 3
  PROVE  Fit(q, n + 1)
<1>1. PICK T, U, V, W : s.held \in Seq(T) /\ s.waits \in Seq(U) /\ s.lock_edges \in Seq(V) /\ q.held \in Seq(W)
  BY DEF Fit, Grows, Sized
<1>2. PICK X, Y : q.waits \in Seq(X) /\ q.lock_edges \in Seq(Y)
  BY DEF Grows, Sized
<1> DEFINE h == Len(s.held)
           h2 == Len(q.held)
           e == Len(s.lock_edges)
           e2 == Len(q.lock_edges)
           w == Len(s.waits)
           w2 == Len(q.waits)
<1>3. h \in Nat /\ h2 \in Nat /\ e \in Nat /\ e2 \in Nat /\ w \in Nat /\ w2 \in Nat
  BY <1>1, <1>2
<1>4. /\ n \in Nat /\ w <= n /\ e + Saved(h) <= n /\ w2 <= w + 1
      /\ (h2 = h + 1 /\ h2 <= 3 /\ e2 <= e + h) \/ (h2 \in {h, h - 1} /\ e2 = e)
  BY DEF Fit, Grows
<1>5. Sized(q)
  BY DEF Grows
<1> HIDE DEF h, h2, e, e2, w, w2
<1>6. w2 <= n + 1
  BY <1>3, <1>4
<1>7. e2 + Saved(h2) <= n + 1
  <2>1. CASE h2 = h + 1 /\ h2 <= 3 /\ e2 <= e + h
    <3>1. h \in {0, 1, 2}
      BY <1>3, <2>1
    <3> QED
      BY <1>3, <1>4, <2>1, <3>1 DEF Saved
  <2>2. CASE h2 \in {h, h - 1} /\ e2 = e
    BY <1>3, <1>4, <2>2 DEF Saved
  <2> QED
    BY <1>4, <2>1, <2>2
<1> QED
  BY <1>4, <1>5, <1>6, <1>7 DEF Fit, h2, e2, w2

\* Three mutexes, three locks held at most.
LEMMA HeldFew ==
  ASSUME IsFiniteSet(Mutexes), Cardinality(Mutexes) <= 3, NEW held, NEW n, HeldIs(held, n)
  PROVE  Len(held) <= 3
<1> DEFINE N == Len(held)
           f == [i \in 1 .. N |-> held[i].resource]
<1>1. held \in Seq(Items) /\ N \in Nat /\ \A i \in 1 .. N : held[i] \in Items
  BY DEF HeldIs
<1>2. \A i, j \in 1 .. N : held[i].resource = held[j].resource => i = j
  BY DEF HeldIs
<1>3. f \in Injection(1 .. N, Mutexes)
  BY <1>1, <1>2 DEF Injection, IsInjective, Items
<1> HIDE DEF f
<1>4. Cardinality(1 .. N) <= Cardinality(Mutexes)
  BY <1>3, FS_Injection
<1>5. Cardinality(1 .. N) = N
  <2> HIDE DEF N
  <2>1. Cardinality(1 .. N) = IF 1 > N THEN 0 ELSE N - 1 + 1
    BY <1>1, FS_Interval
  <2> QED
    BY <1>1, <2>1
<1>6. Cardinality(Mutexes) \in Nat
  BY FS_CardinalityType
<1> HIDE DEF N
<1> QED
  BY <1>1, <1>4, <1>5, <1>6 DEF N

\* What the policy keeps are sequences.
LEMMA TracksSized ==
  ASSUME NEW s, NEW n, NEW b, NEW c, NEW u, NEW p, NEW x, Tracks(s, n, b, c, u, p, x)
  PROVE  Sized(s)
<1>1. SyncIs(s) /\ s.held \in Seq(Items) /\ s.waits \in Seq(WaitItems) /\ s.lock_edges \in Seq(Edges)
  BY DEF Tracks, HeldIs, WaitsAre, Ordered
<1> QED
  BY <1>1 DEF Sized

\* The records of one call.
LEMMA PublishFit ==
  ASSUME IsFiniteSet(Mutexes), Cardinality(Mutexes) <= 3,
         PolicyTracks', Fit(sync, published), NEW r, NEW q, r.op # "ACQUIRE" \/ Publish(<<r>>),
         Publish(<<r>>) \/ Publish(<<r, q>>)
  PROVE  Fit(sync, published)'
<1>1. Len(sync'.held) <= 3
  <2> DEFINE s == sync'
             n == nest'
  <2>1. HeldIs(s.held, n)
    BY DEF PolicyTracks, Tracks
  <2> HIDE DEF s, n
  <2>2. Len(s.held) <= 3
    BY <2>1, HeldFew
  <2> QED
    BY <2>2 DEF s
<1>2. CASE Publish(<<r>>)
  <2> DEFINE s == SyncStep(sync, r)
             acquires == r.op = "ACQUIRE"
  <2>1. sync' = s /\ published' = published + 1
    BY <1>2, PublishIs DEF Publish
  <2>2. Grows(sync, s, acquires)
    BY StepSizes DEF Fit
  <2>3. Len(s.held) <= 3 /\ acquires \in BOOLEAN
    BY <1>1, <2>1
  <2> HIDE DEF s, acquires
  <2>4. Fit(s, published + 1)
    BY <2>2, <2>3, GrowsFit
  <2> QED
    BY <2>1, <2>4
<1>3. CASE r.op # "ACQUIRE" /\ Publish(<<r, q>>)
  <2> DEFINE s == SyncStep(sync, r)
             t == SyncStep(s, q)
             acquires == q.op = "ACQUIRE"
             n == published + 1
  <2>1. sync' = t /\ published' = published + 2 /\ published \in Nat
    BY <1>3, PublishIs DEF Publish, Fit
  <2>2. Grows(sync, s, FALSE)
    <3>1. Grows(sync, s, r.op = "ACQUIRE")
      BY StepSizes DEF Fit
    <3> HIDE DEF s
    <3> QED
      BY <1>3, <3>1 DEF Grows
  <2>3. Len(t.held) <= 3 /\ acquires \in BOOLEAN
    BY <1>1, <2>1
  <2> HIDE DEF s, n
  <2>4. Fit(s, n)
    BY <2>2, GrowsFit DEF n
  <2>5. Grows(s, t, acquires)
    BY <2>4, StepSizes DEF Fit
  <2> HIDE DEF t, acquires
  <2>6. Fit(t, n + 1)
    BY <2>3, <2>4, <2>5, GrowsFit
  <2>7. n + 1 = published + 2
    BY <2>1 DEF n
  <2> QED
    BY <2>1, <2>6, <2>7
<1> QED
  BY <1>2, <1>3

\* Every call of a thread publishes one record, or two of which the first
\* acquires nothing.
LEMMA StepFits ==
  ASSUME IsFiniteSet(Mutexes), Cardinality(Mutexes) <= 3,
         PolicyTracks', Fit(sync, published), [Next]_vars
  PROVE  Fit(sync, published)'
<1>1. CASE UNCHANGED vars
  BY <1>1 DEF vars, Fit
<1>2. ASSUME NEW t \in Threads, NEW m \in Mutexes, Lock(t, m) \/ TryLock(t, m) \/ Unlock(t, m) \/ Destroy(t, m)
      PROVE  Fit(sync, published)'
  <2>1. \E r : Publish(<<r>>)
    BY <1>2 DEF Lock, TryLock, Unlock, Destroy
  <2> QED
    BY <2>1, PublishFit
<1>3. ASSUME NEW t \in Threads, NEW m \in Mutexes, NEW c \in Conditions, Wait(t, c, m)
      PROVE  Fit(sync, published)'
  <2>1. \E r, q : Publish(<<r, q>>) /\ r.op # "ACQUIRE"
    <3> DEFINE r == Record("held", "RELEASE", t, m, "")
               q == Record("condition-wait", "ACQUIRE", t, c, m)
    <3>1. Publish(<<r, q>>)
      BY <1>3 DEF Wait
    <3>2. r.op # "ACQUIRE"
      BY DEF Record
    <3> HIDE DEF r, q
    <3> QED
      BY <3>1, <3>2
  <2> QED
    BY <2>1, PublishFit
<1>4. ASSUME NEW t \in Threads, NEW u \in Threads, Join(t, u) \/ Detach(t, u) PROVE Fit(sync, published)'
  <2>1. \E r, q : Publish(<<r, q>>) /\ r.op # "ACQUIRE"
    <3> DEFINE r == Attempt(t, u)
               q == Record("join-wait", "ACQUIRE", t, t, u)
               z == Consumed(t, u)
    <3>1. Publish(<<r, q>>) \/ Publish(<<r, z>>)
      BY <1>4 DEF Join, Detach
    <3>2. r.op # "ACQUIRE"
      BY DEF Record, Attempt
    <3> HIDE DEF r, q, z
    <3> QED
      BY <3>1, <3>2
  <2> QED
    BY <2>1, PublishFit
<1>5. ASSUME NEW t \in Threads, NEW u \in Threads, ConsumeAgain(t, u) \/ Create(t, u) \/ Block(t)
      PROVE  Fit(sync, published)'
  <2>1. \E r : Publish(<<r>>)
    BY <1>5 DEF ConsumeAgain, Create, Block
  <2> QED
    BY <2>1, PublishFit
<1>6. ASSUME NEW t \in Threads, Locked(t) PROVE Fit(sync, published)'
  <2>1. \E r, q : Publish(<<r, q>>) /\ r.op # "ACQUIRE"
    <3> DEFINE b == blocked[t]
               m == b.mutex
               r == Record(IF b.on = "mutex" THEN "lock-wait" ELSE "condition-wait", "RELEASE",
                           t, b.what, IF b.on = "mutex" THEN "" ELSE m)
               q == Record("held", "ACQUIRE", t, m, "")
    <3>1. Publish(<<r, q>>)
      BY <1>6 DEF Locked
    <3>2. r.op # "ACQUIRE"
      BY DEF Record
    <3> HIDE DEF r, q
    <3> QED
      BY <3>1, <3>2
  <2> QED
    BY <2>1, PublishFit
<1>7. ASSUME NEW t \in Threads, Joined(t) PROVE Fit(sync, published)'
  <2> DEFINE u == blocked[t].what
             r == Record("join-wait", "RELEASE", t, t, u)
             q == Consumed(t, u)
  <2>1. Publish(<<r>> \o (IF consumer[u] = None THEN <<q>> ELSE <<>>))
    BY <1>7 DEF Joined
  <2>2. r.op # "ACQUIRE"
    BY DEF Record
  <2> HIDE DEF r, q, u
  <2>3. <<r>> \o <<q>> = <<r, q>> /\ <<r>> \o <<>> = <<r>>
    <3> DEFINE S == {r, q}
               y == <<r>> \o <<q>>
               z == <<r, q>>
    <3>1. <<r>> \in Seq(S) /\ <<q>> \in Seq(S) /\ <<>> \in Seq(S)
      OBVIOUS
    <3>2. y \in Seq(S) /\ Len(y) = 2 /\ y[1] = r /\ y[2] = q
      BY <3>1, ConcatProperties
    <3>3. z \in Seq(S) /\ Len(z) = 2 /\ z[1] = r /\ z[2] = q
      OBVIOUS
    <3> HIDE DEF y, z, S
    <3>4. \A i \in 1 .. Len(y) : y[i] = z[i]
      BY <3>2, <3>3
    <3>5. y = z
      BY <3>2, <3>3, <3>4, SeqEqual
    <3>6. <<r>> \o <<>> = <<r>>
      BY <3>1, ConcatEmptySeq DEF S
    <3> QED
      BY <3>5, <3>6 DEF y, z
  <2>4. Publish(<<r, q>>) \/ Publish(<<r>>)
    BY <2>1, <2>3
  <2> QED
    BY <2>2, <2>4, PublishFit
<1>8. ASSUME NEW t \in Threads, Exit(t) PROVE Fit(sync, published)'
  BY <1>8 DEF Exit, Fit
<1> QED
  BY <1>1, <1>2, <1>3, <1>4, <1>5, <1>6, <1>7, <1>8 DEF Next

\* A wait has one edge at most: whoever has the mutex has it alone.
LEMMA EdgesOfShort ==
  ASSUME NEW held, NEW n, HeldIs(held, n), NEW waits, NEW blocking, WaitsAre(waits, blocking),
         NEW w, NEW t \in Threads, blocking[t].on # "nothing", w = WaitOf(t, blocking[t])
  PROVE  Len(EdgesOf(held, w)) <= 1
<1> DEFINE x(j) == [from |-> w.thread, to |-> held[j].thread]
           piece(j) == IF held[j].resource = w.resource THEN <<x(j)>> ELSE <<>>
           pieces == [j \in DOMAIN held |-> piece(j)]
           N == Len(held)
           es == EdgesOf(held, w)
<1>1. CASE w.join
  BY <1>1 DEF EdgesOf
<1>2. CASE ~w.join
  <2>1. es = FlattenSeq(pieces)
    BY <1>2 DEF EdgesOf
  <2>2. held \in Seq(Items) /\ N \in Nat /\ DOMAIN held = 1 .. N
    BY DEF HeldIs
  <2> DEFINE S == {x(j) : j \in 1 .. N}
  <2>3. /\ pieces \in Seq(Seq(S)) /\ Len(pieces) = N
        /\ \A j \in 1 .. N : pieces[j] = piece(j)
    <3>1. ASSUME NEW j \in 1 .. N PROVE piece(j) \in Seq(S)
      <4>1. x(j) \in S
        OBVIOUS
      <4> HIDE DEF x, S
      <4> QED
        BY <4>1
    <3> HIDE DEF piece, S
    <3> QED
      BY <2>2, <3>1
  <2> HIDE DEF pieces, S
  <2>4. \A j \in 1 .. N : Once(pieces[j]) /\ ToSet(pieces[j]) = IF held[j].resource = w.resource THEN {x(j)} ELSE {}
    <3> SUFFICES ASSUME NEW j \in 1 .. N
                 PROVE  Once(pieces[j]) /\ ToSet(pieces[j]) = IF held[j].resource = w.resource THEN {x(j)} ELSE {}
      OBVIOUS
    <3>1. ToSet(<<x(j)>>) = {x(j)} /\ ToSet(<<>>) = {} /\ Once(<<x(j)>>) /\ Once(<<>>)
      BY DEF ToSet, Once
    <3> HIDE DEF x
    <3> QED
      BY <2>3, <3>1
  <2>5. \A i, j \in 1 .. N : held[i].resource = w.resource /\ held[j].resource = w.resource => i = j
    BY DEF HeldIs
  <2> HIDE DEF x, N, piece
  <2>6. \A i, j \in 1 .. N : i # j => ToSet(pieces[i]) \cap ToSet(pieces[j]) = {}
    BY <2>4, <2>5
  <2>7. /\ FlattenSeq(pieces) \in Seq(S)
        /\ ToSet(FlattenSeq(pieces)) = UNION {ToSet(pieces[i]) : i \in 1 .. N}
        /\ Once(FlattenSeq(pieces))
    BY <2>3, <2>4, <2>6, FlattenIs
  <2>8. \A i, j \in 1 .. N : \A y \in ToSet(pieces[i]), z \in ToSet(pieces[j]) : y = z
    BY <2>4, <2>5
  <2> HIDE DEF es
  <2>9. es \in Seq(S) /\ Once(es) /\ \A y, z \in ToSet(es) : y = z
    BY <2>1, <2>7, <2>8
  <2>10. Len(es) \in Nat /\ \A i \in 1 .. Len(es) : es[i] \in ToSet(es)
    BY <2>9 DEF ToSet
  <2>11. ASSUME Len(es) > 1 PROVE FALSE
    <3>1. 1 \in 1 .. Len(es) /\ 2 \in 1 .. Len(es)
      BY <2>10, <2>11
    <3>2. es[1] = es[2]
      BY <2>9, <2>10, <3>1
    <3>3. 1 = 2
      BY <2>9, <3>1, <3>2 DEF Once
    <3> QED
      BY <3>3
  <2> QED
    BY <2>10, <2>11 DEF es
<1> QED
  BY <1>1, <1>2

\* So there are no more edges than waits.
LEMMA WaitEdgesShort ==
  ASSUME NEW s, NEW n, HeldIs(s.held, n), NEW blocking, WaitsAre(s.waits, blocking)
  PROVE  Len(WaitEdges(s)) \in Nat /\ Len(WaitEdges(s)) <= Len(s.waits)
<1> DEFINE waits == s.waits
           N == Len(waits)
           pieces == [k \in DOMAIN waits |-> EdgesOf(s.held, waits[k])]
<1>1. WaitEdges(s) = FlattenSeq(pieces)
  BY DEF WaitEdges, EdgesOf
<1>2. waits \in Seq(WaitItems) /\ N \in Nat /\ DOMAIN waits = 1 .. N
  BY DEF WaitsAre
<1>3. ASSUME NEW k \in 1 .. N
      PROVE  EdgesOf(s.held, waits[k]) \in Seq(WaitEdge) /\ Len(EdgesOf(s.held, waits[k])) <= 1
  <2> DEFINE w == waits[k]
             t == w.thread
  <2>1. t \in Threads /\ blocking[t].on # "nothing" /\ w = WaitOf(t, blocking[t])
    BY DEF WaitsAre
  <2> HIDE DEF w, t
  <2>2. EdgesOf(s.held, w) \in Seq(WaitEdge)
    BY <2>1, EdgesOfIs
  <2>3. Len(EdgesOf(s.held, w)) <= 1
    BY <2>1, EdgesOfShort
  <2> QED
    BY <2>2, <2>3 DEF w
<1>4. pieces \in Seq(Seq(WaitEdge)) /\ Len(pieces) = N /\ \A k \in 1 .. N : Len(pieces[k]) <= 1
  BY <1>2, <1>3
<1> HIDE DEF pieces
<1> QED
  BY <1>1, <1>4, FlattenShort

\* The arrays lock_edges, with a place for each record, and wait_edges, with two,
\* have room for the edges of threads that share three mutexes at most (of four,
\* one thread can nest all with four records and needs six places: trylock).
THEOREM ThreeLocksFit ==
  ASSUME IsFiniteSet(Mutexes), Cardinality(Mutexes) <= 3
  PROVE  Spec => []ArraysFit
<1> DEFINE I == PolicyTracks /\ Fit(sync, published)
<1>1. Init => I
  <2> SUFFICES ASSUME Init PROVE I
    OBVIOUS
  <2>1. PolicyTracks
    BY InitTracks
  <2>2. Sized(sync)
    BY <2>1, TracksSized DEF PolicyTracks
  <2>3. published = 0 /\ Len(sync.waits) = 0 /\ Len(sync.lock_edges) = 0 /\ Len(sync.held) = 0
    BY DEF Init, Unanalyzed
  <2> QED
    BY <2>1, <2>2, <2>3 DEF Fit, Saved
<1>2. I /\ [Next]_vars => I'
  <2> SUFFICES ASSUME I, [Next]_vars PROVE I'
    OBVIOUS
  <2>1. PolicyTracks'
    BY StepTracks
  <2> QED
    BY <2>1, StepFits
<1>3. I => ArraysFit
  <2> SUFFICES ASSUME I PROVE ArraysFit
    OBVIOUS
  <2>1. Len(WaitEdges(sync)) \in Nat /\ Len(WaitEdges(sync)) <= Len(sync.waits)
    <3> DEFINE s == sync
               n == nest
               b == blocked
    <3>1. HeldIs(s.held, n) /\ WaitsAre(s.waits, b)
      BY DEF PolicyTracks, Tracks
    <3> HIDE DEF s, n, b
    <3>2. Len(WaitEdges(s)) \in Nat /\ Len(WaitEdges(s)) <= Len(s.waits)
      BY <3>1, WaitEdgesShort
    <3> QED
      BY <3>2 DEF s
  <2>2. PICK T, U : sync.waits \in Seq(T) /\ sync.lock_edges \in Seq(U)
    BY DEF Fit, Sized
  <2> DEFINE e == Len(sync.lock_edges)
             w == Len(sync.waits)
             d == Len(WaitEdges(sync))
  <2>3. /\ e \in Nat /\ w \in Nat /\ d \in Nat /\ d <= w
        /\ published \in Nat /\ w <= published /\ e + Saved(Len(sync.held)) <= published
    BY <2>1, <2>2 DEF Fit
  <2>4. Saved(Len(sync.held)) \in {0, 1}
    BY DEF Saved
  <2> HIDE DEF e, w, d
  <2>5. e <= published /\ d <= 2 * published
    BY <2>3, <2>4
  <2> QED
    BY <2>5 DEF ArraysFit, e, d
<1> QED
  BY <1>1, <1>2, <1>3, PTL DEF Spec
==============================================================================
