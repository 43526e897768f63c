----------------------------- MODULE DataLemmas -----------------------------
(***************************************************************************)
(* Lemmas about natural numbers and sequences that the proofs of several   *)
(* components need: least and greatest elements, which stand for induction *)
(* (a least counterexample has none before it), and the flattening of a    *)
(* sequence of sequences.                                                  *)
(***************************************************************************)
EXTENDS Integers, Sequences, SequencesExt, SequenceTheorems, WellFoundedInduction, TLAPS

\* Every set of naturals has a least element.
LEMMA LeastNatural ==
  ASSUME NEW T \in SUBSET Nat, T # {}
  PROVE  \E x \in T : \A y \in T : x <= y
<1>1. PICK x \in T : \A y \in T : <<y, x>> \notin OpToRel(<, Nat)
  BY NatLessThanWellFounded, WFMin
<1>2. \A y \in T : ~(y < x)
  BY <1>1 DEF OpToRel
<1> QED
  BY <1>2

\* A set of naturals with a bound has a greatest element.
LEMMA GreatestNatural ==
  ASSUME NEW T \in SUBSET Nat, T # {}, NEW n \in Nat, \A x \in T : x <= n
  PROVE  \E x \in T : \A y \in T : y <= x
<1> DEFINE below == {n - x : x \in T}
<1>1. below \in SUBSET Nat /\ below # {}
  <2>1. \A x \in T : n - x \in Nat
    OBVIOUS
  <2>2. PICK x \in T : TRUE
    OBVIOUS
  <2>3. n - x \in below
    BY <2>2
  <2> QED
    BY <2>1, <2>3
<1>2. PICK d \in below : \A e \in below : d <= e
  <2> HIDE DEF below
  <2> QED
    BY <1>1, LeastNatural
<1>3. PICK x \in T : d = n - x
  BY <1>2
<1>4. \A y \in T : n - x <= n - y
  BY <1>2, <1>3
<1>5. \A y \in T : y <= x
  BY <1>4
<1> QED
  BY <1>5

\* What Max and Min choose.
LEMMA MaxIs ==
  ASSUME NEW T \in SUBSET Nat, T # {}, NEW n \in Nat, \A x \in T : x <= n
  PROVE  Max(T) \in T /\ \A y \in T : y <= Max(T)
<1>1. PICK x \in T : \A y \in T : y <= x
  BY GreatestNatural
<1>2. x \in T /\ \A y \in T : x >= y
  BY <1>1
<1>3. Max(T) \in T /\ \A y \in T : Max(T) >= y
  BY <1>2 DEF Max
<1> QED
  BY <1>3
LEMMA MinIs ==
  ASSUME NEW T \in SUBSET Nat, T # {}
  PROVE  Min(T) \in T /\ \A y \in T : Min(T) <= y
<1>1. \E x \in T : \A y \in T : x <= y
  BY LeastNatural
<1> QED
  BY <1>1 DEF Min

\* What holds of 0, and of every number up to n when it holds of the one
\* before, holds of all of them.
LEMMA UpTo ==
  ASSUME NEW n \in Nat, NEW H, 0 \in H, \A i \in 1 .. n : i - 1 \in H => i \in H
  PROVE  \A i \in 0 .. n : i \in H
<1> DEFINE bad == {i \in 0 .. n : i \notin H}
<1> SUFFICES ASSUME bad # {} PROVE FALSE
  OBVIOUS
<1>1. bad \in SUBSET Nat
  OBVIOUS
<1>2. PICK k \in bad : \A y \in bad : k <= y
  <2> HIDE DEF bad
  <2> QED
    BY <1>1, LeastNatural
<1>3. k # 0
  BY <1>2
<1>4. k \in 1 .. n /\ k - 1 \in 0 .. n /\ ~(k <= k - 1)
  BY <1>2, <1>3
<1>5. k - 1 \in H
  BY <1>2, <1>4
<1> QED
  BY <1>2, <1>4, <1>5

\* A step that stays in a set can be taken as often as wanted.
Takes(g, n, S, base, step) ==
  /\ g \in [0 .. n -> S] /\ g[0] = base
  /\ \A i \in 1 .. n : g[i] = step[<<i, g[i - 1]>>]
LEMMA Iterated ==
  ASSUME NEW n \in Nat, NEW S, NEW base \in S, NEW step \in [(1 .. n) \X S -> S]
  PROVE  \E g : Takes(g, n, S, base, step)
<1> DEFINE Solves(g, k) == /\ g \in [0 .. k -> S] /\ g[0] = base
                           /\ \A i \in 1 .. k : g[i] = step[<<i, g[i - 1]>>]
           H == {k \in 0 .. n : \E g : Solves(g, k)}
<1>1. 0 \in H
  <2> DEFINE g == [i \in 0 .. 0 |-> base]
  <2>1. Solves(g, 0)
    OBVIOUS
  <2>2. 0 \in 0 .. n
    OBVIOUS
  <2> HIDE DEF Solves
  <2> QED
    BY <2>1, <2>2
<1>2. ASSUME NEW k \in 1 .. n, k - 1 \in H PROVE k \in H
  <2>1. PICK g : Solves(g, k - 1)
    BY <1>2
  <2> DEFINE f == [i \in 0 .. k |-> IF i = k THEN step[<<k, g[k - 1]>>] ELSE g[i]]
  <2>2. k - 1 \in 0 .. k - 1 /\ g[k - 1] \in S
    BY <2>1
  <2>3. step[<<k, g[k - 1]>>] \in S
    BY <2>2
  <2>4. \A i \in 0 .. k : i = k \/ i \in 0 .. k - 1
    OBVIOUS
  <2>5. f \in [0 .. k -> S] /\ f[0] = base
    BY <2>1, <2>3, <2>4
  <2>6. ASSUME NEW i \in 1 .. k PROVE f[i] = step[<<i, f[i - 1]>>]
    <3>1. i - 1 \in 0 .. k /\ i - 1 # k /\ i \in 0 .. k /\ (i # k => i \in 1 .. k - 1)
      OBVIOUS
    <3>2. f[i - 1] = g[i - 1] /\ (i = k => f[i] = step[<<k, g[k - 1]>>]) /\ (i # k => f[i] = g[i])
      BY <3>1
    <3> HIDE DEF f
    <3> QED
      BY <2>1, <3>1, <3>2
  <2>7. Solves(f, k)
    <3> HIDE DEF f
    <3> QED
      BY <2>5, <2>6
  <2>8. k \in 0 .. n
    OBVIOUS
  <2> HIDE DEF Solves, f
  <2> QED
    BY <2>7, <2>8
<1>3. n \in H
  <2> HIDE DEF H
  <2>1. n \in 0 .. n
    OBVIOUS
  <2> QED
    BY <1>1, <1>2, <2>1, UpTo
<1> QED
  BY <1>3 DEF Takes

-----------------------------------------------------------------------------
(* Sequences without repetition. *)

Once(s) == \A i, j \in 1 .. Len(s) : s[i] = s[j] => i = j

\* Two sequences one after the other.
LEMMA ConcatIs ==
  ASSUME NEW S, NEW s \in Seq(S), NEW t \in Seq(S)
  PROVE  /\ s \o t \in Seq(S)
         /\ ToSet(s \o t) = ToSet(s) \cup ToSet(t)
         /\ Once(s) /\ Once(t) /\ ToSet(s) \cap ToSet(t) = {} => Once(s \o t)
<1> DEFINE u == s \o t
<1>1. /\ u \in Seq(S) /\ Len(u) = Len(s) + Len(t) /\ Len(s) \in Nat /\ Len(t) \in Nat
      /\ \A i \in 1 .. Len(u) : u[i] = IF i <= Len(s) THEN s[i] ELSE t[i - Len(s)]
  BY ConcatProperties
<1> HIDE DEF u
<1>2. /\ DOMAIN s = 1 .. Len(s) /\ DOMAIN t = 1 .. Len(t) /\ DOMAIN u = 1 .. Len(u)
  BY <1>1
<1>3. ASSUME NEW i \in 1 .. Len(u)
      PROVE  \/ i \in 1 .. Len(s) /\ u[i] = s[i]
             \/ i - Len(s) \in 1 .. Len(t) /\ u[i] = t[i - Len(s)]
  BY <1>1
<1>4. ASSUME NEW i \in 1 .. Len(s) PROVE i \in 1 .. Len(u) /\ u[i] = s[i]
  BY <1>1
<1>5. ASSUME NEW i \in 1 .. Len(t) PROVE Len(s) + i \in 1 .. Len(u) /\ u[Len(s) + i] = t[i]
  <2>1. Len(s) + i \in 1 .. Len(u) /\ ~(Len(s) + i <= Len(s)) /\ Len(s) + i - Len(s) = i
    BY <1>1
  <2> QED
    BY <2>1, <1>1
<1>6. ToSet(u) = ToSet(s) \cup ToSet(t)
  <2>1. ToSet(u) \subseteq ToSet(s) \cup ToSet(t)
    BY <1>2, <1>3 DEF ToSet
  <2>2. ToSet(s) \subseteq ToSet(u)
    BY <1>2, <1>4 DEF ToSet
  <2>3. ToSet(t) \subseteq ToSet(u)
    BY <1>2, <1>5 DEF ToSet
  <2> QED
    BY <2>1, <2>2, <2>3
<1>7. ASSUME Once(s), Once(t), ToSet(s) \cap ToSet(t) = {} PROVE Once(u)
  <2> SUFFICES ASSUME NEW i \in 1 .. Len(u), NEW j \in 1 .. Len(u), u[i] = u[j] PROVE i = j
    BY DEF Once
  <2>1. \A x \in 1 .. Len(s), y \in 1 .. Len(t) : s[x] # t[y]
    BY <1>2, <1>7 DEF ToSet
  <2>2. CASE i \in 1 .. Len(s) /\ u[i] = s[i]
    <3>1. j \in 1 .. Len(s) /\ u[j] = s[j]
      BY <2>1, <2>2, <1>3
    <3> QED
      BY <2>2, <3>1, <1>7 DEF Once
  <2>3. CASE i - Len(s) \in 1 .. Len(t) /\ u[i] = t[i - Len(s)]
    <3>1. j - Len(s) \in 1 .. Len(t) /\ u[j] = t[j - Len(s)]
      BY <2>1, <2>3, <1>3
    <3>2. i - Len(s) = j - Len(s)
      BY <2>3, <3>1, <1>7 DEF Once
    <3> QED
      BY <3>2, <1>1
  <2> QED
    BY <2>2, <2>3, <1>3
<1> QED
  BY <1>1, <1>6, <1>7 DEF u

-----------------------------------------------------------------------------
(* A sequence of sequences, put one after the other. *)

\* The equation of FlattenSeq, which has a solution: the one for all pieces is
\* the one for all but the last, with the last at its end.
LEMMA FlattenDefined ==
  ASSUME NEW S, NEW seqs \in Seq(Seq(S)), Len(seqs) # 0
  PROVE  \E f \in [1 .. Len(seqs) -> Seq(S)] :
           /\ \A i \in 1 .. Len(seqs) : f[i] = IF i = 1 THEN seqs[i] ELSE f[i - 1] \o seqs[i]
           /\ FlattenSeq(seqs) = f[Len(seqs)]
<1> DEFINE n == Len(seqs)
           Body(f, i) == IF i = 1 THEN seqs[i] ELSE f[i - 1] \o seqs[i]
           Solves(f, k) == f \in [1 .. k -> Seq(S)] /\ \A i \in 1 .. k : f[i] = Body(f, i)
           bad == {k \in 1 .. n : ~\E f : Solves(f, k)}
<1>1. n \in Nat /\ n >= 1 /\ \A i \in 1 .. n : seqs[i] \in Seq(S)
  OBVIOUS
<1>2. bad = {}
  <2> SUFFICES ASSUME bad # {} PROVE FALSE
    OBVIOUS
  <2>1. bad \in SUBSET Nat
    BY <1>1
  <2>2. PICK k \in bad : \A y \in bad : k <= y
    <3> HIDE DEF bad
    <3> QED
      BY <2>1, LeastNatural
  <2>3. CASE k = 1
    <3> DEFINE f == [i \in 1 .. 1 |-> seqs[1]]
    <3>1. f \in [1 .. 1 -> Seq(S)] /\ \A i \in 1 .. 1 : i = 1 /\ f[i] = seqs[i]
      BY <1>1
    <3>2. Solves(f, 1)
      <4> HIDE DEF f
      <4> QED
        BY <3>1
    <3> QED
      BY <2>2, <2>3, <3>2
  <2>4. CASE k # 1
    <3>1. k - 1 \in 1 .. n /\ ~(k <= k - 1) /\ k \in 1 .. n
      BY <1>1, <2>2, <2>4
    <3>2. PICK g : Solves(g, k - 1)
      BY <2>2, <3>1
    <3> DEFINE f == [i \in 1 .. k |-> IF i = k THEN g[k - 1] \o seqs[k] ELSE g[i]]
    <3>3. g[k - 1] \in Seq(S) /\ seqs[k] \in Seq(S)
      BY <3>1, <3>2, <1>1
    <3>4. g[k - 1] \o seqs[k] \in Seq(S)
      BY <3>3
    <3>5. \A i \in 1 .. k : i = k \/ i \in 1 .. k - 1
      BY <3>1
    <3>6. f \in [1 .. k -> Seq(S)]
      BY <3>2, <3>4, <3>5
    <3>7. ASSUME NEW i \in 1 .. k PROVE f[i] = Body(f, i)
      <4>1. CASE i = k
        <5>1. i # 1 /\ i - 1 = k - 1 /\ k - 1 \in 1 .. k /\ k - 1 # k /\ k \in 1 .. k
          BY <3>1, <4>1, <2>4
        <5>2. f[k - 1] = g[k - 1] /\ f[k] = g[k - 1] \o seqs[k]
          BY <5>1
        <5> HIDE DEF f
        <5> QED
          BY <4>1, <5>1, <5>2
      <4>2. CASE i # k
        <5>1. i \in 1 .. k - 1 /\ (i # 1 => i - 1 \in 1 .. k /\ i - 1 # k)
          BY <3>1, <4>2
        <5>2. f[i] = g[i] /\ (i # 1 => f[i - 1] = g[i - 1])
          BY <5>1, <4>2
        <5> HIDE DEF f
        <5> QED
          BY <5>1, <5>2, <3>2
      <4> QED
        BY <4>1, <4>2
    <3>8. Solves(f, k)
      <4> HIDE DEF f
      <4> QED
        BY <3>6, <3>7
    <3> QED
      BY <2>2, <3>8
  <2> QED
    BY <2>3, <2>4
<1>3. PICK f : Solves(f, n)
  <2>1. n \in 1 .. n
    BY <1>1
  <2>2. \A k \in 1 .. n : \E f : Solves(f, k)
    BY <1>2
  <2> HIDE DEF Solves
  <2> QED
    BY <2>1, <2>2
<1> DEFINE flatten == CHOOSE g : g = [i \in 1 .. n |-> Body(g, i)]
<1>4. f = [i \in 1 .. n |-> Body(f, i)]
  <2> HIDE DEF Body
  <2> QED
    BY <1>3
<1>5. flatten = [i \in 1 .. n |-> Body(flatten, i)]
  <2> HIDE DEF Body
  <2> QED
    BY <1>4
<1>6. FlattenSeq(seqs) = flatten[n]
  BY DEF FlattenSeq
<1>7. \A i \in 1 .. n : flatten[i] = IF i = 1 THEN seqs[i] ELSE flatten[i - 1] \o seqs[i]
  <2> SUFFICES ASSUME NEW i \in 1 .. n PROVE flatten[i] = Body(flatten, i)
    OBVIOUS
  <2> HIDE DEF Body
  <2> QED
    BY <1>5
<1> HIDE DEF flatten
<1> DEFINE odd == {i \in 1 .. n : flatten[i] \notin Seq(S)}
<1>8. odd = {}
  <2> SUFFICES ASSUME odd # {} PROVE FALSE
    OBVIOUS
  <2>1. odd \in SUBSET Nat
    BY <1>1
  <2>2. PICK i \in odd : \A y \in odd : i <= y
    <3> HIDE DEF odd
    <3> QED
      BY <2>1, LeastNatural
  <2>3. i = 1 \/ (i - 1 \in 1 .. n /\ ~(i <= i - 1))
    BY <1>1, <2>2
  <2>4. i = 1 \/ flatten[i - 1] \in Seq(S)
    BY <2>2, <2>3
  <2>5. flatten[i] = IF i = 1 THEN seqs[i] ELSE flatten[i - 1] \o seqs[i]
    BY <1>7, <2>2
  <2>6. seqs[i] \in Seq(S)
    BY <1>1, <2>2
  <2>7. flatten[i] \in Seq(S)
    BY <2>4, <2>5, <2>6
  <2> QED
    BY <2>2, <2>7
<1>9. flatten \in [1 .. n -> Seq(S)]
  <2>1. flatten = [i \in 1 .. n |-> flatten[i]]
    BY <1>5
  <2> QED
    BY <1>8, <2>1
<1> QED
  BY <1>6, <1>7, <1>9

\* A flattened sequence holds what its pieces hold, once if they do and share
\* nothing.
LEMMA FlattenIs ==
  ASSUME NEW S, NEW seqs \in Seq(Seq(S))
  PROVE  /\ FlattenSeq(seqs) \in Seq(S)
         /\ ToSet(FlattenSeq(seqs)) = UNION {ToSet(seqs[i]) : i \in 1 .. Len(seqs)}
         /\ /\ \A i \in 1 .. Len(seqs) : Once(seqs[i])
            /\ \A i, j \in 1 .. Len(seqs) : i # j => ToSet(seqs[i]) \cap ToSet(seqs[j]) = {}
            => Once(FlattenSeq(seqs))
<1> DEFINE n == Len(seqs)
<1>1. n \in Nat /\ \A i \in 1 .. n : seqs[i] \in Seq(S)
  OBVIOUS
<1>2. CASE n = 0
  <2>1. FlattenSeq(seqs) = seqs /\ seqs = <<>>
    BY <1>2 DEF FlattenSeq
  <2>2. ToSet(<<>>) = {} /\ Once(<<>>) /\ Len(<<>>) = 0
    BY DEF ToSet, Once
  <2> QED
    BY <2>1, <2>2
<1>3. CASE n # 0
  <2>1. PICK f \in [1 .. n -> Seq(S)] :
          /\ \A i \in 1 .. n : f[i] = IF i = 1 THEN seqs[i] ELSE f[i - 1] \o seqs[i]
          /\ FlattenSeq(seqs) = f[n]
    BY <1>3, FlattenDefined
  <2> DEFINE Upto(k) == UNION {ToSet(seqs[i]) : i \in 1 .. k}
             Apart(k) == /\ \A i \in 1 .. k : Once(seqs[i])
                         /\ \A i, j \in 1 .. k : i # j => ToSet(seqs[i]) \cap ToSet(seqs[j]) = {}
             Good(k) == ToSet(f[k]) = Upto(k) /\ (Apart(k) => Once(f[k]))
             bad == {k \in 1 .. n : ~Good(k)}
  <2>2. bad = {}
    <3> SUFFICES ASSUME bad # {} PROVE FALSE
      OBVIOUS
    <3>1. bad \in SUBSET Nat
      BY <1>1
    <3>2. PICK k \in bad : \A y \in bad : k <= y
      <4> HIDE DEF bad
      <4> QED
        BY <3>1, LeastNatural
    <3>3. CASE k = 1
      <4>1. f[1] = seqs[1] /\ 1 .. 1 = {1}
        <5>1. 1 \in 1 .. n /\ 1 .. 1 = {1}
          BY <1>1, <1>3
        <5> QED
          BY <2>1, <5>1
      <4>2. Upto(1) = ToSet(seqs[1])
        BY <4>1
      <4>3. Apart(1) => Once(seqs[1])
        BY <4>1
      <4> QED
        BY <3>2, <3>3, <4>1, <4>2, <4>3
    <3>4. CASE k # 1
      <4>1. k - 1 \in 1 .. n /\ ~(k <= k - 1) /\ k \in 1 .. n
            /\ (\A i \in 1 .. k : i = k \/ i \in 1 .. k - 1)
            /\ (\A i \in 1 .. k - 1 : i \in 1 .. k /\ i # k)
            /\ k \in 1 .. k
        <5>1. k \in 1 .. n /\ k \in Nat /\ k - 1 \in Nat /\ k > 1
          BY <3>2, <1>1, <3>4
        <5> HIDE DEF bad, Good, Apart, Upto
        <5>2. k - 1 \in 1 .. n /\ ~(k <= k - 1) /\ k \in 1 .. k
          BY <5>1, <1>1
        <5>3. \A i \in 1 .. k : i = k \/ i \in 1 .. k - 1
          BY <5>1
        <5>4. \A i \in 1 .. k - 1 : i \in 1 .. k /\ i # k
          BY <5>1
        <5> QED
          BY <5>1, <5>2, <5>3, <5>4
      <4>2. Good(k - 1)
        BY <3>2, <4>1
      <4>3. f[k] = f[k - 1] \o seqs[k] /\ f[k - 1] \in Seq(S) /\ seqs[k] \in Seq(S)
        BY <2>1, <1>1, <3>4, <4>1
      <4>4. /\ ToSet(f[k]) = ToSet(f[k - 1]) \cup ToSet(seqs[k])
            /\ Once(f[k - 1]) /\ Once(seqs[k]) /\ ToSet(f[k - 1]) \cap ToSet(seqs[k]) = {} => Once(f[k])
        BY <4>3, ConcatIs
      <4>5. Upto(k) = Upto(k - 1) \cup ToSet(seqs[k])
        <5>1. \A x : x \in Upto(k) <=> \E i \in 1 .. k : x \in ToSet(seqs[i])
          OBVIOUS
        <5>2. \A x : x \in Upto(k - 1) <=> \E i \in 1 .. k - 1 : x \in ToSet(seqs[i])
          OBVIOUS
        <5> HIDE DEF Upto
        <5> QED
          BY <4>1, <5>1, <5>2
      <4>6. ASSUME Apart(k)
            PROVE  Apart(k - 1) /\ Once(seqs[k]) /\ Upto(k - 1) \cap ToSet(seqs[k]) = {}
        <5>1. Apart(k - 1) /\ Once(seqs[k])
          BY <4>1, <4>6
        <5>2. \A i \in 1 .. k - 1 : ToSet(seqs[i]) \cap ToSet(seqs[k]) = {}
          BY <4>1, <4>6
        <5>3. \A x : x \in Upto(k - 1) => \E i \in 1 .. k - 1 : x \in ToSet(seqs[i])
          OBVIOUS
        <5> HIDE DEF Upto, Apart
        <5> QED
          BY <5>1, <5>2, <5>3
      <4> HIDE DEF Upto, Apart
      <4> QED
        BY <3>2, <4>2, <4>4, <4>5, <4>6
    <3> QED
      BY <3>3, <3>4
  <2>3. n \in 1 .. n
    BY <1>1, <1>3
  <2>4. Good(n) /\ f[n] \in Seq(S)
    BY <2>1, <2>2, <2>3
  <2> QED
    BY <2>1, <2>4
<1> QED
  BY <1>2, <1>3

\* A flattened sequence of pieces of length one or none is no longer than it.
LEMMA FlattenShort ==
  ASSUME NEW S, NEW seqs \in Seq(Seq(S)), \A i \in 1 .. Len(seqs) : Len(seqs[i]) <= 1
  PROVE  Len(FlattenSeq(seqs)) \in Nat /\ Len(FlattenSeq(seqs)) <= Len(seqs)
<1> DEFINE n == Len(seqs)
<1>1. n \in Nat /\ \A i \in 1 .. n : seqs[i] \in Seq(S) /\ Len(seqs[i]) \in Nat
  OBVIOUS
<1>2. CASE n = 0
  <2>1. FlattenSeq(seqs) = seqs
    BY <1>2 DEF FlattenSeq
  <2> QED
    BY <1>2, <2>1
<1>3. CASE n # 0
  <2>1. PICK f \in [1 .. n -> Seq(S)] :
          /\ \A i \in 1 .. n : f[i] = IF i = 1 THEN seqs[i] ELSE f[i - 1] \o seqs[i]
          /\ FlattenSeq(seqs) = f[n]
    BY <1>3, FlattenDefined
  <2> DEFINE H == {i \in 0 .. n : i = 0 \/ Len(f[i]) <= i}
  <2>2. ASSUME NEW i \in 1 .. n, i - 1 \in H PROVE i \in H
    <3>1. /\ seqs[i] \in Seq(S) /\ Len(seqs[i]) <= 1 /\ Len(seqs[i]) \in Nat
          /\ i \in Nat /\ i \in 0 .. n
      BY <1>1
    <3>2. CASE i = 1
      <4>1. f[i] = seqs[i]
        BY <2>1, <3>2
      <4> QED
        BY <3>1, <3>2, <4>1
    <3>3. CASE i # 1
      <4>1. i - 1 \in 1 .. n /\ Len(f[i - 1]) <= i - 1
        BY <1>1, <2>2, <3>3
      <4>2. f[i - 1] \in Seq(S) /\ f[i] = f[i - 1] \o seqs[i]
        BY <2>1, <3>3, <4>1
      <4>3. Len(f[i]) = Len(f[i - 1]) + Len(seqs[i]) /\ Len(f[i - 1]) \in Nat
        BY <3>1, <4>2
      <4>4. Len(f[i]) <= i
        <5> DEFINE a == Len(f[i - 1])
                   b == Len(seqs[i])
        <5>1. a \in Nat /\ a <= i - 1 /\ b \in Nat /\ b <= 1 /\ Len(f[i]) = a + b /\ i \in Nat
          BY <3>1, <4>1, <4>3
        <5> HIDE DEF a, b
        <5> QED
          BY <5>1
      <4> QED
        BY <3>1, <4>4
    <3> QED
      BY <3>2, <3>3
  <2>3. 0 \in H
    BY <1>1
  <2> HIDE DEF H
  <2>4. \A i \in 0 .. n : i \in H
    BY <1>1, <2>2, <2>3, UpTo
  <2>5. n \in H /\ n \in 1 .. n
    BY <1>1, <1>3, <2>4
  <2>6. Len(f[n]) <= n /\ f[n] \in Seq(S)
    BY <1>3, <2>1, <2>5 DEF H
  <2> QED
    BY <2>1, <2>6
<1> QED
  BY <1>2, <1>3
=============================================================================
