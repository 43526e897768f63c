------------------------ MODULE ProcessReplay_proofs ------------------------
(***************************************************************************)
(* Proofs about Lifecycle and about ProcessReplay, for any sets of         *)
(* processes, resources and runs, any limits and any failing insertions.   *)
(* First the store, whoever calls it: its type, whose evidence it holds,   *)
(* what an entry and a finding are, how numbers agree.  Then the processes *)
(* that feed it: as long as the replay has room, it has the descriptor     *)
(* tables of the kernel, accuses no correct program, and counts the        *)
(* descriptors that each successful exec left open.                        *)
(***************************************************************************)
EXTENDS ProcessReplay, DataLemmas, FiniteSetTheorems

-----------------------------------------------------------------------------
(* The store.                                                              *)

\* Whose evidence the model holds.  A handler that failed half way may have
\* left evidence of a run that the model is not bound to; then the model is
\* not used again, so it is the only one.
Held ==
  \/ contributors = {}
  \/ run # Null /\ contributors \subseteq {run}
  \/ status # 0 /\ \E id \in Runs : contributors \subseteq {id}

RunInv == run \in Runs \cup {Null} /\ Held

\* Whatever a handler does to the store, one run stays one run.
LEMMA IngestedOneRun ==
  ASSUME Strict, RunInv, NEW id \in Runs, NEW kind, Admits(kind, id),
         NEW s, NEW p, NEW rs, Ingested(id, s, p, rs)
  PROVE  RunInv'
<1>1. status = 0 /\ run \in {Null, id} /\ id # Null
  BY LifecycleAssumption DEF Admits, MayIngest, MayCall
<1>2. contributors \subseteq {id} /\ contributors' \subseteq {id}
  BY <1>1 DEF RunInv, Held, Ingested
<1>3. CASE s.ok
  <2>1. run' = id
    BY <1>1, <1>3 DEF Ingested, Binding
  <2> QED
    BY <1>1, <1>2, <2>1 DEF RunInv, Held
<1>4. CASE ~s.ok
  <2>1. run' = run /\ status' = -1
    BY <1>4 DEF Ingested, Binding
  <2> QED
    BY <1>2, <2>1 DEF RunInv, Held
<1> QED
  BY <1>3, <1>4

\* A step that leaves the evidence and its run alone, and takes no failure
\* back, keeps the invariant.
LEMMA FailureOneRun ==
  ASSUME RunInv, run' = run, contributors' = contributors,
         status # 0 => status' # 0
  PROVE  RunInv'
BY DEF RunInv, Held

\* The evidence in a model of the strict client comes from one run, also after
\* a handler failed half way (p101_tool_event_lifecycle_ingest, build_lifecycle).
THEOREM ReplayOneRun == ASSUME Strict PROVE Spec => []OneRun
<1>1. Init => RunInv
  BY DEF Init, RunInv, Held
<1>2. RunInv /\ [Next]_vars => RunInv'
  <2> SUFFICES ASSUME RunInv, [Next]_vars PROVE RunInv'
    OBVIOUS
  <2>1. ASSUME NEW id \in Runs, RefuseRun(id) PROVE RunInv'
    BY <2>1, FailureOneRun DEF RefuseRun
  <2>2. ASSUME NEW id \in Runs, NEW p \in Pids,
               RefuseKind(id, p) \/ IgnoreResource(id, p) \/ IngestExecFail(id, p)
        PROVE  RunInv'
    BY <2>2, IngestedOneRun DEF RefuseKind, IgnoreResource, IngestExecFail
  <2>3. ASSUME NEW id \in Runs, NEW p \in Pids, NEW b \in Budgets, NEW r \in Resources,
               \/ IngestAcquire(id, p, r, b) \/ IngestRelease(id, p, r, b)
               \/ \E related \in Resources \cup {Null} : IngestReplace(id, p, r, related, b)
               \/ IngestUse(id, p, r, b)
        PROVE  RunInv'
    BY <2>3, IngestedOneRun DEF IngestAcquire, IngestRelease, IngestReplace, IngestUse
  <2>4. ASSUME NEW id \in Runs, NEW p \in Pids, NEW b \in Budgets, NEW r \in Fds,
               \/ IngestOpen(id, p, r, b) \/ IngestClose(id, p, r, b)
               \/ \E closing \in BOOLEAN : IngestExec(id, p, r, closing, b)
        PROVE  RunInv'
    BY <2>4, IngestedOneRun DEF IngestOpen, IngestClose, IngestExec
  <2>5. ASSUME NEW id \in Runs, NEW p \in Pids, NEW b \in Budgets, NEW a \in Ptrs \cup {Null},
               \/ IngestAlloc(id, p, a, b) \/ IngestFree(id, p, a, b)
               \/ \E new \in Ptrs \cup {Null} : IngestRealloc(id, p, a, new, b)
        PROVE  RunInv'
    BY <2>5, IngestedOneRun DEF IngestAlloc, IngestFree, IngestRealloc
  <2>6. ASSUME NEW id \in Runs, NEW p \in Pids, NEW b \in Budgets, NEW child \in Pids,
               IngestFork(id, p, child, b)
        PROVE  RunInv'
    BY <2>6, IngestedOneRun DEF IngestFork
  <2>7. ASSUME NEW b \in Budgets, Finish(b) PROVE RunInv'
    <3>1. status = 0 /\ run' = run /\ contributors' = contributors
      BY <2>7 DEF Finish, MayCall
    <3> QED
      BY <3>1, FailureOneRun
  <2>8. CASE Renew
    BY <2>8 DEF Renew, RunInv, Held
  <2>9. CASE UNCHANGED vars
    BY <2>9, FailureOneRun DEF vars, lifecycle
  <2> QED
    BY <2>1, <2>2, <2>3, <2>4, <2>5, <2>6, <2>7, <2>8, <2>9 DEF Next
<1>3. RunInv => OneRun
  <2> SUFFICES ASSUME RunInv PROVE OneRun
    OBVIOUS
  <2>1. \E id : contributors \subseteq {id}
    BY DEF RunInv, Held
  <2>2. PICK id : contributors = {} \/ contributors = {id}
    BY <2>1
  <2>3. Cardinality({}) = 0 /\ Cardinality({id}) = 1
    BY FS_EmptySet, FS_Singleton
  <2> QED
    BY <2>2, <2>3 DEF OneRun
<1> QED
  BY <1>1, <1>2, <1>3, PTL DEF Spec

-----------------------------------------------------------------------------
(* Counting the elements of a sequence that are in a set. *)

LEMMA MatchingIs ==
  ASSUME NEW T, NEW seq \in Seq(T), NEW S
  PROVE  /\ IsFiniteSet({i \in DOMAIN seq : seq[i] \in S})
         /\ Matching(seq, S) \in Nat
         /\ Matching(seq, S) = 0 <=> \A i \in 1 .. Len(seq) : seq[i] \notin S
<1> DEFINE found == {i \in DOMAIN seq : seq[i] \in S}
<1>1. DOMAIN seq = 1 .. Len(seq) /\ Len(seq) \in Nat
  OBVIOUS
<1>2. IsFiniteSet(1 .. Len(seq))
  BY <1>1, FS_Interval
<1>3. IsFiniteSet(found)
  <2>1. found \in SUBSET (1 .. Len(seq))
    BY <1>1
  <2> HIDE DEF found
  <2> QED
    BY <1>2, <2>1, FS_Subset
<1>4. Cardinality(found) \in Nat /\ (Cardinality(found) = 0 <=> found = {})
  <2> HIDE DEF found
  <2> QED
    BY <1>3, FS_CardinalityType, FS_EmptySet
<1>5. found = {} <=> \A i \in 1 .. Len(seq) : seq[i] \notin S
  BY <1>1
<1> QED
  BY <1>3, <1>4, <1>5 DEF Matching

LEMMA MatchingEmpty ==
  ASSUME NEW S PROVE Matching(<<>>, S) = 0
<1>1. {i \in DOMAIN <<>> : <<>>[i] \in S} = {}
  OBVIOUS
<1>2. Matching(<<>>, S) = Cardinality({})
  BY <1>1 DEF Matching
<1> QED
  BY <1>2, FS_EmptySet

\* Sequences that have the elements of the set at the same places.
LEMMA MatchingSame ==
  ASSUME NEW T, NEW seq \in Seq(T), NEW U, NEW other \in Seq(U), NEW S, NEW R,
         Len(other) = Len(seq), \A i \in 1 .. Len(seq) : seq[i] \in S <=> other[i] \in R
  PROVE  Matching(other, R) = Matching(seq, S)
<1>1. DOMAIN seq = 1 .. Len(seq) /\ DOMAIN other = 1 .. Len(seq)
  OBVIOUS
<1>2. {i \in DOMAIN seq : seq[i] \in S} = {i \in DOMAIN other : other[i] \in R}
  BY <1>1
<1> QED
  BY <1>2 DEF Matching

LEMMA MatchingAppend ==
  ASSUME NEW T, NEW seq \in Seq(T), NEW x \in T, NEW S
  PROVE  Matching(Append(seq, x), S) = Matching(seq, S) + (IF x \in S THEN 1 ELSE 0)
<1> DEFINE n == Len(seq)
           longer == Append(seq, x)
           found == {i \in DOMAIN seq : seq[i] \in S}
           more == {i \in DOMAIN longer : longer[i] \in S}
<1>1. /\ n \in Nat /\ DOMAIN seq = 1 .. n /\ DOMAIN longer = 1 .. n + 1 /\ longer[n + 1] = x
      /\ \A i \in 1 .. n : longer[i] = seq[i]
  OBVIOUS
<1>2. IsFiniteSet(found) /\ n + 1 \notin found /\ Cardinality(found) \in Nat
  <2>1. IsFiniteSet(found)
    BY <1>1, MatchingIs, Zenon
  <2>2. n + 1 \notin found
    BY <1>1
  <2> HIDE DEF found
  <2> QED
    BY <2>1, <2>2, FS_CardinalityType
<1> HIDE DEF longer
<1>3. \A i \in 1 .. n + 1 : i = n + 1 \/ i \in 1 .. n
  BY <1>1
<1>4. CASE x \in S
  <2>1. more = found \cup {n + 1}
    BY <1>1, <1>3, <1>4
  <2> HIDE DEF more, found
  <2>2. Cardinality(more) = Cardinality(found) + 1
    BY <1>2, <2>1, FS_AddElement
  <2> QED
    BY <1>4, <2>2 DEF Matching, longer, more, found
<1>5. CASE x \notin S
  <2>1. more = found
    BY <1>1, <1>3, <1>5
  <2>2. Matching(longer, S) = Cardinality(found) /\ Matching(seq, S) = Cardinality(found)
    BY <2>1 DEF Matching
  <2> HIDE DEF found
  <2> QED
    BY <1>2, <1>5, <2>2 DEF longer
<1> QED
  BY <1>4, <1>5

\* One element is replaced.
LEMMA MatchingUpdate ==
  ASSUME NEW T, NEW seq \in Seq(T), NEW U, NEW other \in Seq(U), NEW S,
         NEW k \in 1 .. Len(seq), Len(other) = Len(seq),
         \A i \in 1 .. Len(seq) : i # k => (seq[i] \in S <=> other[i] \in S)
  PROVE  Matching(other, S) + (IF seq[k] \in S THEN 1 ELSE 0)
           = Matching(seq, S) + (IF other[k] \in S THEN 1 ELSE 0)
<1> DEFINE found == {i \in DOMAIN seq : seq[i] \in S}
           now == {i \in DOMAIN other : other[i] \in S}
           rest == found \ {k}
<1>1. DOMAIN seq = 1 .. Len(seq) /\ DOMAIN other = 1 .. Len(seq)
  OBVIOUS
<1>2. /\ IsFiniteSet(found) /\ IsFiniteSet(now) /\ Matching(seq, S) = Cardinality(found)
      /\ Matching(other, S) = Cardinality(now)
  BY MatchingIs DEF Matching
<1>3. rest = now \ {k}
  BY <1>1
<1>4. (k \in found <=> seq[k] \in S) /\ (k \in now <=> other[k] \in S)
  BY <1>1
<1> HIDE DEF found, now
<1>5. /\ Cardinality(found \ {k}) = IF k \in found THEN Cardinality(found) - 1 ELSE Cardinality(found)
      /\ Cardinality(now \ {k}) = IF k \in now THEN Cardinality(now) - 1 ELSE Cardinality(now)
      /\ Cardinality(found) \in Nat /\ Cardinality(now) \in Nat
  BY <1>2, FS_RemoveElement, FS_CardinalityType
<1> DEFINE c == Cardinality(found)
           d == Cardinality(now)
<1>6. /\ (IF k \in found THEN c - 1 ELSE c) = (IF k \in now THEN d - 1 ELSE d)
      /\ c \in Nat /\ d \in Nat
  BY <1>3, <1>5
<1> HIDE DEF c, d
<1>7. d + (IF k \in found THEN 1 ELSE 0) = c + (IF k \in now THEN 1 ELSE 0)
  BY <1>6
<1> QED
  BY <1>2, <1>4, <1>7 DEF c, d

\* One element is taken out.
LEMMA MatchingRemove ==
  ASSUME NEW T, NEW seq \in Seq(T), NEW k \in 1 .. Len(seq), NEW S
  PROVE  /\ RemoveAt(seq, k) \in Seq(T) /\ Len(RemoveAt(seq, k)) = Len(seq) - 1
         /\ \A i \in 1 .. Len(seq) - 1 : RemoveAt(seq, k)[i] = seq[IF i < k THEN i ELSE i + 1]
         /\ Matching(seq, S) = Matching(RemoveAt(seq, k), S) + (IF seq[k] \in S THEN 1 ELSE 0)
<1> DEFINE n == Len(seq)
           shorter == RemoveAt(seq, k)
           was(i) == IF i < k THEN i ELSE i + 1
           found == {i \in DOMAIN seq : seq[i] \in S}
           rest == found \ {k}
           now == {i \in DOMAIN shorter : shorter[i] \in S}
<1>1. n \in Nat /\ DOMAIN seq = 1 .. n
  OBVIOUS
<1>2. /\ shorter \in Seq(T) /\ Len(shorter) = n - 1
      /\ \A i \in 1 .. n - 1 : shorter[i] = seq[was(i)]
  <2> DEFINE a == SubSeq(seq, 1, k - 1)
             b == SubSeq(seq, k + 1, n)
  <2>1. /\ a \in Seq(T) /\ Len(a) = k - 1 /\ \A i \in 1 .. k - 1 : a[i] = seq[i]
    <3>1. \A i \in 1 .. k - 1 : seq[i] \in T
      OBVIOUS
    <3> QED
      BY <3>1
  <2>2. /\ b \in Seq(T) /\ Len(b) = n - k /\ \A i \in 1 .. n - k : b[i] = seq[k + i]
    <3>1. \A i \in k + 1 .. n : seq[i] \in T
      OBVIOUS
    <3>2. k + 1 \in Int /\ n \in Int /\ k + 1 <= n + 1
      OBVIOUS
    <3> QED
      BY <3>1, <3>2
  <2>3. shorter = a \o b
    BY DEF RemoveAt
  <2> HIDE DEF a, b, shorter
  <2>4. /\ a \o b \in Seq(T) /\ Len(a \o b) = Len(a) + Len(b)
        /\ \A i \in 1 .. Len(a) + Len(b) : (a \o b)[i] = IF i <= Len(a) THEN a[i] ELSE b[i - Len(a)]
    BY <2>1, <2>2, ConcatProperties
  <2>5. Len(shorter) = n - 1 /\ shorter \in Seq(T)
    BY <1>1, <2>1, <2>2, <2>3, <2>4
  <2>6. ASSUME NEW i \in 1 .. n - 1 PROVE shorter[i] = seq[was(i)]
    <3>1. i \in 1 .. Len(a) + Len(b)
      BY <1>1, <2>1, <2>2
    <3>2. shorter[i] = IF i <= k - 1 THEN a[i] ELSE b[i - (k - 1)]
      BY <2>1, <2>3, <2>4, <3>1
    <3>3. CASE i < k
      <4>1. i \in 1 .. k - 1 /\ i <= k - 1
        BY <3>3
      <4> QED
        BY <2>1, <3>2, <3>3, <4>1
    <3>4. CASE ~(i < k)
      <4>1. i - (k - 1) \in 1 .. n - k /\ ~(i <= k - 1) /\ k + (i - (k - 1)) = i + 1
        BY <1>1, <3>4
      <4> QED
        BY <2>2, <3>2, <3>4, <4>1
    <3> QED
      BY <3>3, <3>4
  <2> QED
    BY <2>5, <2>6
<1>3. DOMAIN shorter = 1 .. n - 1
  BY <1>1, <1>2
<1> HIDE DEF shorter
<1>4. IsFiniteSet(now) /\ IsFiniteSet(found) /\ Matching(shorter, S) = Cardinality(now)
      /\ Matching(seq, S) = Cardinality(found)
  BY <1>2, MatchingIs DEF Matching
<1>5. ExistsBijection(now, rest)
  <2> DEFINE f == [i \in now |-> was(i)]
  <2>1. \A i \in now : i \in 1 .. n - 1 /\ seq[was(i)] \in S
    BY <1>2, <1>3
  <2>2. \A i \in 1 .. n - 1 : was(i) \in 1 .. n /\ was(i) # k
    BY <1>1
  <2>3. \A i \in now : was(i) \in rest
    BY <1>1, <2>1, <2>2
  <2>4. f \in [now -> rest]
    <3> HIDE DEF now, rest
    <3> QED
      BY <2>3
  <2>5. \A i, j \in 1 .. n - 1 : was(i) = was(j) => i = j
    OBVIOUS
  <2>6. \A i, j \in now : f[i] = f[j] => i = j
    <3> HIDE DEF now
    <3> QED
      BY <2>1, <2>5
  <2>7. \A x \in rest : \E i \in now : was(i) = x
    <3> SUFFICES ASSUME NEW x \in rest PROVE \E i \in now : was(i) = x
      OBVIOUS
    <3> DEFINE i == IF x < k THEN x ELSE x - 1
    <3>1. x \in 1 .. n /\ x # k /\ seq[x] \in S
      BY <1>1
    <3>2. i \in 1 .. n - 1 /\ was(i) = x
      BY <1>1, <3>1
    <3>3. i \in now
      BY <1>2, <1>3, <3>1, <3>2
    <3> QED
      BY <3>2, <3>3
  <2>8. f \in Bijection(now, rest)
    <3> HIDE DEF now, rest, was
    <3>1. f \in Injection(now, rest)
      BY <2>4, <2>6 DEF Injection, IsInjective
    <3>2. f \in Surjection(now, rest)
      BY <2>4, <2>7 DEF Surjection
    <3> QED
      BY <3>1, <3>2 DEF Bijection
  <2> QED
    BY <2>8 DEF ExistsBijection
<1>6. Cardinality(rest) = Cardinality(now)
  <2> HIDE DEF rest, now
  <2> QED
    BY <1>4, <1>5, FS_Bijection
<1>7. k \in found <=> seq[k] \in S
  BY <1>1
<1>8. Cardinality(rest) = IF k \in found THEN Cardinality(found) - 1 ELSE Cardinality(found)
  <2> HIDE DEF found
  <2> QED
    BY <1>4, FS_RemoveElement
<1>9. Cardinality(found) \in Nat /\ Cardinality(now) \in Nat
  <2> HIDE DEF found, now
  <2> QED
    BY <1>4, FS_CardinalityType
<1>10. Matching(seq, S) = Matching(shorter, S) + (IF seq[k] \in S THEN 1 ELSE 0)
  <2> HIDE DEF found, now, rest
  <2> QED
    BY <1>4, <1>6, <1>7, <1>8, <1>9
<1> QED
  BY <1>2, <1>10 DEF shorter

\* The beginnings of a sequence.
LEMMA PrefixIs ==
  ASSUME NEW T, NEW seq \in Seq(T)
  PROVE  /\ SubSeq(seq, 1, 0) = <<>> /\ SubSeq(seq, 1, Len(seq)) = seq
         /\ \A i \in 0 .. Len(seq) : SubSeq(seq, 1, i) \in Seq(T) /\ Len(SubSeq(seq, 1, i)) = i
         /\ \A i \in 1 .. Len(seq) : /\ SubSeq(seq, 1, i) = Append(SubSeq(seq, 1, i - 1), seq[i])
                                     /\ seq[i] \in T
<1>1. SubSeq(seq, 1, 0) = <<>>
  OBVIOUS
<1>2. SubSeq(seq, 1, Len(seq)) = seq
  OBVIOUS
<1>3. ASSUME NEW i \in 0 .. Len(seq)
      PROVE  /\ SubSeq(seq, 1, i) \in Seq(T) /\ Len(SubSeq(seq, 1, i)) = i
             /\ \A j \in 1 .. i : SubSeq(seq, 1, i)[j] = seq[j]
  <2>1. \A j \in 1 .. i : seq[j] \in T
    OBVIOUS
  <2> QED
    BY <2>1
<1>4. ASSUME NEW i \in 1 .. Len(seq)
      PROVE  SubSeq(seq, 1, i) = Append(SubSeq(seq, 1, i - 1), seq[i]) /\ seq[i] \in T
  <2> DEFINE a == SubSeq(seq, 1, i)
             b == SubSeq(seq, 1, i - 1)
             c == Append(b, seq[i])
  <2>1. i \in 0 .. Len(seq) /\ i - 1 \in 0 .. Len(seq) /\ seq[i] \in T
    OBVIOUS
  <2>2. a \in Seq(T) /\ Len(a) = i /\ \A j \in 1 .. i : a[j] = seq[j]
    BY <1>3, <2>1
  <2>3. b \in Seq(T) /\ Len(b) = i - 1 /\ \A j \in 1 .. i - 1 : b[j] = seq[j]
    BY <1>3, <2>1
  <2> HIDE DEF a, b
  <2>4. c \in Seq(T) /\ Len(c) = i
    BY <2>1, <2>3
  <2>5. ASSUME NEW j \in 1 .. i PROVE c[j] = seq[j]
    <3>1. j = i \/ j \in 1 .. i - 1
      OBVIOUS
    <3>2. j \in 1 .. i - 1 => c[j] = b[j]
      BY <2>1, <2>3
    <3>3. c[i] = seq[i]
      BY <2>1, <2>3
    <3> QED
      BY <2>3, <3>1, <3>2, <3>3
  <2> HIDE DEF c
  <2>6. a = c
    BY <2>2, <2>4, <2>5, SeqEqual
  <2> QED
    BY <2>1, <2>6 DEF a, b, c
<1> QED
  BY <1>1, <1>2, <1>3, <1>4

\* What is kept of a sequence, one element after the other.
Keeps(f, seq, T, K) ==
  /\ f \in [0 .. Len(seq) -> Seq(T)] /\ f[0] = <<>>
  /\ \A i \in 1 .. Len(seq) : f[i] = IF seq[i] \in K THEN Append(f[i - 1], seq[i]) ELSE f[i - 1]
  /\ Kept(seq, K) = f[Len(seq)]
LEMMA KeptUnfolds ==
  ASSUME NEW T, NEW seq \in Seq(T), NEW K
  PROVE  \E f : Keeps(f, seq, T, K)
<1> DEFINE n == Len(seq)
           Step(kept, i) == IF seq[i] \in K THEN Append(kept, seq[i]) ELSE kept
           Body(f, i) == IF i = 0 THEN <<>> ELSE Step(f[i - 1], i)
           step == [x \in (1 .. n) \X Seq(T) |-> Step(x[2], x[1])]
           f == CHOOSE f : f = [i \in 0 .. n |-> Body(f, i)]
<1>1. n \in Nat /\ \A i \in 1 .. n : seq[i] \in T
  OBVIOUS
<1>2. \A i \in 1 .. n, kept \in Seq(T) : Step(kept, i) \in Seq(T)
  BY <1>1
<1>3. Kept(seq, K) = f[n]
  BY DEF Kept
<1>4. /\ f[0] = <<>> /\ f = [i \in 0 .. n |-> f[i]]
      /\ \A i \in 1 .. n : f[i] = Step(f[i - 1], i)
  <2>1. step \in [(1 .. n) \X Seq(T) -> Seq(T)]
        /\ \A i \in 1 .. n, kept \in Seq(T) : step[<<i, kept>>] = Step(kept, i)
    <3> HIDE DEF Step
    <3> QED
      BY <1>2
  <2> HIDE DEF step
  <2>2. PICK g : Takes(g, n, Seq(T), <<>>, step)
    <3> DEFINE all == Seq(T)
               empty == <<>>
    <3>1. n \in Nat /\ empty \in all /\ step \in [(1 .. n) \X all -> all]
      BY <1>1, <2>1
    <3> HIDE DEF all, empty, n
    <3>2. \E g : Takes(g, n, all, empty, step)
      BY <3>1, Iterated
    <3> QED
      BY <3>2 DEF all, empty
  <2> HIDE DEF Step
  <2>3. ASSUME NEW i \in 1 .. n PROVE i - 1 \in 0 .. n /\ g[i] = Step(g[i - 1], i)
    <3>1. i - 1 \in 0 .. n
      BY <1>1
    <3>2. g[i - 1] \in Seq(T) /\ g[i] = step[<<i, g[i - 1]>>]
      BY <2>2, <3>1 DEF Takes
    <3> QED
      BY <2>1, <3>1, <3>2
  <2>4. \A i \in 0 .. n : g[i] = Body(g, i)
    BY <1>1, <2>2, <2>3 DEF Takes
  <2>5. g = [i \in 0 .. n |-> Body(g, i)]
    <3> HIDE DEF Body
    <3> QED
      BY <2>2, <2>4 DEF Takes
  <2>6. f = [i \in 0 .. n |-> Body(f, i)]
    <3> HIDE DEF Body
    <3> QED
      BY <2>5
  <2>7. \A i \in 0 .. n : f[i] = Body(f, i)
    <3> HIDE DEF Body, f
    <3> QED
      BY <2>6
  <2>8. f = [i \in 0 .. n |-> f[i]]
    <3> HIDE DEF Body, f
    <3> QED
      BY <2>6
  <2> HIDE DEF f
  <2> QED
    BY <1>1, <2>7, <2>8
<1> HIDE DEF f
<1> DEFINE H == {i \in 0 .. n : f[i] \in Seq(T)}
<1>5. n \in Nat /\ 0 \in H /\ \A i \in 1 .. n : i - 1 \in H => i \in H
  <2>1. 0 \in H
    <3>1. f[0] \in Seq(T) /\ 0 \in 0 .. n
      <4>1. <<>> \in Seq(T)
        OBVIOUS
      <4> HIDE DEF n
      <4> QED
        BY <1>1, <1>4, <4>1
    <3> QED
      BY <3>1
  <2>2. ASSUME NEW i \in 1 .. n, i - 1 \in H PROVE i \in H
    <3>1. f[i] = Step(f[i - 1], i) /\ f[i - 1] \in Seq(T)
      BY <1>4, <2>2
    <3>2. f[i] \in Seq(T) /\ i \in 0 .. n
      <4> HIDE DEF Step
      <4> QED
        BY <1>1, <1>2, <3>1
    <3> QED
      BY <3>2
  <2> QED
    BY <1>1, <2>1, <2>2
<1>6. \A i \in 0 .. n : i \in H
  <2> HIDE DEF H, n
  <2> QED
    BY <1>5, UpTo
<1>7. f \in [0 .. n -> Seq(T)]
  BY <1>4, <1>6
<1>8. \A i \in 1 .. n : f[i] = IF seq[i] \in K THEN Append(f[i - 1], seq[i]) ELSE f[i - 1]
  BY <1>4
<1>9. Keeps(f, seq, T, K)
  <2> HIDE DEF H, Step
  <2> QED
    BY <1>3, <1>4, <1>7, <1>8 DEF Keeps
<1> QED
  BY <1>9

\* What is kept of a sequence.
LEMMA KeptIs ==
  ASSUME NEW T, NEW seq \in Seq(T), NEW K, NEW S
  PROVE  /\ Kept(seq, K) \in Seq(T) /\ Len(Kept(seq, K)) <= Len(seq)
         /\ \A i \in 1 .. Len(Kept(seq, K)) :
              Kept(seq, K)[i] \in K /\ \E j \in 1 .. Len(seq) : Kept(seq, K)[i] = seq[j]
         /\ Matching(Kept(seq, K), S) = Matching(seq, S \cap K)
<1> DEFINE n == Len(seq)
           Step(kept, i) == IF seq[i] \in K THEN Append(kept, seq[i]) ELSE kept
<1>1. n \in Nat /\ \A i \in 1 .. n : seq[i] \in T
  OBVIOUS
<1>2. PICK f : Keeps(f, seq, T, K)
  BY KeptUnfolds
<1>3. Kept(seq, K) = f[n]
  BY <1>2 DEF Keeps
<1>4. f[0] = <<>> /\ \A i \in 1 .. n : f[i] = Step(f[i - 1], i)
  BY <1>2 DEF Keeps
<1> DEFINE Good(i) ==
             /\ f[i] \in Seq(T) /\ Len(f[i]) <= i
             /\ \A k \in 1 .. Len(f[i]) : f[i][k] \in K /\ \E j \in 1 .. n : f[i][k] = seq[j]
             /\ Matching(f[i], S) = Matching(SubSeq(seq, 1, i), S \cap K)
           H == {i \in 0 .. n : Good(i)}
<1>5. Good(0)
  <2>1. f[0] = <<>> /\ <<>> \in Seq(T) /\ Len(<<>>) = 0 /\ SubSeq(seq, 1, 0) = <<>>
    BY <1>4, PrefixIs
  <2>2. ASSUME NEW R PROVE Matching(<<>>, R) = 0
    BY MatchingEmpty
  <2>3. Matching(<<>>, S) = Matching(<<>>, S \cap K)
    BY <2>2
  <2>4. f[0] \in Seq(T) /\ Len(f[0]) <= 0 /\ \A k \in 1 .. Len(f[0]) : FALSE
    BY <2>1
  <2> QED
    BY <2>1, <2>3, <2>4
<1>6. ASSUME NEW i \in 1 .. n, Good(i - 1) PROVE Good(i)
  <2> DEFINE kept == f[i - 1]
             before == SubSeq(seq, 1, i - 1)
  <2>1. /\ before \in Seq(T) /\ SubSeq(seq, 1, i) = Append(before, seq[i]) /\ seq[i] \in T
    <3>1. i - 1 \in 0 .. n
      BY <1>1
    <3> QED
      BY <3>1, PrefixIs
  <2> DEFINE both == S \cap K
  <2>2. Matching(SubSeq(seq, 1, i), S \cap K)
          = Matching(before, S \cap K) + (IF seq[i] \in S \cap K THEN 1 ELSE 0)
    <3> HIDE DEF before, both
    <3>1. Matching(Append(before, seq[i]), both)
            = Matching(before, both) + (IF seq[i] \in both THEN 1 ELSE 0)
      BY <2>1, MatchingAppend
    <3> QED
      BY <2>1, <3>1 DEF both
  <2>3. kept \in Seq(T) /\ Len(kept) <= i - 1 /\ Matching(kept, S) = Matching(before, S \cap K)
        /\ Len(kept) \in Nat /\ Matching(before, S \cap K) \in Nat
        /\ \A k \in 1 .. Len(kept) : kept[k] \in K /\ \E j \in 1 .. n : kept[k] = seq[j]
    <3>1. Matching(before, S \cap K) \in Nat
      <4> HIDE DEF before, both
      <4>1. Matching(before, both) \in Nat
        BY <2>1, MatchingIs
      <4> QED
        BY <4>1 DEF both
    <3>2. kept \in Seq(T) => Len(kept) \in Nat
      <4> HIDE DEF kept
      <4> QED
        OBVIOUS
    <3> QED
      BY <1>6, <3>1, <3>2
  <2>4. CASE seq[i] \in K
    <3>1. f[i] = Append(kept, seq[i])
      BY <1>4, <2>4
    <3>2. Matching(Append(kept, seq[i]), S) = Matching(kept, S) + (IF seq[i] \in S THEN 1 ELSE 0)
      BY <2>1, <2>3, MatchingAppend
    <3>3. Matching(f[i], S) = Matching(SubSeq(seq, 1, i), S \cap K)
      BY <2>2, <2>3, <2>4, <3>1, <3>2
    <3> HIDE DEF kept, before
    <3>4. /\ Append(kept, seq[i]) \in Seq(T) /\ Len(Append(kept, seq[i])) = Len(kept) + 1
          /\ Append(kept, seq[i])[Len(kept) + 1] = seq[i]
          /\ \A k \in 1 .. Len(kept) : Append(kept, seq[i])[k] = kept[k]
      BY <2>1, <2>3
    <3>5. \A k \in 1 .. Len(kept) + 1 : k = Len(kept) + 1 \/ k \in 1 .. Len(kept)
      BY <2>3
    <3>6. Len(kept) + 1 <= i
      BY <1>1, <2>3
    <3> QED
      BY <1>1, <2>3, <2>4, <3>1, <3>3, <3>4, <3>5, <3>6
  <2>5. CASE seq[i] \notin K
    <3>1. f[i] = kept
      BY <1>4, <2>5
    <3>2. Matching(f[i], S) = Matching(SubSeq(seq, 1, i), S \cap K)
      BY <2>2, <2>3, <2>5, <3>1
    <3> HIDE DEF kept, before
    <3>3. Len(kept) <= i
      BY <1>1, <2>3
    <3> QED
      BY <2>3, <3>1, <3>2, <3>3
  <2> QED
    BY <2>4, <2>5
<1>7. Good(n)
  <2> HIDE DEF Good
  <2>1. 0 \in H /\ \A i \in 1 .. n : i - 1 \in H => i \in H
    BY <1>1, <1>5, <1>6
  <2>2. n \in Nat /\ n \in 0 .. n
    BY <1>1
  <2> HIDE DEF H, n
  <2>3. n \in H
    BY <2>1, <2>2, UpTo
  <2> QED
    BY <2>3 DEF H
<1> QED
  BY <1>3, <1>7, PrefixIs

\* One element more.
LEMMA KeptAppend ==
  ASSUME NEW T, NEW seq \in Seq(T), NEW x \in T, NEW K
  PROVE  Kept(Append(seq, x), K) = IF x \in K THEN Append(Kept(seq, K), x) ELSE Kept(seq, K)
<1> DEFINE n == Len(seq)
           longer == Append(seq, x)
           Step(kept, y) == IF y \in K THEN Append(kept, y) ELSE kept
<1>1. /\ n \in Nat /\ longer \in Seq(T) /\ Len(longer) = n + 1 /\ longer[n + 1] = x
      /\ \A i \in 1 .. n : longer[i] = seq[i]
  OBVIOUS
<1> HIDE DEF longer
<1>2. PICK f : Keeps(f, seq, T, K)
  BY KeptUnfolds
<1>3. PICK g : Keeps(g, longer, T, K)
  BY <1>1, KeptUnfolds
<1>4. /\ f[0] = <<>> /\ (\A i \in 1 .. n : f[i] = Step(f[i - 1], seq[i])) /\ Kept(seq, K) = f[n]
  BY <1>2 DEF Keeps
<1>5. /\ g[0] = <<>> /\ (\A i \in 1 .. n + 1 : g[i] = Step(g[i - 1], longer[i]))
      /\ Kept(longer, K) = g[n + 1]
  BY <1>1, <1>3 DEF Keeps
<1> HIDE DEF Step
<1> DEFINE H == {i \in 0 .. n : g[i] = f[i]}
<1>6. 0 \in H
  BY <1>1, <1>4, <1>5
<1>7. ASSUME NEW i \in 1 .. n, i - 1 \in H PROVE i \in H
  <2>1. i \in 0 .. n /\ i \in 1 .. n + 1
    BY <1>1
  <2>2. g[i] = Step(g[i - 1], longer[i]) /\ f[i] = Step(f[i - 1], seq[i])
    BY <1>4, <1>5, <2>1
  <2> QED
    BY <1>1, <1>7, <2>1, <2>2
<1>8. g[n] = f[n]
  <2>1. n \in 0 .. n
    BY <1>1
  <2> HIDE DEF H, n
  <2>2. n \in H
    BY <1>1, <1>6, <1>7, <2>1, UpTo
  <2> QED
    BY <2>2 DEF H
<1>9. Kept(longer, K) = Step(Kept(seq, K), x)
  <2>1. n + 1 \in 1 .. n + 1 /\ n + 1 - 1 = n
    BY <1>1
  <2> QED
    BY <1>1, <1>8, <1>4, <1>5, <2>1
<1> QED
  BY <1>9 DEF Step, longer

\* Of the elements in S, in their order, what proj makes of them.
Shown(seq, S, proj) == [i \in DOMAIN Kept(seq, S) |-> proj[Kept(seq, S)[i]]]

LEMMA ShownAppend ==
  ASSUME NEW T, NEW seq \in Seq(T), NEW x \in T, NEW S, NEW proj
  PROVE  Shown(Append(seq, x), S, proj)
           = IF x \in S THEN Append(Shown(seq, S, proj), proj[x]) ELSE Shown(seq, S, proj)
<1> DEFINE a == Kept(seq, S)
           b == Kept(Append(seq, x), S)
<1>1. b = IF x \in S THEN Append(a, x) ELSE a
  BY KeptAppend
<1>2. a \in Seq(T)
  BY KeptIs
<1>3. /\ Shown(seq, S, proj) = [i \in DOMAIN a |-> proj[a[i]]]
      /\ Shown(Append(seq, x), S, proj) = [i \in DOMAIN b |-> proj[b[i]]]
  BY DEF Shown
<1> HIDE DEF a, b
<1>4. CASE x \in S
  <2> DEFINE n == Len(a)
             U == {proj[y] : y \in T}
             p == [i \in DOMAIN a |-> proj[a[i]]]
             q == [i \in DOMAIN b |-> proj[b[i]]]
  <2>1. /\ n \in Nat /\ DOMAIN a = 1 .. n /\ DOMAIN b = 1 .. n + 1 /\ b[n + 1] = x
        /\ \A i \in 1 .. n : b[i] = a[i] /\ a[i] \in T
    BY <1>1, <1>2, <1>4
  <2> HIDE DEF n
  <2>2. p \in Seq(U) /\ Len(p) = n /\ \A i \in 1 .. n : p[i] = proj[a[i]]
    <3>1. \A i \in 1 .. n : proj[a[i]] \in U
      BY <2>1
    <3> HIDE DEF U
    <3> QED
      BY <2>1, <3>1
  <2>3. q \in Seq(U) /\ Len(q) = n + 1 /\ q[n + 1] = proj[x] /\ \A i \in 1 .. n : q[i] = proj[a[i]]
    <3>1. \A i \in 1 .. n + 1 : i = n + 1 \/ i \in 1 .. n
      BY <2>1
    <3>2. \A i \in 1 .. n + 1 : b[i] \in T
      BY <2>1, <3>1
    <3>3. \A i \in 1 .. n + 1 : proj[b[i]] \in U
      BY <3>2
    <3> HIDE DEF U
    <3> QED
      BY <2>1, <3>3
  <2> HIDE DEF p, q
  <2>4. proj[x] \in U
    OBVIOUS
  <2> DEFINE r == Append(p, proj[x])
  <2> HIDE DEF U
  <2>5. /\ r \in Seq(U) /\ Len(r) = n + 1 /\ r[n + 1] = proj[x]
        /\ \A i \in 1 .. n : r[i] = p[i]
    BY <2>1, <2>2, <2>4
  <2> HIDE DEF r
  <2>6. \A i \in 1 .. n + 1 : r[i] = q[i]
    <3>1. \A i \in 1 .. n + 1 : i = n + 1 \/ i \in 1 .. n
      BY <2>1
    <3> QED
      BY <2>2, <2>3, <2>5, <3>1
  <2>7. r = q
    BY <2>3, <2>5, <2>6, SeqEqual
  <2> QED
    BY <1>3, <1>4, <2>7 DEF p, q, r
<1>5. CASE x \notin S
  BY <1>1, <1>3, <1>5
<1> QED
  BY <1>4, <1>5

\* Sequences that show the same in each place show the same.
Alike(x, y, S, proj) == (x \in S <=> y \in S) /\ (x \in S => proj[x] = proj[y])
LEMMA ShownAlike ==
  ASSUME NEW T, NEW seq \in Seq(T), NEW other \in Seq(T), NEW S, NEW proj,
         Len(other) = Len(seq), \A i \in 1 .. Len(seq) : Alike(seq[i], other[i], S, proj)
  PROVE  Shown(other, S, proj) = Shown(seq, S, proj)
<1> DEFINE n == Len(seq)
           a(i) == SubSeq(seq, 1, i)
           b(i) == SubSeq(other, 1, i)
           H == {i \in 0 .. n : Shown(b(i), S, proj) = Shown(a(i), S, proj)}
<1>1. n \in Nat
  OBVIOUS
<1>2. /\ a(0) = <<>> /\ b(0) = <<>> /\ a(n) = seq /\ b(n) = other
      /\ \A i \in 0 .. n : a(i) \in Seq(T) /\ b(i) \in Seq(T)
  BY PrefixIs
<1>3. \A i \in 1 .. n : /\ a(i) = Append(a(i - 1), seq[i]) /\ seq[i] \in T
                        /\ b(i) = Append(b(i - 1), other[i]) /\ other[i] \in T
  BY PrefixIs
<1> HIDE DEF a, b
<1>4. 0 \in H
  BY <1>1, <1>2
<1>5. ASSUME NEW i \in 1 .. n, i - 1 \in H PROVE i \in H
  <2>1. i - 1 \in 0 .. n /\ i \in 0 .. n
    BY <1>1
  <2>2. /\ Shown(a(i), S, proj)
             = IF seq[i] \in S THEN Append(Shown(a(i - 1), S, proj), proj[seq[i]]) ELSE Shown(a(i - 1), S, proj)
        /\ Shown(b(i), S, proj)
             = IF other[i] \in S THEN Append(Shown(b(i - 1), S, proj), proj[other[i]]) ELSE Shown(b(i - 1), S, proj)
    <3>1. /\ a(i - 1) \in Seq(T) /\ b(i - 1) \in Seq(T)
          /\ a(i) = Append(a(i - 1), seq[i]) /\ seq[i] \in T
          /\ b(i) = Append(b(i - 1), other[i]) /\ other[i] \in T
      BY <1>2, <1>3, <2>1
    <3>2. ASSUME NEW c \in Seq(T), NEW x \in T
          PROVE  Shown(Append(c, x), S, proj)
                   = IF x \in S THEN Append(Shown(c, S, proj), proj[x]) ELSE Shown(c, S, proj)
      BY ShownAppend
    <3> QED
      BY <3>1, <3>2
  <2>3. Alike(seq[i], other[i], S, proj)
    OBVIOUS
  <2>4. Shown(b(i - 1), S, proj) = Shown(a(i - 1), S, proj)
    BY <1>5
  <2>5. Shown(b(i), S, proj) = Shown(a(i), S, proj)
    BY <2>2, <2>3, <2>4 DEF Alike
  <2> QED
    BY <2>1, <2>5
<1>6. n \in H
  <2> HIDE DEF H
  <2>1. n \in 0 .. n
    BY <1>1
  <2> HIDE DEF n
  <2> QED
    BY <1>1, <1>4, <1>5, <2>1, UpTo
<1> QED
  BY <1>2, <1>6

\* An element that is not shown is taken out.
LEMMA ShownRemove ==
  ASSUME NEW T, NEW seq \in Seq(T), NEW k \in 1 .. Len(seq), NEW S, NEW proj, seq[k] \notin S
  PROVE  Shown(RemoveAt(seq, k), S, proj) = Shown(seq, S, proj)
<1> DEFINE n == Len(seq)
           short == RemoveAt(seq, k)
           a(i) == SubSeq(seq, 1, i)
           b(i) == SubSeq(short, 1, i)
           was(i) == IF i < k THEN i ELSE i - 1
           H == {i \in 0 .. n : Shown(b(was(i)), S, proj) = Shown(a(i), S, proj)}
<1>1. n \in Nat /\ k \in 1 .. n
  OBVIOUS
<1>2. /\ short \in Seq(T) /\ Len(short) = n - 1
      /\ \A i \in 1 .. n - 1 : short[i] = seq[IF i < k THEN i ELSE i + 1]
  BY MatchingRemove
<1>3. /\ a(0) = <<>> /\ a(n) = seq
      /\ \A i \in 0 .. n : a(i) \in Seq(T)
      /\ \A i \in 1 .. n : a(i) = Append(a(i - 1), seq[i]) /\ seq[i] \in T
  BY PrefixIs
<1> HIDE DEF short
<1>4. /\ b(0) = <<>> /\ b(n - 1) = short
      /\ \A i \in 0 .. n - 1 : b(i) \in Seq(T)
      /\ \A i \in 1 .. n - 1 : b(i) = Append(b(i - 1), short[i]) /\ short[i] \in T
  <2> HIDE DEF n
  <2>1. /\ SubSeq(short, 1, 0) = <<>> /\ SubSeq(short, 1, Len(short)) = short
        /\ \A i \in 0 .. Len(short) : SubSeq(short, 1, i) \in Seq(T)
        /\ \A i \in 1 .. Len(short) : SubSeq(short, 1, i) = Append(SubSeq(short, 1, i - 1), short[i])
                                      /\ short[i] \in T
    BY <1>2, PrefixIs
  <2> QED
    BY <1>2, <2>1
<1> HIDE DEF a, b
<1>5. 0 \in H
  BY <1>1, <1>3, <1>4
<1>6. ASSUME NEW i \in 1 .. n, i - 1 \in H PROVE i \in H
  <2>1. i - 1 \in 0 .. n /\ i \in 0 .. n
    BY <1>1
  <2>2. ASSUME NEW c \in Seq(T), NEW x \in T
        PROVE  Shown(Append(c, x), S, proj)
                 = IF x \in S THEN Append(Shown(c, S, proj), proj[x]) ELSE Shown(c, S, proj)
    BY ShownAppend
  <2>3. Shown(a(i), S, proj)
          = IF seq[i] \in S THEN Append(Shown(a(i - 1), S, proj), proj[seq[i]]) ELSE Shown(a(i - 1), S, proj)
    <3>1. a(i - 1) \in Seq(T) /\ seq[i] \in T /\ a(i) = Append(a(i - 1), seq[i])
      BY <1>3, <2>1
    <3> QED
      BY <2>2, <3>1
  <2>4. Shown(b(was(i - 1)), S, proj) = Shown(a(i - 1), S, proj)
    BY <1>6
  <2>5. CASE i = k
    <3>1. was(i - 1) = was(i)
      BY <1>1, <2>5
    <3>2. Shown(a(i), S, proj) = Shown(a(i - 1), S, proj)
      BY <2>3, <2>5
    <3> QED
      BY <2>1, <2>4, <3>1, <3>2
  <2>6. CASE i # k
    <3>1. /\ was(i) \in 1 .. n - 1 /\ was(i - 1) = was(i) - 1 /\ was(i) - 1 \in 0 .. n - 1
          /\ (IF was(i) < k THEN was(i) ELSE was(i) + 1) = i
      BY <1>1, <2>6
    <3> HIDE DEF was
    <3>2. short[was(i)] = seq[i]
      BY <1>2, <3>1
    <3>3. b(was(i)) = Append(b(was(i) - 1), seq[i]) /\ b(was(i) - 1) \in Seq(T) /\ seq[i] \in T
      BY <1>4, <3>1, <3>2
    <3>4. Shown(b(was(i)), S, proj)
            = IF seq[i] \in S THEN Append(Shown(b(was(i) - 1), S, proj), proj[seq[i]])
              ELSE Shown(b(was(i) - 1), S, proj)
      BY <2>2, <3>3
    <3>5. Shown(b(was(i) - 1), S, proj) = Shown(a(i - 1), S, proj)
      BY <2>4, <3>1
    <3>6. Shown(b(was(i)), S, proj) = Shown(a(i), S, proj)
      BY <2>3, <3>4, <3>5
    <3> QED
      BY <2>1, <3>6
  <2> QED
    BY <2>5, <2>6
<1>7. n \in H
  <2> HIDE DEF H
  <2>1. n \in 0 .. n
    BY <1>1
  <2> HIDE DEF n
  <2> QED
    BY <1>1, <1>5, <1>6, <2>1, UpTo
<1>8. was(n) = n - 1
  BY <1>1
<1> QED
  BY <1>3, <1>4, <1>7, <1>8 DEF short

\* What is not kept is not shown.
LEMMA ShownKept ==
  ASSUME NEW T, NEW seq \in Seq(T), NEW K, NEW S, NEW proj,
         \A i \in 1 .. Len(seq) : seq[i] \in S => seq[i] \in K
  PROVE  Shown(Kept(seq, K), S, proj) = Shown(seq, S, proj)
<1> DEFINE n == Len(seq)
           a(i) == SubSeq(seq, 1, i)
           H == {i \in 0 .. n : Shown(Kept(a(i), K), S, proj) = Shown(a(i), S, proj)}
<1>1. n \in Nat
  OBVIOUS
<1>2. /\ a(0) = <<>> /\ a(n) = seq
      /\ \A i \in 0 .. n : a(i) \in Seq(T)
      /\ \A i \in 1 .. n : a(i) = Append(a(i - 1), seq[i]) /\ seq[i] \in T
  BY PrefixIs
<1> HIDE DEF a
<1>3. 0 \in H
  <2>1. <<>> \in Seq(T) /\ Len(<<>>) = 0
    OBVIOUS
  <2>2. Kept(<<>>, K) \in Seq(T) /\ Len(Kept(<<>>, K)) <= 0
    BY <2>1, KeptIs
  <2>3. Kept(<<>>, K) = <<>>
    <3> DEFINE c == Kept(<<>>, K)
    <3> HIDE DEF c
    <3>1. c \in Seq(T) /\ Len(c) <= 0
      BY <2>2 DEF c
    <3>2. c = <<>>
      BY <3>1
    <3> QED
      BY <3>2 DEF c
  <2> QED
    BY <1>1, <1>2, <2>3
<1>4. ASSUME NEW i \in 1 .. n, i - 1 \in H PROVE i \in H
  <2> DEFINE c == a(i - 1)
             x == seq[i]
             kept == Kept(c, K)
  <2>1. i - 1 \in 0 .. n /\ i \in 0 .. n
    BY <1>1
  <2>2. c \in Seq(T) /\ x \in T /\ a(i) = Append(c, x)
    BY <1>2, <2>1
  <2>3. (x \in S => x \in K) /\ Shown(kept, S, proj) = Shown(c, S, proj)
    BY <1>4
  <2> HIDE DEF c, x, kept
  <2>4. Kept(Append(c, x), K) = IF x \in K THEN Append(kept, x) ELSE kept
    BY <2>2, KeptAppend DEF kept
  <2>5. kept \in Seq(T)
    BY <2>2, KeptIs DEF kept
  <2>6. /\ Shown(Append(c, x), S, proj) = IF x \in S THEN Append(Shown(c, S, proj), proj[x]) ELSE Shown(c, S, proj)
        /\ Shown(Append(kept, x), S, proj)
             = IF x \in S THEN Append(Shown(kept, S, proj), proj[x]) ELSE Shown(kept, S, proj)
    <3>1. ASSUME NEW d \in Seq(T)
          PROVE  Shown(Append(d, x), S, proj)
                   = IF x \in S THEN Append(Shown(d, S, proj), proj[x]) ELSE Shown(d, S, proj)
      BY <2>2, ShownAppend
    <3> QED
      BY <2>2, <2>5, <3>1
  <2>7. Shown(Kept(Append(c, x), K), S, proj) = Shown(Append(c, x), S, proj)
    <3>1. CASE x \in K
      BY <2>3, <2>4, <2>6, <3>1
    <3>2. CASE x \notin K
      BY <2>3, <2>4, <2>6, <3>2
    <3> QED
      BY <3>1, <3>2
  <2> QED
    BY <2>1, <2>2, <2>7
<1>5. n \in H
  <2> HIDE DEF H
  <2>1. n \in 0 .. n
    BY <1>1
  <2> HIDE DEF n
  <2> QED
    BY <1>1, <1>3, <1>4, <2>1, UpTo
<1> QED
  BY <1>2, <1>5
-----------------------------------------------------------------------------
(* Stores: what a handler works on, at every step of it. *)

GoodEntry == {e \in Entry : e.exec_pending => ~e.live}
GoodFinding == {f \in Finding : f.exec_pending => f.kind = "EXEC_INHERIT"}
Stores == {s \in [entries : Seq(GoodEntry), findings : Seq(GoodFinding),
                  ok : BOOLEAN, budget : Nat] :
             Len(s.entries) <= MaxEntries /\ Len(s.findings) <= MaxFindings}

\* What find_latest finds: 0, or an entry of the process and the resource.
Fits(e, p, r, live_only) == e.pid = p /\ e.res = r /\ (live_only => e.live)
LEMMA FindLatestIs ==
  ASSUME NEW s \in Stores, NEW p, NEW r, NEW live_only
  PROVE  /\ find_latest(s, p, r, live_only) # 0 =>
              /\ find_latest(s, p, r, live_only) \in 1 .. Len(s.entries)
              /\ Fits(s.entries[find_latest(s, p, r, live_only)], p, r, live_only)
         /\ find_latest(s, p, r, live_only) = 0 =>
              \A i \in 1 .. Len(s.entries) : ~Fits(s.entries[i], p, r, live_only)
<1> DEFINE n == Len(s.entries)
           I == {i \in 1 .. n : Fits(s.entries[i], p, r, live_only)}
           k == find_latest(s, p, r, live_only)
<1>1. k = IF I # {} THEN Max(I) ELSE 0
  BY DEF find_latest, SelectLastInSeq, Fits
<1>2. n \in Nat
  BY DEF Stores
<1>3. I # {} => Max(I) \in I
  <2>1. I \in SUBSET Nat /\ \A i \in I : i <= n
    BY <1>2
  <2> HIDE DEF I
  <2> QED
    BY <1>2, <2>1, MaxIs
<1>4. k # 0 => k \in I
  BY <1>1, <1>3
<1>5. k = 0 => I = {}
  <2>1. I # {} => k \in 1 .. n
    BY <1>1, <1>3
  <2> HIDE DEF I, k
  <2> QED
    BY <1>2, <2>1
<1> HIDE DEF k
<1> QED
  BY <1>4, <1>5 DEF k

\* What is known or live, by the entries alone.
HasEntry(es, p, r) == \E i \in 1 .. Len(es) : es[i].pid = p /\ es[i].res = r
HasLive(es, p, r) == \E i \in 1 .. Len(es) : es[i].pid = p /\ es[i].res = r /\ es[i].live
LEMMA KnownIs ==
  ASSUME NEW s \in Stores, NEW p, NEW r
  PROVE  /\ Known(s, p, r) <=> HasEntry(s.entries, p, r)
         /\ Live(s, p, r) <=> HasLive(s.entries, p, r)
         /\ Live(s, p, r) => /\ find_latest(s, p, r, TRUE) \in 1 .. Len(s.entries)
                             /\ s.entries[find_latest(s, p, r, TRUE)].pid = p
                             /\ s.entries[find_latest(s, p, r, TRUE)].res = r
                             /\ s.entries[find_latest(s, p, r, TRUE)].live
<1>1. \A e : /\ Fits(e, p, r, FALSE) <=> e.pid = p /\ e.res = r
             /\ Fits(e, p, r, TRUE) <=> e.pid = p /\ e.res = r /\ e.live
  BY DEF Fits
<1>2. /\ Known(s, p, r) => \E i \in 1 .. Len(s.entries) : Fits(s.entries[i], p, r, FALSE)
      /\ ~Known(s, p, r) => \A i \in 1 .. Len(s.entries) : ~Fits(s.entries[i], p, r, FALSE)
  BY FindLatestIs DEF Known
<1>3. /\ Live(s, p, r) => /\ find_latest(s, p, r, TRUE) \in 1 .. Len(s.entries)
                          /\ Fits(s.entries[find_latest(s, p, r, TRUE)], p, r, TRUE)
      /\ ~Live(s, p, r) => \A i \in 1 .. Len(s.entries) : ~Fits(s.entries[i], p, r, TRUE)
  BY FindLatestIs DEF Live
<1> QED
  BY <1>1, <1>2, <1>3 DEF HasEntry, HasLive

\* Entries are equal when their fields are.
LEMMA EntryFields ==
  ASSUME NEW e \in Entry, NEW d \in Entry, d.pid = e.pid, d.res = e.res,
         d.live = e.live, d.exec_pending = e.exec_pending
  PROVE  d = e
BY DEF Entry

NewEntry(p, r) == [pid |-> p, res |-> r, live |-> TRUE, exec_pending |-> FALSE]
NewFinding(kind, p, r) ==
  [kind |-> kind, pid |-> p, res |-> r, exec_pending |-> kind = "EXEC_INHERIT"]

LEMMA AddEntryIs ==
  ASSUME NEW s \in Stores, s.ok, NEW p \in Pids, NEW r \in Resources
  PROVE  /\ add_entry(s, p, r) \in Stores
         /\ add_entry(s, p, r).findings = s.findings
         /\ add_entry(s, p, r).entries =
              IF add_entry(s, p, r).ok THEN Append(s.entries, NewEntry(p, r)) ELSE s.entries
<1> DEFINE t == add_entry(s, p, r)
<1>1. /\ s \in [entries : Seq(GoodEntry), findings : Seq(GoodFinding), ok : BOOLEAN, budget : Nat]
      /\ Len(s.entries) <= MaxEntries /\ Len(s.findings) <= MaxFindings
  BY DEF Stores
<1>2. CASE Crowded(s) \/ s.budget = 0
  <2>1. t = Failed(s)
    BY <1>2 DEF add_entry
  <2>2. /\ t \in [entries : Seq(GoodEntry), findings : Seq(GoodFinding), ok : BOOLEAN, budget : Nat]
        /\ t.entries = s.entries /\ t.findings = s.findings /\ t.ok = FALSE
    BY <1>1, <2>1 DEF Failed
  <2> QED
    BY <1>1, <2>2 DEF Stores
<1>3. CASE ~(Crowded(s) \/ s.budget = 0)
  <2>1. t = [s EXCEPT !.budget = @ - 1, !.entries = Append(@, NewEntry(p, r))]
    BY <1>3 DEF add_entry, NewEntry
  <2>2. NewEntry(p, r) \in GoodEntry
    BY DEF NewEntry, GoodEntry, Entry
  <2>3. /\ Append(s.entries, NewEntry(p, r)) \in Seq(GoodEntry)
        /\ Len(Append(s.entries, NewEntry(p, r))) = Len(s.entries) + 1
    BY <1>1, <2>2
  <2>4. /\ s.budget - 1 \in Nat /\ Len(s.entries) + 1 <= MaxEntries
    BY <1>1, <1>3, LifecycleAssumption DEF Crowded
  <2>5. /\ t \in [entries : Seq(GoodEntry), findings : Seq(GoodFinding), ok : BOOLEAN, budget : Nat]
        /\ t.entries = Append(s.entries, NewEntry(p, r)) /\ t.findings = s.findings /\ t.ok = s.ok
    BY <1>1, <2>1, <2>3, <2>4
  <2> QED
    BY <1>1, <2>3, <2>4, <2>5 DEF Stores
<1> QED
  BY <1>2, <1>3

LEMMA AddFindingIs ==
  ASSUME NEW s \in Stores, s.ok, NEW kind \in Kinds, NEW p \in Pids, NEW r \in Resources
  PROVE  /\ add_finding(s, kind, p, r) \in Stores
         /\ add_finding(s, kind, p, r).entries = s.entries
         /\ add_finding(s, kind, p, r).findings =
              IF add_finding(s, kind, p, r).ok THEN Append(s.findings, NewFinding(kind, p, r))
              ELSE s.findings
<1> DEFINE t == add_finding(s, kind, p, r)
<1>1. /\ s \in [entries : Seq(GoodEntry), findings : Seq(GoodFinding), ok : BOOLEAN, budget : Nat]
      /\ Len(s.entries) <= MaxEntries /\ Len(s.findings) <= MaxFindings
  BY DEF Stores
<1>2. CASE Len(s.findings) >= MaxFindings \/ s.budget = 0
  <2>1. t = Failed(s)
    BY <1>2 DEF add_finding
  <2>2. /\ t \in [entries : Seq(GoodEntry), findings : Seq(GoodFinding), ok : BOOLEAN, budget : Nat]
        /\ t.entries = s.entries /\ t.findings = s.findings /\ t.ok = FALSE
    BY <1>1, <2>1 DEF Failed
  <2> QED
    BY <1>1, <2>2 DEF Stores
<1>3. CASE ~(Len(s.findings) >= MaxFindings \/ s.budget = 0)
  <2>1. t = [s EXCEPT !.budget = @ - 1, !.findings = Append(@, NewFinding(kind, p, r))]
    BY <1>3 DEF add_finding, NewFinding
  <2>2. NewFinding(kind, p, r) \in GoodFinding
    <3>1. (kind = "EXEC_INHERIT") \in BOOLEAN
      OBVIOUS
    <3> QED
      BY <3>1 DEF NewFinding, GoodFinding, Finding
  <2>3. /\ Append(s.findings, NewFinding(kind, p, r)) \in Seq(GoodFinding)
        /\ Len(Append(s.findings, NewFinding(kind, p, r))) = Len(s.findings) + 1
    BY <1>1, <2>2
  <2>4. /\ s.budget - 1 \in Nat /\ Len(s.findings) + 1 <= MaxFindings
    BY <1>1, <1>3, LifecycleAssumption
  <2>5. /\ t \in [entries : Seq(GoodEntry), findings : Seq(GoodFinding), ok : BOOLEAN, budget : Nat]
        /\ t.entries = s.entries /\ t.findings = Append(s.findings, NewFinding(kind, p, r)) /\ t.ok = s.ok
    BY <1>1, <2>1, <2>3, <2>4
  <2> QED
    BY <1>1, <2>3, <2>4, <2>5 DEF Stores
<1> QED
  BY <1>2, <1>3

LEMMA MarkReleasedIs ==
  ASSUME NEW s \in Stores, s.ok, NEW i \in 1 .. Len(s.entries)
  PROVE  /\ MarkReleased(s, i) \in Stores
         /\ MarkReleased(s, i).findings = s.findings
         /\ MarkReleased(s, i).entries =
              IF MarkReleased(s, i).ok THEN [s.entries EXCEPT ![i].live = FALSE] ELSE s.entries
<1> DEFINE t == MarkReleased(s, i)
           es == [s.entries EXCEPT ![i].live = FALSE]
<1>1. /\ s \in [entries : Seq(GoodEntry), findings : Seq(GoodFinding), ok : BOOLEAN, budget : Nat]
      /\ Len(s.entries) <= MaxEntries /\ Len(s.findings) <= MaxFindings
  BY DEF Stores
<1>2. CASE s.budget = 0
  <2>1. t = Failed(s)
    BY <1>2 DEF MarkReleased
  <2>2. /\ t \in [entries : Seq(GoodEntry), findings : Seq(GoodFinding), ok : BOOLEAN, budget : Nat]
        /\ t.entries = s.entries /\ t.findings = s.findings /\ t.ok = FALSE
    BY <1>1, <2>1 DEF Failed
  <2> QED
    BY <1>1, <2>2 DEF Stores
<1>3. CASE s.budget # 0
  <2>1. t = [s EXCEPT !.budget = @ - 1, !.entries = es]
    BY <1>3 DEF MarkReleased
  <2>2. es \in Seq(GoodEntry) /\ Len(es) = Len(s.entries)
    <3>1. [s.entries[i] EXCEPT !.live = FALSE] \in GoodEntry
      <4>1. s.entries[i] \in GoodEntry
        BY <1>1
      <4> QED
        BY <4>1 DEF GoodEntry, Entry
    <3>2. es = [s.entries EXCEPT ![i] = [s.entries[i] EXCEPT !.live = FALSE]]
      OBVIOUS
    <3> HIDE DEF es
    <3> QED
      BY <1>1, <3>1, <3>2
  <2>3. s.budget - 1 \in Nat
    BY <1>1, <1>3
  <2> HIDE DEF es
  <2>4. /\ t \in [entries : Seq(GoodEntry), findings : Seq(GoodFinding), ok : BOOLEAN, budget : Nat]
        /\ t.entries = es /\ t.findings = s.findings /\ t.ok = s.ok
    BY <1>1, <2>1, <2>2, <2>3
  <2> QED
    BY <1>1, <2>2, <2>4 DEF Stores, es
<1> QED
  BY <1>2, <1>3

-----------------------------------------------------------------------------
(* What a helper does to the evidence. *)

\* The releases the evidence accounts for.
Accounted(s, q, x) ==
  Matching(s.entries, ReleasedOf(q, x))
    + Count(s, "STRAY_RELEASE", q, x) + Count(s, "DOUBLE_RELEASE", q, x)

LEMMA CountsAreNatural ==
  ASSUME NEW s \in Stores, NEW q, NEW x
  PROVE  /\ Matching(s.entries, ReleasedOf(q, x)) \in Nat
         /\ \A kind : Count(s, kind, q, x) \in Nat
         /\ Accounted(s, q, x) \in Nat
<1>1. s.entries \in Seq(GoodEntry) /\ s.findings \in Seq(GoodFinding)
  BY DEF Stores
<1>2. Matching(s.entries, ReleasedOf(q, x)) \in Nat
  BY <1>1, MatchingIs
<1>3. ASSUME NEW kind PROVE Count(s, kind, q, x) \in Nat
  BY <1>1, MatchingIs DEF Count
<1> QED
  BY <1>2, <1>3 DEF Accounted

\* The counts, ownership and account depend on the evidence alone.
LEMMA SameEvidence ==
  ASSUME NEW s, NEW t, NEW q, NEW x
  PROVE  /\ t.entries = s.entries => /\ Known(t, q, x) = Known(s, q, x)
                                     /\ Live(t, q, x) = Live(s, q, x)
         /\ t.findings = s.findings => \A kind : Count(t, kind, q, x) = Count(s, kind, q, x)
BY DEF Known, Live, find_latest, Count

LEMMA EntryAppended ==
  ASSUME NEW s \in Stores, NEW t \in Stores, NEW p \in Pids, NEW r \in Resources,
         t.entries = Append(s.entries, NewEntry(p, r)), t.findings = s.findings,
         NEW q, NEW x
  PROVE  /\ Matching(t.entries, ReleasedOf(q, x)) = Matching(s.entries, ReleasedOf(q, x))
         /\ Known(t, q, x) <=> Known(s, q, x) \/ (q = p /\ x = r)
         /\ Live(t, q, x) <=> Live(s, q, x) \/ (q = p /\ x = r)
<1> DEFINE e == NewEntry(p, r)
           n == Len(s.entries)
<1>1. /\ s.entries \in Seq(GoodEntry) /\ e \in GoodEntry /\ e \notin ReleasedOf(q, x)
      /\ e.pid = p /\ e.res = r /\ e.live
  BY DEF Stores, NewEntry, GoodEntry, Entry, ReleasedOf
<1> HIDE DEF e
<1>2. Matching(Append(s.entries, e), ReleasedOf(q, x)) = Matching(s.entries, ReleasedOf(q, x))
  <2>1. Matching(s.entries, ReleasedOf(q, x)) \in Nat
    BY CountsAreNatural
  <2> DEFINE R == ReleasedOf(q, x)
  <2>2. Matching(Append(s.entries, e), R) = Matching(s.entries, R) + (IF e \in R THEN 1 ELSE 0)
    <3> HIDE DEF R
    <3> QED
      BY <1>1, MatchingAppend
  <2> QED
    BY <1>1, <2>1, <2>2
<1>3. /\ Len(t.entries) = n + 1 /\ t.entries[n + 1] = e /\ n \in Nat
      /\ \A i \in 1 .. n : t.entries[i] = s.entries[i] /\ i \in 1 .. n + 1
      /\ \A i \in 1 .. n + 1 : i = n + 1 \/ i \in 1 .. n
      /\ n + 1 \in 1 .. n + 1
  BY <1>1 DEF e
<1>4. /\ Known(t, q, x) <=> HasEntry(t.entries, q, x)
      /\ Live(t, q, x) <=> HasLive(t.entries, q, x)
      /\ Known(s, q, x) <=> HasEntry(s.entries, q, x)
      /\ Live(s, q, x) <=> HasLive(s.entries, q, x)
  BY KnownIs
<1>7. Known(t, q, x) <=> Known(s, q, x) \/ (q = p /\ x = r)
  BY <1>1, <1>3, <1>4 DEF HasEntry
<1>8. Live(t, q, x) <=> Live(s, q, x) \/ (q = p /\ x = r)
  BY <1>1, <1>3, <1>4 DEF HasLive
<1> QED
  BY <1>2, <1>7, <1>8 DEF e

LEMMA FindingAppended ==
  ASSUME NEW s \in Stores, NEW t \in Stores,
         NEW kind \in Kinds, NEW p \in Pids, NEW r \in Resources,
         t.entries = s.entries, t.findings = Append(s.findings, NewFinding(kind, p, r)),
         NEW k, NEW q, NEW x
  PROVE  Count(t, k, q, x)
           = Count(s, k, q, x) + (IF k = kind /\ q = p /\ x = r THEN 1 ELSE 0)
<1> DEFINE f == NewFinding(kind, p, r)
           R == FindingsOf(k, q, x)
<1>1. s.findings \in Seq(GoodFinding)
  BY DEF Stores
<1>2. /\ f \in GoodFinding
      /\ f \in R <=> k = kind /\ q = p /\ x = r
  <2>1. (kind = "EXEC_INHERIT") \in BOOLEAN
    OBVIOUS
  <2> QED
    BY <2>1 DEF NewFinding, GoodFinding, Finding, FindingsOf
<1>3. Matching(Append(s.findings, f), R) = Matching(s.findings, R) + (IF f \in R THEN 1 ELSE 0)
  <2> HIDE DEF R, f
  <2> QED
    BY <1>1, <1>2, MatchingAppend
<1> QED
  BY <1>2, <1>3 DEF Count

LEMMA EntryReleased ==
  ASSUME NEW s \in Stores, NEW t \in Stores, NEW p, NEW r,
         NEW i \in 1 .. Len(s.entries), Fits(s.entries[i], p, r, TRUE),
         t.entries = [s.entries EXCEPT ![i].live = FALSE], t.findings = s.findings,
         NEW q, NEW x
  PROVE  /\ Matching(t.entries, ReleasedOf(q, x))
              = Matching(s.entries, ReleasedOf(q, x)) + (IF q = p /\ x = r THEN 1 ELSE 0)
         /\ Known(t, q, x) <=> Known(s, q, x)
<1> DEFINE R == ReleasedOf(q, x)
           n == Len(s.entries)
<1>1. /\ s.entries \in Seq(GoodEntry) /\ t.entries \in Seq(GoodEntry) /\ n \in Nat
      /\ s.entries[i] \in GoodEntry /\ t.entries[i] \in GoodEntry
  <2>1. s.entries \in Seq(GoodEntry) /\ t.entries \in Seq(GoodEntry)
    BY DEF Stores
  <2>2. Len(t.entries) = Len(s.entries)
    BY <2>1
  <2> QED
    BY <2>1, <2>2
<1>2. /\ Len(t.entries) = n /\ \A j \in 1 .. n : j # i => t.entries[j] = s.entries[j]
      /\ t.entries[i] = [s.entries[i] EXCEPT !.live = FALSE]
  BY <1>1
<1>3. /\ s.entries[i] \notin R /\ s.entries[i].exec_pending = FALSE
      /\ s.entries[i].pid = p /\ s.entries[i].res = r
  BY <1>1 DEF Fits, GoodEntry, Entry, ReleasedOf
<1>4. /\ t.entries[i].pid = p /\ t.entries[i].res = r
      /\ t.entries[i].live = FALSE /\ t.entries[i].exec_pending = FALSE
  BY <1>1, <1>2, <1>3 DEF GoodEntry, Entry
<1>5. t.entries[i] \in R <=> q = p /\ x = r
  <2>1. t.entries[i] = [pid |-> p, res |-> r, live |-> FALSE, exec_pending |-> FALSE]
    BY <1>1, <1>4 DEF GoodEntry, Entry
  <2> DEFINE e == [pid |-> p, res |-> r, live |-> FALSE, exec_pending |-> FALSE]
  <2>2. e \in R <=> q = p /\ x = r
    BY DEF ReleasedOf
  <2> HIDE DEF e, R
  <2> QED
    BY <2>1, <2>2 DEF e
<1>6. Matching(t.entries, R) + (IF s.entries[i] \in R THEN 1 ELSE 0)
        = Matching(s.entries, R) + (IF t.entries[i] \in R THEN 1 ELSE 0)
  <2> DEFINE a == s.entries
             b == t.entries
  <2>1. /\ a \in Seq(GoodEntry) /\ b \in Seq(GoodEntry) /\ Len(b) = Len(a) /\ i \in 1 .. Len(a)
        /\ \A j \in 1 .. Len(a) : j # i => (a[j] \in R <=> b[j] \in R)
    BY <1>1, <1>2
  <2> HIDE DEF R, a, b
  <2>2. Matching(b, R) + (IF a[i] \in R THEN 1 ELSE 0) = Matching(a, R) + (IF b[i] \in R THEN 1 ELSE 0)
    BY <2>1, MatchingUpdate
  <2> QED
    BY <2>2 DEF a, b
<1>7. Matching(t.entries, R) \in Nat /\ Matching(s.entries, R) \in Nat
  BY CountsAreNatural
<1>8. Matching(t.entries, R) = Matching(s.entries, R) + (IF q = p /\ x = r THEN 1 ELSE 0)
  <2> HIDE DEF R
  <2> QED
    BY <1>3, <1>5, <1>6, <1>7
<1>9. \A j \in 1 .. n : t.entries[j].pid = s.entries[j].pid /\ t.entries[j].res = s.entries[j].res
  BY <1>2, <1>3, <1>4
<1>10. Known(t, q, x) <=> Known(s, q, x)
  <2>1. /\ Known(s, q, x) <=> HasEntry(s.entries, q, x)
        /\ Known(t, q, x) <=> HasEntry(t.entries, q, x)
    BY KnownIs
  <2> QED
    BY <1>2, <1>9, <2>1 DEF HasEntry
<1> QED
  BY <1>8, <1>10

\* What is shown of one process: its entries, and its findings but for leaks.
EntryShown == [e \in Entry |-> <<e.res, e.live>>]
FindingShown == [f \in Finding |-> <<f.kind, f.res>>]
EntriesOf(q) == {e \in Entry : e.pid = q}
FoundOf(q) == {f \in Finding : f.pid = q /\ f.kind # "LEAK"}
SameView(s, t, q) ==
  /\ Shown(t.entries, EntriesOf(q), EntryShown) = Shown(s.entries, EntriesOf(q), EntryShown)
  /\ Shown(t.findings, FoundOf(q), FindingShown) = Shown(s.findings, FoundOf(q), FindingShown)
\* Only what is shown of p may differ.
Spares(s, t, p) == \A q \in Pids \ {p} : SameView(s, t, q)

LEMMA StoreSequences ==
  ASSUME NEW s \in Stores
  PROVE  /\ s.entries \in Seq(GoodEntry) /\ s.findings \in Seq(GoodFinding)
         /\ \A i \in 1 .. Len(s.entries) : s.entries[i] \in Entry
         /\ \A i \in 1 .. Len(s.findings) : s.findings[i] \in Finding
<1>1. s.entries \in Seq(GoodEntry) /\ s.findings \in Seq(GoodFinding)
  BY DEF Stores
<1>2. ASSUME NEW i \in 1 .. Len(s.entries) PROVE s.entries[i] \in GoodEntry
  BY <1>1
<1>3. ASSUME NEW i \in 1 .. Len(s.findings) PROVE s.findings[i] \in GoodFinding
  BY <1>1
<1> QED
  BY <1>1, <1>2, <1>3 DEF GoodEntry, GoodFinding

\* The entries of q are shown the same when, place by place, they are of the
\* same process and, where that is q, of the same resource and as live.
LEMMA EntriesAlike ==
  ASSUME NEW s \in Stores, NEW t \in Stores, NEW q, Len(t.entries) = Len(s.entries),
         \A i \in 1 .. Len(s.entries) :
           /\ t.entries[i].pid = s.entries[i].pid
           /\ s.entries[i].pid = q => /\ t.entries[i].res = s.entries[i].res
                                      /\ t.entries[i].live = s.entries[i].live
  PROVE  Shown(t.entries, EntriesOf(q), EntryShown) = Shown(s.entries, EntriesOf(q), EntryShown)
<1> DEFINE a == s.entries
           b == t.entries
           S == EntriesOf(q)
<1>1. a \in Seq(GoodEntry) /\ b \in Seq(GoodEntry) /\ Len(b) = Len(a)
  BY StoreSequences
<1>2. ASSUME NEW i \in 1 .. Len(a) PROVE Alike(a[i], b[i], S, EntryShown)
  <2>1. a[i] \in Entry /\ b[i] \in Entry
    BY <1>1, StoreSequences
  <2>2. b[i].pid = a[i].pid /\ (a[i].pid = q => b[i].res = a[i].res /\ b[i].live = a[i].live)
    OBVIOUS
  <2> DEFINE x == a[i]
             y == b[i]
  <2> HIDE DEF x, y
  <2>3. (x \in S <=> y \in S) /\ (x \in S => x.pid = q)
    BY <2>1, <2>2 DEF x, y, EntriesOf
  <2>4. EntryShown[x] = <<x.res, x.live>> /\ EntryShown[y] = <<y.res, y.live>>
    BY <2>1 DEF x, y, EntryShown
  <2>5. Alike(x, y, S, EntryShown)
    BY <2>2, <2>3, <2>4 DEF Alike, x, y
  <2> QED
    BY <2>5 DEF x, y
<1> HIDE DEF a, b, S
<1>3. Shown(b, S, EntryShown) = Shown(a, S, EntryShown)
  BY <1>1, <1>2, ShownAlike
<1> QED
  BY <1>3 DEF a, b, S

\* A new entry is shown of its own process only.
LEMMA EntrySpared ==
  ASSUME NEW s \in Stores, NEW t, NEW p \in Pids, NEW r \in Resources,
         t.entries = Append(s.entries, NewEntry(p, r)), t.findings = s.findings
  PROVE  Spares(s, t, p)
<1>1. ASSUME NEW q \in Pids \ {p} PROVE SameView(s, t, q)
  <2> DEFINE a == s.entries
             x == NewEntry(p, r)
             S == EntriesOf(q)
  <2>1. a \in Seq(GoodEntry) /\ x \in GoodEntry
    BY StoreSequences DEF NewEntry, GoodEntry, Entry
  <2>2. x \notin S
    BY DEF NewEntry, EntriesOf
  <2> HIDE DEF a, x, S
  <2>3. Shown(Append(a, x), S, EntryShown) = Shown(a, S, EntryShown)
    BY <2>1, <2>2, ShownAppend
  <2> QED
    BY <2>3 DEF SameView, a, x, S
<1> QED
  BY <1>1 DEF Spares

\* A new finding likewise, and a leak is not shown of any.
LEMMA FindingSpared ==
  ASSUME NEW s \in Stores, NEW t, NEW kind \in Kinds, NEW p \in Pids, NEW r \in Resources, NEW q,
         t.entries = s.entries, t.findings = Append(s.findings, NewFinding(kind, p, r)),
         q # p \/ kind = "LEAK"
  PROVE  SameView(s, t, q)
<1> DEFINE a == s.findings
           x == NewFinding(kind, p, r)
           S == FoundOf(q)
<1>1. a \in Seq(GoodFinding) /\ x \in GoodFinding
  <2>1. (kind = "EXEC_INHERIT") \in BOOLEAN
    OBVIOUS
  <2> QED
    BY <2>1, StoreSequences DEF NewFinding, GoodFinding, Finding
<1>2. x \notin S
  BY DEF NewFinding, FoundOf
<1> HIDE DEF a, x, S
<1>3. Shown(Append(a, x), S, FindingShown) = Shown(a, S, FindingShown)
  BY <1>1, <1>2, ShownAppend
<1> QED
  BY <1>3 DEF SameView, a, x, S

LEMMA SparesComposes ==
  ASSUME NEW s, NEW t, NEW u, NEW p, Spares(s, t, p), Spares(t, u, p)
  PROVE  Spares(s, u, p)
BY DEF Spares, SameView

\* What every handler but an exec rollback keeps to, taking s to t: what is
\* known stays known, no leak is recorded and none withdrawn, a finding is
\* withdrawn only if it is a stray release of what becomes known, and a
\* success accounts for the releases rs of process p.
Advances(s, t, p, rs) ==
  /\ t \in Stores
  /\ t.ok => s.ok
  /\ \A q \in Pids, x \in Resources :
       /\ Known(s, q, x) => Known(t, q, x)
       /\ Count(t, "LEAK", q, x) = Count(s, "LEAK", q, x)
       /\ \A kind \in Kinds : Count(t, kind, q, x) < Count(s, kind, q, x)
            => kind = "STRAY_RELEASE" /\ ~Known(s, q, x) /\ Known(t, q, x)
       /\ t.ok => Accounted(t, q, x) = Accounted(s, q, x) + (IF q = p /\ x \in rs THEN 1 ELSE 0)
\* And no process but p is touched.
Progress(s, t, p, rs) == Advances(s, t, p, rs) /\ Spares(s, t, p)

LEMMA ProgressStutters ==
  ASSUME NEW s \in Stores, NEW t \in Stores, t.entries = s.entries, t.findings = s.findings,
         t.ok => s.ok, NEW p, NEW rs, t.ok => rs = {}
  PROVE  Progress(s, t, p, rs)
<1>1. ASSUME NEW q \in Pids, NEW x \in Resources
      PROVE  /\ Known(t, q, x) = Known(s, q, x)
             /\ \A kind : Count(t, kind, q, x) = Count(s, kind, q, x) /\ Count(s, kind, q, x) \in Nat
             /\ Accounted(t, q, x) = Accounted(s, q, x) /\ Accounted(s, q, x) \in Nat
  <2>1. /\ Known(t, q, x) = Known(s, q, x)
        /\ \A kind : Count(t, kind, q, x) = Count(s, kind, q, x)
    BY SameEvidence
  <2>2. Accounted(t, q, x) = Accounted(s, q, x)
    BY <2>1 DEF Accounted
  <2> QED
    BY <2>1, <2>2, CountsAreNatural
<1>2. t.ok => \A q \in Pids, x \in Resources : Accounted(s, q, x) + (IF q = p /\ x \in rs THEN 1 ELSE 0) = Accounted(s, q, x)
  BY <1>1
<1>3. Spares(s, t, p)
  BY DEF Spares, SameView
<1> QED
  BY <1>1, <1>2, <1>3 DEF Progress, Advances

LEMMA ProgressComposes ==
  ASSUME NEW s \in Stores, NEW t, NEW u, NEW p, NEW r1, NEW r2, NEW rs,
         Progress(s, t, p, r1), Progress(t, u, p, r2), 
         \/ r1 = rs /\ r2 = {}
         \/ r1 = {} /\ r2 = rs
  PROVE  Progress(s, u, p, rs)
<1>1. t \in Stores /\ u \in Stores /\ (u.ok => t.ok) /\ (t.ok => s.ok)
  BY DEF Progress, Advances
<1>2. ASSUME NEW q \in Pids, NEW x \in Resources
      PROVE  /\ Known(s, q, x) => Known(u, q, x)
             /\ Count(u, "LEAK", q, x) = Count(s, "LEAK", q, x)
  BY DEF Progress, Advances
<1>3. ASSUME NEW q \in Pids, NEW x \in Resources, NEW kind \in Kinds,
             Count(u, kind, q, x) < Count(s, kind, q, x)
      PROVE  kind = "STRAY_RELEASE" /\ ~Known(s, q, x) /\ Known(u, q, x)
  <2>1. /\ Count(s, kind, q, x) \in Nat /\ Count(t, kind, q, x) \in Nat /\ Count(u, kind, q, x) \in Nat
    BY <1>1, CountsAreNatural
  <2>2. Count(u, kind, q, x) < Count(t, kind, q, x) \/ Count(t, kind, q, x) < Count(s, kind, q, x)
    BY <1>3, <2>1
  <2>3. /\ Known(s, q, x) => Known(t, q, x)
        /\ Known(t, q, x) => Known(u, q, x)
    BY DEF Progress, Advances
  <2>4. Count(t, kind, q, x) < Count(s, kind, q, x)
          => kind = "STRAY_RELEASE" /\ ~Known(s, q, x) /\ Known(t, q, x)
    BY DEF Progress, Advances
  <2>5. Count(u, kind, q, x) < Count(t, kind, q, x)
          => kind = "STRAY_RELEASE" /\ ~Known(t, q, x) /\ Known(u, q, x)
    BY DEF Progress, Advances
  <2> QED
    BY <2>2, <2>3, <2>4, <2>5
<1>4. ASSUME u.ok, NEW q \in Pids, NEW x \in Resources
      PROVE  Accounted(u, q, x) = Accounted(s, q, x) + (IF q = p /\ x \in rs THEN 1 ELSE 0)
  <2>1. /\ Accounted(t, q, x) = Accounted(s, q, x) + (IF q = p /\ x \in r1 THEN 1 ELSE 0)
        /\ Accounted(u, q, x) = Accounted(t, q, x) + (IF q = p /\ x \in r2 THEN 1 ELSE 0)
    BY <1>1, <1>4 DEF Progress, Advances
  <2>2. Accounted(s, q, x) \in Nat
    BY CountsAreNatural
  <2> QED
    BY <2>1, <2>2
<1>5. Spares(s, u, p)
  BY SparesComposes DEF Progress
<1> QED
  BY <1>1, <1>2, <1>3, <1>4, <1>5 DEF Progress, Advances

LEMMA AddEntryProgress ==
  ASSUME NEW s \in Stores, s.ok, NEW p \in Pids, NEW r \in Resources
  PROVE  /\ Progress(s, add_entry(s, p, r), p, {})
         /\ add_entry(s, p, r).ok => Live(add_entry(s, p, r), p, r) /\ Known(add_entry(s, p, r), p, r)
<1> DEFINE t == add_entry(s, p, r)
<1>1. /\ t \in Stores /\ t.findings = s.findings
      /\ t.entries = IF t.ok THEN Append(s.entries, NewEntry(p, r)) ELSE s.entries
  BY AddEntryIs
<1> HIDE DEF t
<1>2. CASE t.ok
  <2>0. t.entries = Append(s.entries, NewEntry(p, r))
    BY <1>1, <1>2
  <2>1. ASSUME NEW q, NEW x
        PROVE  /\ Matching(t.entries, ReleasedOf(q, x)) = Matching(s.entries, ReleasedOf(q, x))
               /\ Known(t, q, x) <=> Known(s, q, x) \/ (q = p /\ x = r)
               /\ Live(t, q, x) <=> Live(s, q, x) \/ (q = p /\ x = r)
    BY <1>1, <2>0, EntryAppended
  <2>2. ASSUME NEW q, NEW x
        PROVE  \A kind : Count(t, kind, q, x) = Count(s, kind, q, x) /\ Count(s, kind, q, x) \in Nat
    <3>1. \A kind : Count(t, kind, q, x) = Count(s, kind, q, x)
      BY <1>1, SameEvidence
    <3>2. \A kind : Count(s, kind, q, x) \in Nat
      BY CountsAreNatural
    <3> QED
      BY <3>1, <3>2
  <2>3. ASSUME NEW q, NEW x PROVE Accounted(t, q, x) = Accounted(s, q, x) /\ Accounted(s, q, x) \in Nat
    BY <2>1, <2>2, CountsAreNatural DEF Accounted
  <2>4. Spares(s, t, p)
    BY <1>1, <2>0, EntrySpared
  <2> QED
    BY <1>1, <2>1, <2>2, <2>3, <2>4 DEF Progress, Advances, t
<1>3. CASE ~t.ok
  BY <1>1, <1>3, ProgressStutters DEF t
<1> QED
  BY <1>2, <1>3

\* The releases a finding stands for.
ReleaseKinds == {"STRAY_RELEASE", "DOUBLE_RELEASE"}
LEMMA AddFindingProgress ==
  ASSUME NEW s \in Stores, s.ok, NEW kind \in Kinds \ {"LEAK"}, NEW p \in Pids, NEW r \in Resources
  PROVE  Progress(s, add_finding(s, kind, p, r), p, IF kind \in ReleaseKinds THEN {r} ELSE {})
<1> DEFINE t == add_finding(s, kind, p, r)
           rs == IF kind \in ReleaseKinds THEN {r} ELSE {}
<1>1. /\ t \in Stores /\ t.entries = s.entries
      /\ t.findings = IF t.ok THEN Append(s.findings, NewFinding(kind, p, r)) ELSE s.findings
  BY AddFindingIs
<1> HIDE DEF t
<1>2. CASE t.ok
  <2>1. ASSUME NEW q, NEW x, NEW k
        PROVE  /\ Count(t, k, q, x) = Count(s, k, q, x) + (IF k = kind /\ q = p /\ x = r THEN 1 ELSE 0)
               /\ Count(s, k, q, x) \in Nat
    <3>1. t.findings = Append(s.findings, NewFinding(kind, p, r))
      BY <1>1, <1>2
    <3>2. Count(t, k, q, x) = Count(s, k, q, x) + (IF k = kind /\ q = p /\ x = r THEN 1 ELSE 0)
      BY <1>1, <3>1, FindingAppended
    <3>3. Count(s, k, q, x) \in Nat
      BY CountsAreNatural
    <3> QED
      BY <3>2, <3>3
  <2>2. ASSUME NEW q, NEW x PROVE Known(t, q, x) = Known(s, q, x)
    BY <1>1, SameEvidence
  <2>3. ASSUME NEW q, NEW x
        PROVE  Accounted(t, q, x) = Accounted(s, q, x) + (IF q = p /\ x \in rs THEN 1 ELSE 0)
    <3> DEFINE m == Matching(s.entries, ReleasedOf(q, x))
               a == Count(s, "STRAY_RELEASE", q, x)
               b == Count(s, "DOUBLE_RELEASE", q, x)
    <3>1. /\ Accounted(s, q, x) = m + a + b
          /\ Accounted(t, q, x) = m + (a + (IF "STRAY_RELEASE" = kind /\ q = p /\ x = r THEN 1 ELSE 0))
                                    + (b + (IF "DOUBLE_RELEASE" = kind /\ q = p /\ x = r THEN 1 ELSE 0))
      BY <1>1, <2>1 DEF Accounted
    <3>2. m \in Nat /\ a \in Nat /\ b \in Nat
      BY CountsAreNatural
    <3> HIDE DEF m, a, b
    <3> QED
      BY <3>1, <3>2 DEF ReleaseKinds
  <2>4. \A q, x, k : ~(Count(t, k, q, x) < Count(s, k, q, x))
    BY <2>1
  <2>5. \A q, x : Count(t, "LEAK", q, x) = Count(s, "LEAK", q, x)
    BY <2>1
  <2>6. Spares(s, t, p)
    <3>1. t.findings = Append(s.findings, NewFinding(kind, p, r)) /\ kind \in Kinds
      BY <1>1, <1>2
    <3>2. ASSUME NEW q \in Pids \ {p} PROVE SameView(s, t, q)
      BY <1>1, <3>1, FindingSpared
    <3> QED
      BY <3>2 DEF Spares
  <2> HIDE DEF rs
  <2> QED
    BY <1>1, <2>2, <2>3, <2>4, <2>5, <2>6 DEF Progress, Advances, t, rs
<1>3. CASE ~t.ok
  BY <1>1, <1>3, ProgressStutters DEF t
<1> QED
  BY <1>2, <1>3

LEMMA ReleaseProgress ==
  ASSUME NEW s \in Stores, s.ok, NEW p \in Pids, NEW r \in Resources
  PROVE  Progress(s, release_entry(s, p, r), p, {r})
<1>1. CASE Live(s, p, r)
  <2> DEFINE i == find_latest(s, p, r, TRUE)
             t == MarkReleased(s, i)
  <2>1. i \in 1 .. Len(s.entries) /\ Fits(s.entries[i], p, r, TRUE)
    BY <1>1, FindLatestIs DEF Live
  <2> HIDE DEF i
  <2>2. /\ t \in Stores /\ t.findings = s.findings
        /\ t.entries = IF t.ok THEN [s.entries EXCEPT ![i].live = FALSE] ELSE s.entries
    BY <2>1, MarkReleasedIs
  <2>3. release_entry(s, p, r) = t
    BY <1>1 DEF release_entry, i
  <2> HIDE DEF t
  <2>4. CASE t.ok
    <3>1. t.entries = [s.entries EXCEPT ![i].live = FALSE]
      BY <2>2, <2>4
    <3>2. ASSUME NEW q, NEW x
          PROVE  /\ Matching(t.entries, ReleasedOf(q, x))
                      = Matching(s.entries, ReleasedOf(q, x)) + (IF q = p /\ x = r THEN 1 ELSE 0)
                 /\ Known(t, q, x) <=> Known(s, q, x)
      BY <2>1, <2>2, <3>1, EntryReleased
    <3>3. ASSUME NEW q, NEW x
          PROVE  \A kind : Count(t, kind, q, x) = Count(s, kind, q, x) /\ Count(s, kind, q, x) \in Nat
      <4>1. \A kind : Count(t, kind, q, x) = Count(s, kind, q, x)
        BY <2>2, SameEvidence
      <4>2. \A kind : Count(s, kind, q, x) \in Nat
        BY CountsAreNatural
      <4> QED
        BY <4>1, <4>2
    <3>4. ASSUME NEW q, NEW x
          PROVE  Accounted(t, q, x) = Accounted(s, q, x) + (IF q = p /\ x \in {r} THEN 1 ELSE 0)
      <4>1. Matching(s.entries, ReleasedOf(q, x)) \in Nat
        BY CountsAreNatural
      <4> QED
        BY <3>2, <3>3, <4>1 DEF Accounted
    <3>5. Spares(s, t, p)
      <4> DEFINE a == s.entries
      <4>1. a \in Seq(GoodEntry) /\ a[i] \in Entry /\ \A j \in 1 .. Len(a) : a[j] \in Entry
        BY <2>1, StoreSequences
      <4>2. t.entries = [a EXCEPT ![i] = [a[i] EXCEPT !.live = FALSE]]
        BY <3>1
      <4>3. ASSUME NEW j \in 1 .. Len(a)
            PROVE  t.entries[j].pid = a[j].pid /\ (j # i => t.entries[j] = a[j])
        <5> DEFINE e == [a[i] EXCEPT !.live = FALSE]
        <5>1. e.pid = a[i].pid
          BY <4>1 DEF Entry
        <5> HIDE DEF e, a
        <5> QED
          BY <4>1, <4>2, <5>1 DEF e
      <4>4. Len(t.entries) = Len(a)
        <5> HIDE DEF a
        <5> QED
          BY <4>1, <4>2
      <4>5. a[i].pid = p
        BY <2>1 DEF Fits
      <4>6. ASSUME NEW q \in Pids \ {p} PROVE SameView(s, t, q)
        <5>1. ASSUME NEW j \in 1 .. Len(s.entries)
              PROVE  /\ t.entries[j].pid = s.entries[j].pid
                     /\ s.entries[j].pid = q => /\ t.entries[j].res = s.entries[j].res
                                                /\ t.entries[j].live = s.entries[j].live
          BY <4>3, <4>5
        <5>2. Len(t.entries) = Len(s.entries)
          BY <4>4
        <5>3. Shown(t.entries, EntriesOf(q), EntryShown) = Shown(s.entries, EntriesOf(q), EntryShown)
          BY <2>2, <5>1, <5>2, EntriesAlike
        <5> QED
          BY <2>2, <5>3 DEF SameView
      <4> QED
        BY <4>6 DEF Spares
    <3> QED
      BY <2>2, <2>3, <3>2, <3>3, <3>4, <3>5 DEF Progress, Advances
  <2>5. CASE ~t.ok
    <3>1. t.entries = s.entries
      BY <2>2, <2>5
    <3> QED
      BY <2>2, <2>3, <2>5, <3>1, ProgressStutters
  <2> QED
    BY <2>4, <2>5
<1>2. CASE ~Live(s, p, r)
  <2>1. Unowned(s, p, r) \in Kinds \ {"LEAK"} /\ Unowned(s, p, r) \in ReleaseKinds
    BY DEF Unowned, Kinds, ReleaseKinds
  <2>2. Progress(s, add_finding(s, Unowned(s, p, r), p, r), p, {r})
    BY <2>1, AddFindingProgress
  <2> QED
    BY <1>2, <2>2 DEF release_entry
<1> QED
  BY <1>1, <1>2

LEMMA AcquireProgress ==
  ASSUME NEW s \in Stores, s.ok, NEW p \in Pids, NEW r \in Resources
  PROVE  /\ Progress(s, Acquire(s, p, r), p, {})
         /\ Acquire(s, p, r).ok => Live(Acquire(s, p, r), p, r)
<1> DEFINE t == IF Live(s, p, r) THEN add_finding(s, "DUPLICATE_ACQUIRE", p, r) ELSE s
           u == add_entry(t, p, r)
<1>1. Progress(s, t, p, {})
  <2>1. "DUPLICATE_ACQUIRE" \in Kinds \ {"LEAK"} /\ "DUPLICATE_ACQUIRE" \notin ReleaseKinds
    BY DEF Kinds, ReleaseKinds
  <2>2. Progress(s, add_finding(s, "DUPLICATE_ACQUIRE", p, r), p, {})
    BY <2>1, AddFindingProgress
  <2>3. Progress(s, s, p, {})
    BY ProgressStutters
  <2> QED
    BY <2>2, <2>3
<1>2. Acquire(s, p, r) = IF t.ok THEN u ELSE t
  BY DEF Acquire
<1> HIDE DEF t
<1>3. t \in Stores
  BY <1>1 DEF Progress, Advances
<1>4. CASE t.ok
  <2>1. Progress(t, u, p, {}) /\ (u.ok => Live(u, p, r))
    BY <1>3, <1>4, AddEntryProgress
  <2> HIDE DEF u
  <2>2. Progress(s, u, p, {})
    BY <1>1, <2>1, ProgressComposes
  <2> QED
    BY <1>2, <1>4, <2>1, <2>2
<1>5. CASE ~t.ok
  BY <1>1, <1>2, <1>5
<1> QED
  BY <1>4, <1>5

LEMMA ReplaceProgress ==
  ASSUME NEW s \in Stores, s.ok, NEW p \in Pids, NEW r \in Resources,
         NEW related \in Resources \cup {Null}
  PROVE  Progress(s, Replace(s, p, r, related), p, IF related = Null THEN {} ELSE {r})
<1>1. CASE related = Null
  <2>1. "BAD_REPLACE" \in Kinds \ {"LEAK"} /\ "BAD_REPLACE" \notin ReleaseKinds
    BY DEF Kinds, ReleaseKinds
  <2>2. Progress(s, add_finding(s, "BAD_REPLACE", p, r), p, {})
    BY <2>1, AddFindingProgress
  <2> QED
    BY <1>1, <2>2 DEF Replace
<1>2. CASE related # Null
  <2> DEFINE t == release_entry(s, p, r)
             u == add_entry(t, p, related)
  <2>1. Progress(s, t, p, {r})
    BY ReleaseProgress
  <2>2. Replace(s, p, r, related) = IF t.ok THEN u ELSE t
    BY <1>2 DEF Replace
  <2> HIDE DEF t
  <2>3. t \in Stores /\ related \in Resources
    BY <1>2, <2>1 DEF Progress, Advances
  <2>4. t.ok => Progress(t, u, p, {})
    BY <2>3, AddEntryProgress
  <2> HIDE DEF u
  <2>5. t.ok => Progress(s, u, p, {r})
    BY <2>1, <2>4, ProgressComposes
  <2> QED
    BY <1>2, <2>1, <2>2, <2>5
<1> QED
  BY <1>1, <1>2

LEMMA UseProgress ==
  ASSUME NEW s \in Stores, s.ok, NEW p \in Pids, NEW r \in Resources
  PROVE  Progress(s, Use(s, p, r), p, {})
<1>1. "INVALID_USE" \in Kinds \ {"LEAK"} /\ "INVALID_USE" \notin ReleaseKinds
  BY DEF Kinds, ReleaseKinds
<1>2. Progress(s, add_finding(s, "INVALID_USE", p, r), p, {})
  BY <1>1, AddFindingProgress
<1>3. Progress(s, s, p, {})
  BY ProgressStutters
<1> QED
  BY <1>2, <1>3 DEF Use

LEMMA ReallocateProgress ==
  ASSUME NEW s \in Stores, s.ok, NEW p \in Pids,
         NEW a \in Ptrs \cup {Null}, NEW new \in Ptrs \cup {Null}
  PROVE  Progress(s, Reallocate(s, p, a, new), p,
                  IF new # Null /\ a # Null /\ Live(s, p, a) THEN {a} ELSE {})
<1> DEFINE released == release_entry(s, p, a)
           bad == add_finding(s, "BAD_REPLACE", p, a)
           acquire(t) == IF t.ok /\ new # Null THEN Acquire(t, p, new) ELSE t
<1>1. Reallocate(s, p, a, new) =
        IF a = Null THEN acquire(s)
        ELSE IF ~Live(s, p, a) THEN acquire(bad)
        ELSE IF new = Null THEN s ELSE acquire(released)
  BY DEF Reallocate
<1>2. ASSUME NEW t, NEW rs, Progress(s, t, p, rs) PROVE Progress(s, acquire(t), p, rs)
  <2>1. CASE t.ok /\ new # Null
    <3>1. t \in Stores /\ new \in Resources
      BY <1>2, <2>1 DEF Progress, Advances, Resources
    <3>2. Progress(t, Acquire(t, p, new), p, {})
      BY <2>1, <3>1, AcquireProgress
    <3>3. Progress(s, Acquire(t, p, new), p, rs)
      BY <1>2, <3>2, ProgressComposes
    <3> QED
      BY <2>1, <3>3
  <2>2. CASE ~(t.ok /\ new # Null)
    BY <1>2, <2>2
  <2> QED
    BY <2>1, <2>2
<1>3. Progress(s, s, p, {})
  BY ProgressStutters
<1>4. CASE a = Null
  <2>1. Progress(s, acquire(s), p, {})
    BY <1>2, <1>3
  <2> HIDE DEF acquire
  <2> QED
    BY <1>1, <1>4, <2>1
<1>5. CASE a # Null /\ ~Live(s, p, a)
  <2>1. "BAD_REPLACE" \in Kinds \ {"LEAK"} /\ "BAD_REPLACE" \notin ReleaseKinds /\ a \in Resources
    BY <1>5 DEF Kinds, ReleaseKinds, Resources
  <2>2. Progress(s, bad, p, {})
    BY <2>1, AddFindingProgress
  <2>3. Progress(s, acquire(bad), p, {})
    <3> HIDE DEF bad
    <3> QED
      BY <1>2, <2>2
  <2> HIDE DEF acquire, bad
  <2> QED
    BY <1>1, <1>5, <2>3
<1>6. CASE a # Null /\ Live(s, p, a) /\ new = Null
  BY <1>1, <1>3, <1>6
<1>7. CASE a # Null /\ Live(s, p, a) /\ new # Null
  <2>1. Progress(s, released, p, {a})
    BY <1>7, ReleaseProgress DEF Resources
  <2>2. Progress(s, acquire(released), p, {a})
    <3> HIDE DEF released
    <3> QED
      BY <1>2, <2>1
  <2> HIDE DEF acquire, released
  <2> QED
    BY <1>1, <1>7, <2>2
<1> QED
  BY <1>4, <1>5, <1>6, <1>7

\* A close-on-exec descriptor is released and marked, in one entry.
Closed(p, r, pending) == [pid |-> p, res |-> r, live |-> FALSE, exec_pending |-> pending]
LEMMA ExecCloses ==
  ASSUME NEW s \in Stores, s.ok, NEW p \in Pids, NEW r \in Fds, Live(s, p, r),
         Exec(s, p, r, TRUE).ok
  PROVE  LET i == find_latest(s, p, r, TRUE)
             u == Exec(s, p, r, TRUE)
         IN  /\ i \in 1 .. Len(s.entries) /\ Fits(s.entries[i], p, r, TRUE)
             /\ u \in Stores /\ u.findings = s.findings
             /\ Len(u.entries) = Len(s.entries) /\ u.entries[i] = Closed(p, r, TRUE)
             /\ \A j \in 1 .. Len(s.entries) : j # i => u.entries[j] = s.entries[j]
<1> DEFINE i == find_latest(s, p, r, TRUE)
           u == Exec(s, p, r, TRUE)
           t == release_entry(s, p, r)
           v == [t EXCEPT !.entries[i].exec_pending = TRUE]
<1>1. i \in 1 .. Len(s.entries) /\ Fits(s.entries[i], p, r, TRUE)
  BY FindLatestIs DEF Live
<1>2. t = MarkReleased(s, i)
  BY DEF release_entry
<1>3. u = IF ~t.ok THEN t ELSE v
  BY DEF Exec
<1>0. u.ok
  OBVIOUS
<1> HIDE DEF t, i, u
<1>4. /\ t \in Stores /\ t.findings = s.findings
      /\ t.entries = IF t.ok THEN [s.entries EXCEPT ![i].live = FALSE] ELSE s.entries
  BY <1>2, <1>1, MarkReleasedIs
<1>5. t.ok /\ u = v
  BY <1>0, <1>3
<1> DEFINE old == s.entries[i]
           mark == Closed(p, r, TRUE)
           es == [s.entries EXCEPT ![i] = mark]
<1>6. /\ s \in [entries : Seq(GoodEntry), findings : Seq(GoodFinding), ok : BOOLEAN, budget : Nat]
      /\ t \in [entries : Seq(GoodEntry), findings : Seq(GoodFinding), ok : BOOLEAN, budget : Nat]
      /\ Len(s.entries) <= MaxEntries /\ Len(t.findings) <= MaxFindings
  BY <1>4 DEF Stores
<1>7. old \in GoodEntry /\ mark \in GoodEntry
  <2>1. old \in GoodEntry
    BY <1>1, <1>6
  <2>2. r \in Resources
    BY DEF Resources
  <2> QED
    BY <2>1, <2>2 DEF GoodEntry, Entry, Closed
<1>8. v = [t EXCEPT !.entries = es]
  <2>1. t.entries = [s.entries EXCEPT ![i] = [old EXCEPT !.live = FALSE]]
    BY <1>4, <1>5
  <2>2. [[old EXCEPT !.live = FALSE] EXCEPT !.exec_pending = TRUE] = mark
    <3> DEFINE one == [old EXCEPT !.live = FALSE]
               two == [one EXCEPT !.exec_pending = TRUE]
    <3>1. old \in Entry /\ old.pid = p /\ old.res = r
      BY <1>1, <1>7 DEF Fits, GoodEntry
    <3> HIDE DEF old
    <3>2. one \in Entry /\ one.pid = p /\ one.res = r /\ one.live = FALSE
      BY <3>1 DEF Entry
    <3> HIDE DEF one
    <3>3. /\ two \in Entry /\ two.pid = p /\ two.res = r
          /\ two.live = FALSE /\ two.exec_pending = TRUE
      BY <3>2 DEF Entry
    <3>4. /\ mark \in Entry /\ mark.pid = p /\ mark.res = r
          /\ mark.live = FALSE /\ mark.exec_pending = TRUE
      BY <1>7 DEF GoodEntry, Closed
    <3> HIDE DEF two, mark
    <3>5. two = mark
      BY <3>3, <3>4, EntryFields
    <3> QED
      BY <3>5 DEF one, two
  <2> DEFINE off == [old EXCEPT !.live = FALSE]
  <2>3. [t.entries EXCEPT ![i].exec_pending = TRUE] = [t.entries EXCEPT ![i] = [off EXCEPT !.exec_pending = TRUE]]
    <3>1. i \in DOMAIN t.entries /\ t.entries[i] = off
      <4> DEFINE a == s.entries
      <4>1. a \in Seq(GoodEntry) /\ i \in 1 .. Len(a) /\ t.entries = [a EXCEPT ![i] = off]
        BY <1>1, <1>6, <2>1
      <4> HIDE DEF off, a
      <4> QED
        BY <4>1
    <3> QED
      BY <3>1
  <2>4. [t.entries EXCEPT ![i].exec_pending = TRUE] = es
    BY <1>6, <2>1, <2>2, <2>3, <1>1
  <2>5. v = [t EXCEPT !.entries = [t.entries EXCEPT ![i].exec_pending = TRUE]]
    OBVIOUS
  <2> HIDE DEF v, es
  <2> QED
    BY <2>4, <2>5
<1>9. es \in Seq(GoodEntry) /\ Len(es) = Len(s.entries)
  <2> HIDE DEF mark
  <2> QED
    BY <1>1, <1>6, <1>7
<1>10. /\ v \in Stores /\ v.entries = es /\ v.findings = s.findings /\ v.ok
  <2> HIDE DEF es
  <2>1. /\ v \in [entries : Seq(GoodEntry), findings : Seq(GoodFinding), ok : BOOLEAN, budget : Nat]
        /\ v.entries = es /\ v.findings = s.findings /\ v.ok = t.ok
    BY <1>4, <1>6, <1>8, <1>9
  <2> HIDE DEF v
  <2> QED
    BY <1>4, <1>5, <1>6, <1>9, <2>1 DEF Stores
<1>11. es[i] = mark /\ \A j \in 1 .. Len(s.entries) : j # i => es[j] = s.entries[j]
  <2> HIDE DEF mark
  <2> QED
    BY <1>1, <1>6
<1> HIDE DEF v, es, mark
<1> QED
  BY <1>1, <1>5, <1>9, <1>10, <1>11 DEF mark, i, u

LEMMA ExecProgress ==
  ASSUME NEW s \in Stores, s.ok, NEW p \in Pids, NEW r \in Fds, NEW closing \in BOOLEAN
  PROVE  Progress(s, Exec(s, p, r, closing), p, {})
<1> DEFINE i == find_latest(s, p, r, TRUE)
           t == release_entry(s, p, r)
           u == [t EXCEPT !.entries[i].exec_pending = TRUE]
<1>1. Exec(s, p, r, closing) =
        IF ~Live(s, p, r) THEN s
        ELSE IF ~closing THEN add_finding(s, "EXEC_INHERIT", p, r)
        ELSE IF ~t.ok THEN t ELSE u
  BY DEF Exec
<1>2. CASE ~Live(s, p, r)
  BY <1>1, <1>2, ProgressStutters
<1>3. CASE Live(s, p, r) /\ ~closing
  <2>1. "EXEC_INHERIT" \in Kinds \ {"LEAK"} /\ "EXEC_INHERIT" \notin ReleaseKinds /\ r \in Resources
    BY DEF Kinds, ReleaseKinds, Resources
  <2>2. Progress(s, add_finding(s, "EXEC_INHERIT", p, r), p, {})
    BY <2>1, AddFindingProgress
  <2> QED
    BY <1>1, <1>3, <2>2
<1>4. CASE Live(s, p, r) /\ closing
  <2>1. t = MarkReleased(s, i)
    BY <1>4 DEF release_entry
  <2>2. i \in 1 .. Len(s.entries) /\ Fits(s.entries[i], p, r, TRUE)
    BY <1>4, FindLatestIs DEF Live
  <2>3. Exec(s, p, r, closing) = IF ~t.ok THEN t ELSE u
    BY <1>1, <1>4
  <2> HIDE DEF i, t
  <2>4. /\ t \in Stores /\ t.findings = s.findings
        /\ t.entries = IF t.ok THEN [s.entries EXCEPT ![i].live = FALSE] ELSE s.entries
    BY <2>1, <2>2, MarkReleasedIs
  <2>5. CASE ~t.ok
    <3>1. t.entries = s.entries
      BY <2>4, <2>5
    <3> QED
      BY <2>3, <2>4, <2>5, <3>1, ProgressStutters
  <2>6. CASE t.ok
    <3> DEFINE es == u.entries
               mark == Closed(p, r, TRUE)
    <3>1. u = Exec(s, p, r, TRUE)
      BY <1>4, <2>3, <2>6
    <3>2. u.ok
      BY <2>6
    <3> HIDE DEF u
    <3>3. /\ u \in Stores /\ u.findings = s.findings
          /\ Len(u.entries) = Len(s.entries) /\ u.entries[i] = Closed(p, r, TRUE)
          /\ \A j \in 1 .. Len(s.entries) : j # i => u.entries[j] = s.entries[j]
      <4>1. Exec(s, p, r, TRUE).ok
        BY <3>1, <3>2
      <4> QED
        BY <1>4, <3>1, <4>1, ExecCloses DEF i
    <3>4. /\ s.entries \in Seq(GoodEntry) /\ es \in Seq(GoodEntry)
          /\ Len(es) = Len(s.entries)
      BY <3>3 DEF Stores
    <3>5. /\ u \in Stores /\ u.entries = es /\ u.findings = s.findings /\ u.ok
      BY <3>2, <3>3
    <3>6. \A j \in 1 .. Len(s.entries) : j # i => es[j] = s.entries[j]
      BY <3>3
    <3>7. es[i] = mark
      BY <3>3
    <3>8. ASSUME NEW q, NEW x
          PROVE  /\ Matching(es, ReleasedOf(q, x)) = Matching(s.entries, ReleasedOf(q, x))
                 /\ Known(u, q, x) <=> Known(s, q, x)
      <4> DEFINE R == ReleasedOf(q, x)
                 a == s.entries
      <4>1. mark \notin R
        BY DEF ReleasedOf, Closed
      <4>2. s.entries[i] \notin R
        BY <2>2 DEF Fits, ReleasedOf
      <4>3. /\ a \in Seq(GoodEntry) /\ es \in Seq(GoodEntry) /\ Len(es) = Len(a) /\ i \in 1 .. Len(a)
            /\ \A j \in 1 .. Len(a) : (a[j] \in R <=> es[j] \in R)
        <5> HIDE DEF mark, es
        <5> QED
          BY <2>2, <3>4, <3>6, <3>7, <4>1, <4>2
      <4>4. Matching(es, R) = Matching(a, R)
        <5> HIDE DEF R, es, a
        <5> QED
          BY <4>3, MatchingSame
      <4>5. \A j \in 1 .. Len(a) : es[j].pid = a[j].pid /\ es[j].res = a[j].res
        BY <2>2, <3>6, <3>7 DEF Fits, Closed
      <4>6. Known(u, q, x) <=> HasEntry(es, q, x)
        <5>1. u \in Stores /\ u.entries = es
          BY <3>5
        <5> HIDE DEF u, es
        <5>2. Known(u, q, x) <=> HasEntry(u.entries, q, x)
          BY <5>1, KnownIs
        <5> QED
          BY <5>1, <5>2
      <4>7. Known(s, q, x) <=> HasEntry(a, q, x)
        BY KnownIs
      <4> HIDE DEF es, a, u
      <4>8. HasEntry(es, q, x) <=> HasEntry(a, q, x)
        BY <4>3, <4>5 DEF HasEntry
      <4> QED
        BY <4>4, <4>6, <4>7, <4>8 DEF a
    <3> HIDE DEF u, es
    <3>9. ASSUME NEW q, NEW x
          PROVE  \A kind : Count(u, kind, q, x) = Count(s, kind, q, x) /\ Count(s, kind, q, x) \in Nat
      <4>1. \A kind : Count(u, kind, q, x) = Count(s, kind, q, x)
        BY <3>5, SameEvidence
      <4>2. \A kind : Count(s, kind, q, x) \in Nat
        BY CountsAreNatural
      <4> QED
        BY <4>1, <4>2
    <3>10. ASSUME NEW q, NEW x
           PROVE  Accounted(u, q, x) = Accounted(s, q, x) /\ Accounted(s, q, x) \in Nat
      BY <3>5, <3>8, <3>9, CountsAreNatural DEF Accounted
    <3>11. Spares(s, u, p)
      <4>1. s.entries[i].pid = p /\ es[i].pid = p
        BY <2>2, <3>7 DEF Fits, Closed
      <4>2. ASSUME NEW j \in 1 .. Len(s.entries)
            PROVE  es[j].pid = s.entries[j].pid /\ (j # i => es[j] = s.entries[j])
        BY <3>6, <4>1
      <4>3. ASSUME NEW q \in Pids \ {p} PROVE SameView(s, u, q)
        <5>1. Shown(u.entries, EntriesOf(q), EntryShown) = Shown(s.entries, EntriesOf(q), EntryShown)
          BY <3>4, <3>5, <4>1, <4>2, EntriesAlike
        <5> QED
          BY <3>5, <5>1 DEF SameView
      <4> QED
        BY <4>3 DEF Spares
    <3>12. Progress(s, u, p, {})
      BY <3>5, <3>8, <3>9, <3>10, <3>11 DEF Progress, Advances
    <3> QED
      BY <2>3, <2>6, <3>12
  <2> QED
    BY <2>5, <2>6
<1> QED
  BY <1>2, <1>3, <1>4

\* A provisional stray release is withdrawn, if there is one.
LEMMA TakeStrayIs ==
  ASSUME NEW s \in Stores, NEW p, NEW r
  PROVE  /\ take_stray_release(s, p, r) \in Stores
         /\ take_stray_release(s, p, r).entries = s.entries
         /\ take_stray_release(s, p, r).ok = s.ok
         /\ \A k, q, x : Count(take_stray_release(s, p, r), k, q, x)
              = Count(s, k, q, x) - (IF /\ k = "STRAY_RELEASE" /\ q = p /\ x = r
                                        /\ Count(s, "STRAY_RELEASE", p, r) # 0
                                     THEN 1 ELSE 0)
         /\ \A R : R \cap FindingsOf("STRAY_RELEASE", p, r) = {} =>
              Matching(take_stray_release(s, p, r).findings, R) = Matching(s.findings, R)
         /\ Spares(s, take_stray_release(s, p, r), p)
<1> DEFINE t == take_stray_release(s, p, r)
           S == FindingsOf("STRAY_RELEASE", p, r)
           fs == s.findings
           gs == RemoveFirstMatch(fs, LAMBDA f : f \in S)
           I == {i \in 1 .. Len(fs) : fs[i] \in S}
<1>1. /\ s \in [entries : Seq(GoodEntry), findings : Seq(GoodFinding), ok : BOOLEAN, budget : Nat]
      /\ Len(s.entries) <= MaxEntries /\ Len(fs) <= MaxFindings /\ fs \in Seq(GoodFinding)
  BY DEF Stores
<1>2. t = [s EXCEPT !.findings = gs]
  BY DEF take_stray_release
<1>3. gs = IF I # {} THEN RemoveAt(fs, Min(I)) ELSE fs
  <2>1. gs = IF \E i \in 1 .. Len(fs) : fs[i] \in S
             THEN RemoveAt(fs, IF I # {} THEN Min(I) ELSE 0) ELSE fs
    BY DEF RemoveFirstMatch, SelectInSeq
  <2>2. (\E i \in 1 .. Len(fs) : fs[i] \in S) <=> I # {}
    OBVIOUS
  <2> HIDE DEF gs, I, fs, S
  <2> QED
    BY <2>1, <2>2
<1>4. Count(s, "STRAY_RELEASE", p, r) # 0 <=> I # {}
  <2>1. Matching(fs, S) = 0 <=> \A i \in 1 .. Len(fs) : fs[i] \notin S
    <3> HIDE DEF fs, S
    <3> QED
      BY <1>1, MatchingIs
  <2> QED
    BY <2>1 DEF Count
<1>5. I # {} => Min(I) \in I
  <2>1. I \in SUBSET Nat
    OBVIOUS
  <2> HIDE DEF I
  <2> QED
    BY <2>1, MinIs
<1>6. /\ gs \in Seq(GoodFinding) /\ Len(gs) <= Len(fs)
      /\ \A R : I # {} => Matching(fs, R) = Matching(gs, R) + (IF fs[Min(I)] \in R THEN 1 ELSE 0)
  <2>1. CASE I = {}
    <3>1. gs = fs
      BY <1>3, <2>1
    <3> HIDE DEF gs, fs
    <3> QED
      BY <1>1, <2>1, <3>1
  <2>2. CASE I # {}
    <3>1. gs = RemoveAt(fs, Min(I)) /\ Min(I) \in 1 .. Len(fs)
      BY <1>3, <1>5, <2>2
    <3> DEFINE k == Min(I)
    <3> HIDE DEF gs, fs, k
    <3>2. gs = RemoveAt(fs, k) /\ k \in 1 .. Len(fs)
      BY <3>1 DEF k
    <3>3. RemoveAt(fs, k) \in Seq(GoodFinding) /\ Len(RemoveAt(fs, k)) = Len(fs) - 1
      BY <1>1, <3>2, MatchingRemove
    <3>4. ASSUME NEW R
          PROVE  Matching(fs, R) = Matching(RemoveAt(fs, k), R) + (IF fs[k] \in R THEN 1 ELSE 0)
      BY <1>1, <3>2, MatchingRemove
    <3>5. Len(fs) - 1 <= Len(fs)
      BY <1>1
    <3>6. gs \in Seq(GoodFinding) /\ Len(gs) <= Len(fs)
      BY <3>2, <3>3, <3>5
    <3>7. \A R : Matching(fs, R) = Matching(gs, R) + (IF fs[k] \in R THEN 1 ELSE 0)
      BY <3>2, <3>4
    <3> QED
      BY <3>6, <3>7 DEF k
  <2> QED
    BY <2>1, <2>2
<1>7. /\ t \in Stores /\ t.entries = s.entries /\ t.ok = s.ok /\ t.findings = gs
  <2> HIDE DEF gs
  <2>1. /\ t \in [entries : Seq(GoodEntry), findings : Seq(GoodFinding), ok : BOOLEAN, budget : Nat]
        /\ t.entries = s.entries /\ t.ok = s.ok /\ t.findings = gs
    BY <1>1, <1>2, <1>6
  <2>2. Len(gs) <= MaxFindings
    <3>1. Len(gs) \in Nat /\ Len(fs) \in Nat
      BY <1>1, <1>6
    <3> HIDE DEF fs
    <3> QED
      BY <1>1, <1>6, <3>1, LifecycleAssumption
  <2> HIDE DEF t
  <2> QED
    BY <1>1, <2>1, <2>2 DEF Stores
<1>8. ASSUME NEW k, NEW q, NEW x
      PROVE  Count(t, k, q, x)
              = Count(s, k, q, x) - (IF /\ k = "STRAY_RELEASE" /\ q = p /\ x = r
                                        /\ Count(s, "STRAY_RELEASE", p, r) # 0
                                     THEN 1 ELSE 0)
  <2> DEFINE R == FindingsOf(k, q, x)
  <2>1. Count(t, k, q, x) = Matching(gs, R) /\ Count(s, k, q, x) = Matching(fs, R)
    BY <1>7 DEF Count
  <2>2. Matching(gs, R) \in Nat /\ Matching(fs, R) \in Nat
    <3> HIDE DEF gs, fs, R
    <3> QED
      BY <1>1, <1>6, MatchingIs
  <2>3. CASE I = {}
    <3>1. gs = fs
      BY <1>3, <2>3
    <3> HIDE DEF gs, fs, R, I, t
    <3> QED
      BY <1>4, <2>1, <2>2, <2>3, <3>1
  <2>4. CASE I # {}
    <3>1. fs[Min(I)] \in S
      BY <1>5, <2>4
    <3>2. fs[Min(I)] \in R <=> k = "STRAY_RELEASE" /\ q = p /\ x = r
      <4> DEFINE f == fs[Min(I)]
      <4> HIDE DEF f
      <4> QED
        BY <3>1 DEF FindingsOf, f
    <3>3. Matching(fs, R) = Matching(gs, R) + (IF fs[Min(I)] \in R THEN 1 ELSE 0)
      BY <1>6, <2>4
    <3> HIDE DEF gs, fs, R, I, t
    <3> QED
      BY <1>4, <2>1, <2>2, <2>4, <3>2, <3>3
  <2> QED
    BY <2>3, <2>4
<1>9. ASSUME NEW R, R \cap S = {} PROVE Matching(t.findings, R) = Matching(s.findings, R)
  <2>1. CASE I = {}
    BY <1>3, <1>7, <2>1
  <2>2. CASE I # {}
    <3>1. fs[Min(I)] \in S
      BY <1>5, <2>2
    <3>2. fs[Min(I)] \notin R
      BY <1>9, <3>1
    <3>3. Matching(fs, R) = Matching(gs, R) + 0
      BY <1>6, <2>2, <3>2
    <3>4. Matching(gs, R) \in Nat
      <4> HIDE DEF gs
      <4> QED
        BY <1>6, MatchingIs
    <3> HIDE DEF gs, t
    <3> QED
      BY <1>7, <3>3, <3>4
  <2> QED
    BY <2>1, <2>2
<1>10. Spares(s, t, p)
  <2>1. ASSUME NEW q \in Pids \ {p} PROVE Shown(gs, FoundOf(q), FindingShown) = Shown(fs, FoundOf(q), FindingShown)
    <3>1. CASE I = {}
      <4>1. gs = fs
        BY <1>3, <3>1
      <4> QED
        BY <4>1
    <3>2. CASE I # {}
      <4> DEFINE k == Min(I)
                 F == FoundOf(q)
      <4>1. gs = RemoveAt(fs, k) /\ k \in 1 .. Len(fs) /\ fs[k] \in S
        BY <1>3, <1>5, <3>2
      <4>2. fs[k] \notin F
        BY <4>1 DEF FindingsOf, FoundOf
      <4> HIDE DEF gs, fs, k, F
      <4>3. Shown(RemoveAt(fs, k), F, FindingShown) = Shown(fs, F, FindingShown)
        BY <1>1, <4>1, <4>2, ShownRemove
      <4> QED
        BY <4>1, <4>3 DEF F
    <3> QED
      BY <3>1, <3>2
  <2> HIDE DEF gs, t
  <2> QED
    BY <1>7, <2>1 DEF Spares, SameView
<1> QED
  BY <1>7, <1>8, <1>9, <1>10

\* A release of what is known, and what it does to the entries: at most one of
\* them is no longer live, and that is one of this process and resource.
Solo(es, p, r) ==
  \A i, j \in 1 .. Len(es) :
    es[i].pid = p /\ es[i].res = r /\ es[j].pid = p /\ es[j].res = r => i = j
LEMMA ReleaseKnown ==
  ASSUME NEW s \in Stores, s.ok, NEW p \in Pids, NEW r \in Resources, Known(s, p, r)
  PROVE  /\ \A q, x : /\ Known(release_entry(s, p, r), q, x) <=> Known(s, q, x)
                      /\ q # p \/ x # r => (Live(release_entry(s, p, r), q, x) <=> Live(s, q, x))
                      /\ Count(release_entry(s, p, r), "STRAY_RELEASE", q, x)
                           = Count(s, "STRAY_RELEASE", q, x)
         /\ Solo(s.entries, p, r) =>
              /\ Solo(release_entry(s, p, r).entries, p, r)
              /\ release_entry(s, p, r).ok => ~Live(release_entry(s, p, r), p, r)
<1> DEFINE t == release_entry(s, p, r)
<1>1. CASE Live(s, p, r)
  <2> DEFINE i == find_latest(s, p, r, TRUE)
             a == s.entries
             b == t.entries
  <2>1. i \in 1 .. Len(s.entries) /\ Fits(s.entries[i], p, r, TRUE)
    BY <1>1, FindLatestIs DEF Live
  <2>2. t = MarkReleased(s, i)
    BY <1>1 DEF release_entry
  <2> HIDE DEF i, t
  <2>3. /\ t \in Stores /\ t.findings = s.findings
        /\ b = IF t.ok THEN [a EXCEPT ![i].live = FALSE] ELSE a
    BY <2>1, <2>2, MarkReleasedIs
  <2>4. a \in Seq(GoodEntry) /\ b \in Seq(GoodEntry) /\ a[i] \in GoodEntry
    <3>1. a \in Seq(GoodEntry) /\ b \in Seq(GoodEntry)
      BY <2>3 DEF Stores
    <3>2. i \in 1 .. Len(a)
      BY <2>1
    <3> HIDE DEF a, b
    <3> QED
      BY <3>1, <3>2
  <2>5. /\ Len(b) = Len(a)
        /\ \A j \in 1 .. Len(a) : j # i => b[j] = a[j]
        /\ t.ok => b[i] = [a[i] EXCEPT !.live = FALSE]
        /\ ~t.ok => b[i] = a[i]
    BY <2>1, <2>3, <2>4
  <2>6. /\ a[i].pid = p /\ a[i].res = r /\ b[i].pid = p /\ b[i].res = r
        /\ t.ok => b[i].live = FALSE
    <3>1. a[i].pid = p /\ a[i].res = r
      BY <2>1 DEF Fits
    <3> DEFINE e == a[i]
    <3>2. e \in GoodEntry => /\ [e EXCEPT !.live = FALSE].pid = e.pid
                             /\ [e EXCEPT !.live = FALSE].res = e.res
                             /\ [e EXCEPT !.live = FALSE].live = FALSE
      <4> HIDE DEF e
      <4> QED
        BY DEF GoodEntry, Entry
    <3> HIDE DEF b
    <3> QED
      BY <2>4, <2>5, <3>1, <3>2
  <2> HIDE DEF a, b
  <2>7. \A j \in 1 .. Len(a) : b[j].pid = a[j].pid /\ b[j].res = a[j].res
    BY <2>5, <2>6
  <2>8. ASSUME NEW q, NEW x
        PROVE  /\ HasEntry(b, q, x) <=> HasEntry(a, q, x)
               /\ q # p \/ x # r => (HasLive(b, q, x) <=> HasLive(a, q, x))
    <3>1. HasEntry(b, q, x) <=> HasEntry(a, q, x)
      BY <2>5, <2>7 DEF HasEntry
    <3>2. q # p \/ x # r => (HasLive(b, q, x) <=> HasLive(a, q, x))
      BY <2>5, <2>6 DEF HasLive
    <3> QED
      BY <3>1, <3>2
  <2>9. ASSUME NEW q, NEW x
        PROVE  /\ Known(t, q, x) <=> Known(s, q, x)
               /\ q # p \/ x # r => (Live(t, q, x) <=> Live(s, q, x))
               /\ Count(t, "STRAY_RELEASE", q, x) = Count(s, "STRAY_RELEASE", q, x)
    <3>1. /\ Known(t, q, x) <=> HasEntry(b, q, x)
          /\ Live(t, q, x) <=> HasLive(b, q, x)
      BY <2>3, KnownIs DEF b
    <3>2. /\ Known(s, q, x) <=> HasEntry(a, q, x)
          /\ Live(s, q, x) <=> HasLive(a, q, x)
      BY KnownIs DEF a
    <3>3. Count(t, "STRAY_RELEASE", q, x) = Count(s, "STRAY_RELEASE", q, x)
      BY <2>3, SameEvidence
    <3> QED
      BY <2>8, <3>1, <3>2, <3>3
  <2>10. ASSUME Solo(a, p, r) PROVE Solo(b, p, r) /\ (t.ok => ~Live(t, p, r))
    <3>1. Solo(b, p, r)
      BY <2>5, <2>7, <2>10 DEF Solo
    <3>2. t.ok => ~HasLive(b, p, r)
      BY <2>1, <2>5, <2>6, <3>1 DEF Solo, HasLive, a
    <3>3. Live(t, p, r) <=> HasLive(b, p, r)
      BY <2>3, KnownIs DEF b
    <3> QED
      BY <3>1, <3>2, <3>3
  <2> QED
    BY <2>9, <2>10 DEF a, b, t
<1>2. CASE ~Live(s, p, r)
  <2>1. t = add_finding(s, "DOUBLE_RELEASE", p, r)
    BY <1>2 DEF release_entry, Unowned
  <2> HIDE DEF t
  <2>2. "DOUBLE_RELEASE" \in Kinds
    BY DEF Kinds
  <2>3. /\ t \in Stores /\ t.entries = s.entries
        /\ t.findings = IF t.ok THEN Append(s.findings, NewFinding("DOUBLE_RELEASE", p, r))
                        ELSE s.findings
    BY <2>1, <2>2, AddFindingIs
  <2>4. ASSUME NEW q, NEW x
        PROVE  /\ Known(t, q, x) = Known(s, q, x) /\ Live(t, q, x) = Live(s, q, x)
    BY <2>3, SameEvidence
  <2>5. ASSUME NEW q, NEW x
        PROVE  Count(t, "STRAY_RELEASE", q, x) = Count(s, "STRAY_RELEASE", q, x)
    <3>1. CASE t.ok
      <4>1. t.findings = Append(s.findings, NewFinding("DOUBLE_RELEASE", p, r))
        BY <2>3, <3>1
      <4>2. Count(t, "STRAY_RELEASE", q, x) = Count(s, "STRAY_RELEASE", q, x)
              + (IF "STRAY_RELEASE" = "DOUBLE_RELEASE" /\ q = p /\ x = r THEN 1 ELSE 0)
        BY <2>2, <2>3, <4>1, FindingAppended
      <4>3. Count(s, "STRAY_RELEASE", q, x) \in Nat
        BY CountsAreNatural
      <4> QED
        BY <4>2, <4>3
    <3>2. CASE ~t.ok
      BY <2>3, <3>2, SameEvidence
    <3> QED
      BY <3>1, <3>2
  <2> QED
    BY <1>2, <2>3, <2>4, <2>5 DEF t
<1> QED
  BY <1>1, <1>2

\* Of s, the first n provisional stray releases of a known resource r of p
\* were replayed, which left t.
Replayed(s, t, p, r, n) ==
  /\ t \in Stores
  /\ \A q \in Pids, x \in Resources :
       /\ Known(t, q, x) <=> Known(s, q, x)
       /\ Count(t, "LEAK", q, x) = Count(s, "LEAK", q, x)
       /\ \A kind \in Kinds : Count(t, kind, q, x) < Count(s, kind, q, x)
            => kind = "STRAY_RELEASE" /\ q = p /\ x = r
       /\ q # p \/ x # r =>
            /\ Live(t, q, x) <=> Live(s, q, x)
            /\ Count(t, "STRAY_RELEASE", q, x) = Count(s, "STRAY_RELEASE", q, x)
       /\ t.ok => Accounted(t, q, x) = Accounted(s, q, x)
  /\ t.ok => Count(t, "STRAY_RELEASE", p, r) = Count(s, "STRAY_RELEASE", p, r) - n
  /\ Solo(s.entries, p, r) => /\ Solo(t.entries, p, r)
                              /\ t.ok => (Live(t, p, r) <=> n = 0 /\ Live(s, p, r))
  /\ Spares(s, t, p)

LEMMA ReplayIsStore ==
  ASSUME NEW t \in Stores, NEW p \in Pids, NEW r \in Resources
  PROVE  Replay(t, p, r) \in Stores
<1> DEFINE w == take_stray_release(t, p, r)
<1>1. w \in Stores /\ w.ok = t.ok
  BY TakeStrayIs
<1> HIDE DEF w
<1>2. t.ok => release_entry(w, p, r) \in Stores
  BY <1>1, ReleaseProgress DEF Progress, Advances
<1> QED
  BY <1>2 DEF Replay, w

LEMMA ReplayOnce ==
  ASSUME NEW s \in Stores, NEW t, NEW p \in Pids, NEW r \in Resources, NEW n \in Nat,
         n < Count(s, "STRAY_RELEASE", p, r), Known(s, p, r), Replayed(s, t, p, r, n)
  PROVE  Replayed(s, Replay(t, p, r), p, r, n + 1)
<1> DEFINE w == take_stray_release(t, p, r)
           u == release_entry(w, p, r)
<1>1. t \in Stores /\ Count(s, "STRAY_RELEASE", p, r) \in Nat
  BY CountsAreNatural DEF Replayed
<1>2. CASE ~t.ok
  <2>1. Replay(t, p, r) = t
    BY <1>2 DEF Replay
  <2> QED
    BY <1>2, <2>1 DEF Replayed
<1>3. CASE t.ok
  <2>1. Replay(t, p, r) = u
    BY <1>3 DEF Replay
  <2>2. /\ Count(t, "STRAY_RELEASE", p, r) = Count(s, "STRAY_RELEASE", p, r) - n
        /\ Count(t, "STRAY_RELEASE", p, r) # 0
    <3>1. Count(t, "STRAY_RELEASE", p, r) = Count(s, "STRAY_RELEASE", p, r) - n
      BY <1>3 DEF Replayed
    <3> QED
      BY <1>1, <3>1
  <2>3. /\ w \in Stores /\ w.entries = t.entries /\ w.ok
        /\ \A k, q, x : Count(w, k, q, x)
             = Count(t, k, q, x) - (IF k = "STRAY_RELEASE" /\ q = p /\ x = r THEN 1 ELSE 0)
        /\ Spares(t, w, p)
    BY <1>1, <1>3, <2>2, TakeStrayIs
  <2> HIDE DEF w
  <2>4. ASSUME NEW q, NEW x PROVE Known(w, q, x) = Known(t, q, x) /\ Live(w, q, x) = Live(t, q, x)
    BY <2>3, SameEvidence
  <2>5. Known(w, p, r)
    BY <2>4 DEF Replayed
  <2>6. /\ \A q, x : /\ Known(u, q, x) <=> Known(w, q, x)
                     /\ q # p \/ x # r => (Live(u, q, x) <=> Live(w, q, x))
                     /\ Count(u, "STRAY_RELEASE", q, x) = Count(w, "STRAY_RELEASE", q, x)
        /\ Solo(w.entries, p, r) => Solo(u.entries, p, r) /\ (u.ok => ~Live(u, p, r))
    BY <2>3, <2>5, ReleaseKnown
  <2>7. Progress(w, u, p, {r})
    BY <2>3, ReleaseProgress
  <2> HIDE DEF u
  <2>8. u \in Stores
    BY <2>7 DEF Progress, Advances
  <2>9. ASSUME NEW q \in Pids, NEW x \in Resources
        PROVE  /\ Known(u, q, x) <=> Known(s, q, x)
               /\ Count(u, "LEAK", q, x) = Count(s, "LEAK", q, x)
               /\ q # p \/ x # r =>
                    /\ Live(u, q, x) <=> Live(s, q, x)
                    /\ Count(u, "STRAY_RELEASE", q, x) = Count(s, "STRAY_RELEASE", q, x)
    <3>1. Known(u, q, x) <=> Known(s, q, x)
      BY <2>4, <2>6 DEF Replayed
    <3>2. Count(u, "LEAK", q, x) = Count(s, "LEAK", q, x)
      <4>1. Count(u, "LEAK", q, x) = Count(w, "LEAK", q, x)
        BY <2>7 DEF Progress, Advances
      <4>2. Count(w, "LEAK", q, x) = Count(t, "LEAK", q, x) - 0 /\ Count(t, "LEAK", q, x) \in Nat
        BY <1>1, <2>3, CountsAreNatural
      <4>3. Count(t, "LEAK", q, x) = Count(s, "LEAK", q, x)
        BY DEF Replayed
      <4> QED
        BY <4>1, <4>2, <4>3
    <3>3. ASSUME q # p \/ x # r
          PROVE  /\ Live(u, q, x) <=> Live(s, q, x)
                 /\ Count(u, "STRAY_RELEASE", q, x) = Count(s, "STRAY_RELEASE", q, x)
      <4>1. Live(u, q, x) <=> Live(t, q, x)
        BY <2>4, <2>6, <3>3
      <4>2. Count(u, "STRAY_RELEASE", q, x) = Count(t, "STRAY_RELEASE", q, x) - 0
        BY <2>3, <2>6, <3>3
      <4>3. Count(t, "STRAY_RELEASE", q, x) \in Nat
        BY <1>1, CountsAreNatural
      <4>4. /\ Live(t, q, x) <=> Live(s, q, x)
            /\ Count(t, "STRAY_RELEASE", q, x) = Count(s, "STRAY_RELEASE", q, x)
        BY <3>3 DEF Replayed
      <4> QED
        BY <4>1, <4>2, <4>3, <4>4
    <3> QED
      BY <3>1, <3>2, <3>3
  <2>10. ASSUME NEW q \in Pids, NEW x \in Resources, NEW kind \in Kinds,
                Count(u, kind, q, x) < Count(s, kind, q, x)
         PROVE  kind = "STRAY_RELEASE" /\ q = p /\ x = r
    <3>1. /\ Count(s, kind, q, x) \in Nat /\ Count(t, kind, q, x) \in Nat
          /\ Count(w, kind, q, x) \in Nat /\ Count(u, kind, q, x) \in Nat
      BY <1>1, <2>3, <2>8, CountsAreNatural
    <3>2. CASE Count(u, kind, q, x) < Count(w, kind, q, x)
      <4>1. kind = "STRAY_RELEASE"
        BY <2>7, <3>2 DEF Progress, Advances
      <4>2. Count(u, kind, q, x) = Count(w, kind, q, x)
        BY <2>6, <4>1
      <4> QED
        BY <3>1, <3>2, <4>2
    <3>3. CASE Count(w, kind, q, x) < Count(t, kind, q, x)
      BY <2>3, <3>1, <3>3
    <3>4. CASE Count(t, kind, q, x) < Count(s, kind, q, x)
      BY <3>4 DEF Replayed
    <3> QED
      BY <2>10, <3>1, <3>2, <3>3, <3>4
  <2>11. ASSUME u.ok, NEW q \in Pids, NEW x \in Resources
         PROVE  Accounted(u, q, x) = Accounted(s, q, x)
    <3> DEFINE one == IF q = p /\ x = r THEN 1 ELSE 0
    <3>1. Accounted(u, q, x) = Accounted(w, q, x) + (IF q = p /\ x \in {r} THEN 1 ELSE 0)
      BY <2>7, <2>11 DEF Progress, Advances
    <3>2. Accounted(w, q, x) + one = Accounted(t, q, x)
      <4> DEFINE m == Matching(t.entries, ReleasedOf(q, x))
                 a == Count(t, "STRAY_RELEASE", q, x)
                 b == Count(t, "DOUBLE_RELEASE", q, x)
      <4>1. Accounted(t, q, x) = m + a + b /\ m \in Nat /\ a \in Nat /\ b \in Nat
        BY <1>1, CountsAreNatural DEF Accounted
      <4>2. Accounted(w, q, x) = m + (a - one) + (b - 0)
        BY <2>3 DEF Accounted
      <4> HIDE DEF m, a, b
      <4> QED
        BY <4>1, <4>2
    <3>3. Accounted(t, q, x) = Accounted(s, q, x) /\ Accounted(t, q, x) \in Nat
      BY <1>1, <1>3, CountsAreNatural DEF Replayed
    <3>4. Accounted(w, q, x) \in Nat
      BY <2>3, CountsAreNatural
    <3> QED
      BY <3>1, <3>2, <3>3, <3>4
  <2>12. Count(u, "STRAY_RELEASE", p, r) = Count(s, "STRAY_RELEASE", p, r) - (n + 1)
    <3>1. Count(u, "STRAY_RELEASE", p, r) = Count(t, "STRAY_RELEASE", p, r) - 1
      BY <2>3, <2>6
    <3> QED
      BY <1>1, <2>2, <3>1
  <2>13. Solo(s.entries, p, r) =>
           Solo(u.entries, p, r) /\ (u.ok => (Live(u, p, r) <=> n + 1 = 0 /\ Live(s, p, r)))
    BY <2>3, <2>6 DEF Replayed
  <2>14. Spares(s, u, p)
    <3>1. Spares(s, t, p) /\ Spares(t, w, p) /\ Spares(w, u, p)
      BY <2>3, <2>7 DEF Replayed, Progress
    <3> QED
      BY <3>1, SparesComposes
  <2> QED
    BY <2>1, <2>8, <2>9, <2>10, <2>11, <2>12, <2>13, <2>14 DEF Replayed
<1> QED
  BY <1>2, <1>3

\* The loop of reconcile_stray_releases: one more finding is replayed each turn.
ReconcileSteps(f, s, p, r) ==
  LET n == Count(s, "STRAY_RELEASE", p, r)
  IN  /\ f[0] = s /\ \A i \in 1 .. n : f[i] = Replay(f[i - 1], p, r)
      /\ reconcile_stray_releases(s, p, r) = f[n]
LEMMA ReconcileUnfolds ==
  ASSUME NEW s \in Stores, NEW p \in Pids, NEW r \in Resources
  PROVE  \E f : ReconcileSteps(f, s, p, r)
<1> DEFINE n == Count(s, "STRAY_RELEASE", p, r)
           Body(f, i) == IF i = 0 THEN s ELSE Replay(f[i - 1], p, r)
           step == [x \in (1 .. n) \X Stores |-> Replay(x[2], p, r)]
           f == CHOOSE f : f = [i \in 0 .. n |-> Body(f, i)]
<1>1. n \in Nat
  BY CountsAreNatural
<1>2. reconcile_stray_releases(s, p, r) = f[n]
  BY DEF reconcile_stray_releases
<1> HIDE DEF n
<1>3. f[0] = s /\ \A i \in 1 .. n : f[i] = Replay(f[i - 1], p, r)
  <2>1. /\ step \in [(1 .. n) \X Stores -> Stores]
        /\ \A i \in 1 .. n, t \in Stores : step[<<i, t>>] = Replay(t, p, r)
    BY ReplayIsStore
  <2> HIDE DEF step
  <2>2. PICK g : Takes(g, n, Stores, s, step)
    BY <1>1, <2>1, Iterated
  <2>3. ASSUME NEW i \in 1 .. n PROVE i - 1 \in 0 .. n /\ g[i] = Replay(g[i - 1], p, r)
    <3>1. i - 1 \in 0 .. n
      BY <1>1
    <3>2. g[i - 1] \in Stores /\ g[i] = step[<<i, g[i - 1]>>]
      BY <2>2, <3>1 DEF Takes
    <3> QED
      BY <2>1, <3>1, <3>2
  <2>4. \A i \in 0 .. n : g[i] = Body(g, i)
    BY <1>1, <2>2, <2>3 DEF Takes
  <2>5. g = [i \in 0 .. n |-> Body(g, i)]
    <3> HIDE DEF Body
    <3> QED
      BY <2>2, <2>4 DEF Takes
  <2>6. f = [i \in 0 .. n |-> Body(f, i)]
    <3> HIDE DEF Body
    <3> QED
      BY <2>5
  <2>7. \A i \in 0 .. n : f[i] = Body(f, i)
    <3> HIDE DEF Body, f
    <3> QED
      BY <2>6
  <2> HIDE DEF f
  <2> QED
    BY <1>1, <2>7
<1> QED
  BY <1>2, <1>3 DEF n, ReconcileSteps

\* All provisional stray releases of a known resource are replayed.
LEMMA ReconcileIs ==
  ASSUME NEW s \in Stores, NEW p \in Pids, NEW r \in Resources, Known(s, p, r)
  PROVE  Replayed(s, reconcile_stray_releases(s, p, r), p, r, Count(s, "STRAY_RELEASE", p, r))
<1> DEFINE n == Count(s, "STRAY_RELEASE", p, r)
<1>1. n \in Nat
  BY CountsAreNatural
<1> PICK f : ReconcileSteps(f, s, p, r)
  BY ReconcileUnfolds
<1>2. reconcile_stray_releases(s, p, r) = f[n]
  BY DEF ReconcileSteps
<1>3. f[0] = s /\ \A i \in 1 .. n : f[i] = Replay(f[i - 1], p, r)
  BY DEF ReconcileSteps
<1> HIDE DEF n
<1> DEFINE H == {i \in 0 .. n : Replayed(s, f[i], p, r, i)}
<1>4. 0 \in H
  <2>1. \A q, x : /\ \A kind : Count(s, kind, q, x) \in Nat
                  /\ Accounted(s, q, x) \in Nat
    BY CountsAreNatural
  <2>2. Replayed(s, s, p, r, 0)
    <3>1. ASSUME NEW q, NEW x, NEW kind PROVE ~(Count(s, kind, q, x) < Count(s, kind, q, x))
      BY <2>1
    <3>2. Count(s, "STRAY_RELEASE", p, r) = Count(s, "STRAY_RELEASE", p, r) - 0
      BY <1>1 DEF n
    <3>3. Spares(s, s, p)
      BY DEF Spares, SameView
    <3> QED
      BY <3>1, <3>2, <3>3, Zenon DEF Replayed
  <2> QED
    BY <1>1, <1>3, <2>2
<1>5. ASSUME NEW i \in 1 .. n, i - 1 \in H PROVE i \in H
  <2>1. i - 1 \in Nat /\ i - 1 < Count(s, "STRAY_RELEASE", p, r) /\ i - 1 + 1 = i /\ i \in 0 .. n
    BY <1>1 DEF n
  <2>2. Replayed(s, Replay(f[i - 1], p, r), p, r, i - 1 + 1)
    BY <1>5, <2>1, ReplayOnce
  <2> QED
    BY <1>3, <2>1, <2>2
<1>6. n \in H
  <2> HIDE DEF H
  <2>1. n \in 0 .. n
    BY <1>1
  <2> QED
    BY <1>1, <1>4, <1>5, <2>1, UpTo
<1> QED
  BY <1>2, <1>6 DEF n

\* One entry e of the parent, inherited by the child.
LEMMA InheritIs ==
  ASSUME NEW t \in Stores, NEW e \in Entry, NEW donor, NEW child \in Pids
  PROVE  /\ Progress(t, Inherit(t, e, donor, child), child, {})
         /\ ~t.ok \/ ~Inherits(t, e, donor, child) => Inherit(t, e, donor, child) = t
         /\ t.ok /\ Inherits(t, e, donor, child) /\ Inherit(t, e, donor, child).ok =>
              /\ Known(Inherit(t, e, donor, child), child, e.res)
              /\ Count(Inherit(t, e, donor, child), "STRAY_RELEASE", child, e.res) = 0
              /\ Live(Inherit(t, e, donor, child), child, e.res)
                   <=> Count(t, "STRAY_RELEASE", child, e.res) = 0
              /\ \A x \in Resources \ {e.res} :
                   /\ Known(Inherit(t, e, donor, child), child, x) <=> Known(t, child, x)
                   /\ Live(Inherit(t, e, donor, child), child, x) <=> Live(t, child, x)
                   /\ Count(Inherit(t, e, donor, child), "STRAY_RELEASE", child, x)
                        = Count(t, "STRAY_RELEASE", child, x)
<1> DEFINE r == e.res
           u == add_entry(t, child, r)
           v == reconcile_stray_releases(u, child, r)
           w == Inherit(t, e, donor, child)
<1>1. r \in Resources
  BY DEF Entry
<1> HIDE DEF r
<1>2. CASE ~t.ok \/ ~Inherits(t, e, donor, child)
  <2>1. w = t
    BY <1>2 DEF Inherit
  <2>2. Progress(t, t, child, {})
    BY ProgressStutters
  <2> QED
    BY <1>2, <2>1, <2>2
<1>3. CASE t.ok /\ Inherits(t, e, donor, child)
  <2>1. w = IF u.ok THEN v ELSE u
    BY <1>3 DEF Inherit, r
  <2>2. ~Known(t, child, r)
    BY <1>3 DEF Inherits, r
  <2>3. Progress(t, u, child, {})
    BY <1>1, <1>3, AddEntryProgress
  <2>4. /\ u \in Stores /\ u.findings = t.findings
        /\ u.entries = IF u.ok THEN Append(t.entries, NewEntry(child, r)) ELSE t.entries
    BY <1>1, <1>3, AddEntryIs
  <2> HIDE DEF u, w
  <2>5. CASE ~u.ok
    BY <1>3, <2>1, <2>3, <2>5 DEF w
  <2>6. CASE u.ok
    <3>1. u.entries = Append(t.entries, NewEntry(child, r))
      BY <2>4, <2>6
    <3>2. ASSUME NEW q, NEW x
          PROVE  /\ Known(u, q, x) <=> Known(t, q, x) \/ (q = child /\ x = r)
                 /\ Live(u, q, x) <=> Live(t, q, x) \/ (q = child /\ x = r)
      BY <1>1, <2>4, <3>1, EntryAppended
    <3>3. \A q, x, k : Count(u, k, q, x) = Count(t, k, q, x)
      BY <2>4, SameEvidence
    <3>4. Solo(u.entries, child, r)
      <4> DEFINE a == t.entries
                 b == u.entries
      <4>1. ~HasEntry(a, child, r)
        BY <2>2, KnownIs
      <4>2. /\ a \in Seq(GoodEntry) /\ b = Append(a, NewEntry(child, r))
        BY <3>1 DEF Stores
      <4> HIDE DEF a, b
      <4>3. /\ Len(b) = Len(a) + 1 /\ Len(a) \in Nat /\ \A i \in 1 .. Len(a) : b[i] = a[i]
        BY <4>2
      <4>4. \A i \in 1 .. Len(b) : i = Len(a) + 1 \/ i \in 1 .. Len(a)
        BY <4>3
      <4>5. Solo(b, child, r)
        BY <4>1, <4>3, <4>4 DEF Solo, HasEntry
      <4> QED
        BY <4>5 DEF b
    <3> DEFINE n == Count(u, "STRAY_RELEASE", child, r)
    <3>5. Replayed(u, v, child, r, n) /\ n \in Nat
      BY <1>1, <2>4, <3>2, ReconcileIs, CountsAreNatural
    <3> HIDE DEF v, n
    <3>6. Progress(t, v, child, {})
      <4>1. v \in Stores
        BY <3>5 DEF Replayed
      <4>2. ASSUME NEW q \in Pids, NEW x \in Resources
            PROVE  /\ Known(t, q, x) => Known(v, q, x)
                   /\ Count(v, "LEAK", q, x) = Count(t, "LEAK", q, x)
        BY <3>2, <3>3, <3>5 DEF Replayed
      <4>3. ASSUME NEW q \in Pids, NEW x \in Resources, NEW kind \in Kinds,
                   Count(v, kind, q, x) < Count(t, kind, q, x)
            PROVE  kind = "STRAY_RELEASE" /\ ~Known(t, q, x) /\ Known(v, q, x)
        <5>1. kind = "STRAY_RELEASE" /\ q = child /\ x = r
          BY <3>3, <3>5, <4>3 DEF Replayed
        <5>2. Known(v, q, x) <=> Known(u, q, x)
          BY <3>5 DEF Replayed
        <5> QED
          BY <2>2, <3>2, <5>1, <5>2
      <4>4. ASSUME v.ok, NEW q \in Pids, NEW x \in Resources
            PROVE  Accounted(v, q, x) = Accounted(t, q, x) + (IF q = child /\ x \in {} THEN 1 ELSE 0)
        <5>1. Accounted(v, q, x) = Accounted(u, q, x)
          BY <3>5, <4>4 DEF Replayed
        <5>2. Accounted(u, q, x) = Accounted(t, q, x) + (IF q = child /\ x \in {} THEN 1 ELSE 0)
          BY <2>3, <2>6 DEF Progress, Advances
        <5> QED
          BY <5>1, <5>2
      <4>5. Spares(t, v, child)
        BY <2>3, <3>5, SparesComposes DEF Progress, Replayed
      <4> QED
        BY <1>3, <4>1, <4>2, <4>3, <4>4, <4>5 DEF Progress, Advances
    <3>7. ASSUME v.ok
          PROVE  /\ Known(v, child, r)
                 /\ Count(v, "STRAY_RELEASE", child, r) = 0
                 /\ Live(v, child, r) <=> n = 0
      <4>1. Known(v, child, r)
        BY <1>1, <3>2, <3>5 DEF Replayed
      <4>2. Count(v, "STRAY_RELEASE", child, r) = n - n
        BY <3>5, <3>7 DEF Replayed, n
      <4>3. Live(v, child, r) <=> n = 0
        BY <3>2, <3>4, <3>5, <3>7 DEF Replayed
      <4> QED
        BY <3>5, <4>1, <4>2, <4>3
    <3>8. n = Count(t, "STRAY_RELEASE", child, r)
      BY <3>3 DEF n
    <3>9. ASSUME NEW x \in Resources \ {r}
          PROVE  /\ Known(v, child, x) <=> Known(t, child, x)
                 /\ Live(v, child, x) <=> Live(t, child, x)
                 /\ Count(v, "STRAY_RELEASE", child, x) = Count(t, "STRAY_RELEASE", child, x)
      BY <3>2, <3>3, <3>5 DEF Replayed
    <3>10. w = v
      BY <2>1, <2>6
    <3> QED
      BY <1>3, <3>6, <3>7, <3>8, <3>9, <3>10 DEF w, r
  <2> QED
    BY <2>5, <2>6
<1> QED
  BY <1>2, <1>3

\* Has the parent a live descriptor x among its first i entries?
Gives(s, i, donor, x) ==
  x \in Fds /\ \E j \in 1 .. i :
    s.entries[j].pid = donor /\ s.entries[j].res = x /\ s.entries[j].live

\* The first i entries of s were offered to the child, which left t.
Forked(s, t, i, donor, child) ==
  /\ Progress(s, t, child, {})
  /\ t.ok => \A x \in Resources :
       /\ Gives(s, i, donor, x) => Known(t, child, x)
       /\ Gives(s, i, donor, x) /\ ~Known(s, child, x) =>
            /\ Count(t, "STRAY_RELEASE", child, x) = 0
            /\ Live(t, child, x) <=> Count(s, "STRAY_RELEASE", child, x) = 0
       /\ ~Gives(s, i, donor, x) \/ Known(s, child, x) =>
            /\ Known(t, child, x) <=> Known(s, child, x)
            /\ Live(t, child, x) <=> Live(s, child, x)
            /\ Count(t, "STRAY_RELEASE", child, x) = Count(s, "STRAY_RELEASE", child, x)

LEMMA ForkOnce ==
  ASSUME NEW s \in Stores, NEW t, NEW i \in 1 .. Len(s.entries), NEW donor, NEW child \in Pids,
         Forked(s, t, i - 1, donor, child)
  PROVE  Forked(s, Inherit(t, s.entries[i], donor, child), i, donor, child)
<1> DEFINE e == s.entries[i]
           w == Inherit(t, e, donor, child)
           here(x) == x \in Fds /\ e.pid = donor /\ e.res = x /\ e.live
<1>1. t \in Stores /\ Progress(s, t, child, {})
  BY DEF Forked, Progress, Advances
<1>2. e \in Entry
  <2> DEFINE a == s.entries
  <2>1. a \in Seq(GoodEntry) /\ i \in 1 .. Len(a)
    BY DEF Stores
  <2> HIDE DEF a
  <2>2. a[i] \in GoodEntry
    BY <2>1
  <2> QED
    BY <2>2 DEF a, GoodEntry
<1>3. ASSUME NEW x PROVE Gives(s, i, donor, x) <=> Gives(s, i - 1, donor, x) \/ here(x)
  <2>1. i \in Nat /\ \A j \in 1 .. i : j = i \/ j \in 1 .. i - 1
    BY DEF Stores
  <2>2. i \in 1 .. i /\ \A j \in 1 .. i - 1 : j \in 1 .. i
    BY <2>1
  <2> QED
    BY <2>1, <2>2 DEF Gives
<1> HIDE DEF w, e
<1>4. Progress(t, w, child, {})
  BY <1>1, <1>2, InheritIs DEF w
<1>5. Progress(s, w, child, {})
  BY <1>1, <1>4, ProgressComposes
<1>6. CASE ~t.ok
  <2>1. w = t
    BY <1>1, <1>2, <1>6, InheritIs DEF w
  <2> QED
    BY <1>5, <1>6, <2>1 DEF Forked, w, e
<1>7. CASE t.ok /\ ~Inherits(t, e, donor, child)
  <2>1. w = t
    BY <1>1, <1>2, <1>7, InheritIs DEF w
  <2>2. \A x \in Resources : here(x) => Known(t, child, x)
    BY <1>7 DEF Inherits
  <2>3. \A x \in Resources : here(x) => Gives(s, i - 1, donor, x) \/ Known(s, child, x)
    BY <1>7, <2>2 DEF Forked
  <2> HIDE DEF here
  <2> QED
    BY <1>3, <1>5, <1>7, <2>1, <2>2, <2>3 DEF Forked, w, e
<1>8. CASE t.ok /\ Inherits(t, e, donor, child)
  <2> DEFINE r == e.res
  <2>1. /\ r \in Resources /\ ~Known(t, child, r) /\ \A x \in Resources : here(x) <=> x = r
    BY <1>2, <1>8 DEF Inherits, Entry
  <2>2. w.ok =>
          /\ Known(w, child, r)
          /\ Count(w, "STRAY_RELEASE", child, r) = 0
          /\ Live(w, child, r) <=> Count(t, "STRAY_RELEASE", child, r) = 0
          /\ \A x \in Resources \ {r} :
               /\ Known(w, child, x) <=> Known(t, child, x)
               /\ Live(w, child, x) <=> Live(t, child, x)
               /\ Count(w, "STRAY_RELEASE", child, x) = Count(t, "STRAY_RELEASE", child, x)
    BY <1>1, <1>2, <1>8, InheritIs DEF w
  <2> HIDE DEF here, r
  <2>3. ~Gives(s, i - 1, donor, r) /\ ~Known(s, child, r)
        /\ Count(t, "STRAY_RELEASE", child, r) = Count(s, "STRAY_RELEASE", child, r)
    BY <1>8, <2>1 DEF Forked
  <2>4. ASSUME w.ok, NEW x \in Resources
        PROVE  /\ Gives(s, i, donor, x) => Known(w, child, x)
               /\ Gives(s, i, donor, x) /\ ~Known(s, child, x) =>
                    /\ Count(w, "STRAY_RELEASE", child, x) = 0
                    /\ Live(w, child, x) <=> Count(s, "STRAY_RELEASE", child, x) = 0
               /\ ~Gives(s, i, donor, x) \/ Known(s, child, x) =>
                    /\ Known(w, child, x) <=> Known(s, child, x)
                    /\ Live(w, child, x) <=> Live(s, child, x)
                    /\ Count(w, "STRAY_RELEASE", child, x) = Count(s, "STRAY_RELEASE", child, x)
    <3>1. CASE x = r
      BY <1>3, <2>1, <2>2, <2>3, <2>4, <3>1
    <3>2. CASE x # r
      <4>1. Gives(s, i, donor, x) <=> Gives(s, i - 1, donor, x)
        BY <1>3, <2>1, <3>2
      <4>2. /\ Known(w, child, x) <=> Known(t, child, x)
            /\ Live(w, child, x) <=> Live(t, child, x)
            /\ Count(w, "STRAY_RELEASE", child, x) = Count(t, "STRAY_RELEASE", child, x)
        BY <2>2, <2>4, <3>2
      <4> QED
        BY <1>8, <4>1, <4>2 DEF Forked
    <3> QED
      BY <3>1, <3>2
  <2> QED
    BY <1>5, <2>4 DEF Forked, w, e
<1> QED
  BY <1>6, <1>7, <1>8

\* The loop of ingest_fork over the entries there were when it began.
ForkSteps(f, s, donor, child) ==
  LET n == Len(s.entries)
  IN  /\ f[0] = s /\ \A i \in 1 .. n : f[i] = Inherit(f[i - 1], s.entries[i], donor, child)
      /\ Fork(s, donor, child) = IF donor = child THEN s ELSE f[n]
LEMMA ForkUnfolds ==
  ASSUME NEW s \in Stores, NEW donor \in Pids, NEW child \in Pids
  PROVE  \E f : ForkSteps(f, s, donor, child)
<1> DEFINE n == Len(s.entries)
           Body(f, i) == IF i = 0 THEN s ELSE Inherit(f[i - 1], s.entries[i], donor, child)
           step == [x \in (1 .. n) \X Stores |-> Inherit(x[2], s.entries[x[1]], donor, child)]
           f == CHOOSE f : f = [i \in 0 .. n |-> Body(f, i)]
<1>1. n \in Nat /\ \A i \in 1 .. n : s.entries[i] \in Entry
  <2> DEFINE a == s.entries
  <2>1. a \in Seq(GoodEntry)
    BY DEF Stores
  <2> HIDE DEF a
  <2>2. Len(a) \in Nat /\ \A i \in 1 .. Len(a) : a[i] \in GoodEntry
    BY <2>1
  <2> QED
    BY <2>2 DEF a, GoodEntry
<1>2. Fork(s, donor, child) = IF donor = child THEN s ELSE f[n]
  BY DEF Fork
<1> HIDE DEF n
<1>4. f[0] = s /\ \A i \in 1 .. n : f[i] = Inherit(f[i - 1], s.entries[i], donor, child)
  <2>1. /\ step \in [(1 .. n) \X Stores -> Stores]
        /\ \A i \in 1 .. n, t \in Stores : step[<<i, t>>] = Inherit(t, s.entries[i], donor, child)
    <3>1. \A i \in 1 .. n, t \in Stores : Inherit(t, s.entries[i], donor, child) \in Stores
      BY <1>1, InheritIs DEF Progress, Advances
    <3> QED
      BY <3>1
  <2> HIDE DEF step
  <2>2. PICK g : Takes(g, n, Stores, s, step)
    BY <1>1, <2>1, Iterated
  <2>3. ASSUME NEW i \in 1 .. n
        PROVE  i - 1 \in 0 .. n /\ g[i] = Inherit(g[i - 1], s.entries[i], donor, child)
    <3>1. i - 1 \in 0 .. n
      BY <1>1
    <3>2. g[i - 1] \in Stores /\ g[i] = step[<<i, g[i - 1]>>]
      BY <2>2, <3>1 DEF Takes
    <3> QED
      BY <2>1, <3>1, <3>2
  <2>4. \A i \in 0 .. n : g[i] = Body(g, i)
    BY <1>1, <2>2, <2>3 DEF Takes
  <2>5. g = [i \in 0 .. n |-> Body(g, i)]
    <3> HIDE DEF Body
    <3> QED
      BY <2>2, <2>4 DEF Takes
  <2>6. f = [i \in 0 .. n |-> Body(f, i)]
    <3> HIDE DEF Body
    <3> QED
      BY <2>5
  <2>7. \A i \in 0 .. n : f[i] = Body(f, i)
    <3> HIDE DEF Body, f
    <3> QED
      BY <2>6
  <2> HIDE DEF f
  <2> QED
    BY <1>1, <2>7
<1> QED
  BY <1>2, <1>4 DEF n, ForkSteps

LEMMA ForkIs ==
  ASSUME NEW s \in Stores, s.ok, NEW donor \in Pids, NEW child \in Pids
  PROVE  /\ Progress(s, Fork(s, donor, child), child, {})
         /\ donor # child => Forked(s, Fork(s, donor, child), Len(s.entries), donor, child)
<1> DEFINE n == Len(s.entries)
<1>1. n \in Nat
  BY DEF Stores
<1> PICK f : ForkSteps(f, s, donor, child)
  BY ForkUnfolds
<1>2. Fork(s, donor, child) = IF donor = child THEN s ELSE f[n]
  BY DEF ForkSteps
<1>3. Progress(s, s, child, {})
  BY ProgressStutters
<1>4. f[0] = s /\ \A i \in 1 .. n : f[i] = Inherit(f[i - 1], s.entries[i], donor, child)
  BY DEF ForkSteps
<1> HIDE DEF n
<1> DEFINE H == {i \in 0 .. n : Forked(s, f[i], i, donor, child)}
<1>5. 0 \in H
  <2>1. \A x : ~Gives(s, 0, donor, x)
    BY DEF Gives
  <2>2. Forked(s, s, 0, donor, child)
    BY <1>3, <2>1, Zenon DEF Forked
  <2> QED
    BY <1>1, <1>4, <2>2
<1>6. ASSUME NEW i \in 1 .. n, i - 1 \in H PROVE i \in H
  <2>1. i \in 1 .. Len(s.entries) /\ i \in 0 .. n
    BY <1>1 DEF n
  <2>2. Forked(s, Inherit(f[i - 1], s.entries[i], donor, child), i, donor, child)
    BY <1>6, <2>1, ForkOnce
  <2> QED
    BY <1>4, <2>1, <2>2
<1>7. n \in H
  <2> HIDE DEF H
  <2>1. n \in 0 .. n
    BY <1>1
  <2> QED
    BY <1>1, <1>5, <1>6, <2>1, UpTo
<1>8. Forked(s, f[n], n, donor, child)
  BY <1>7
<1> QED
  BY <1>2, <1>3, <1>8 DEF n, Forked

\* A failed exec gives back what it had marked, and withdraws its findings.
LEMMA RollbackIs ==
  ASSUME NEW s \in Stores, NEW p
  PROVE  /\ rollback_exec(s, p) \in Stores /\ rollback_exec(s, p).ok = s.ok
         /\ \A q, x : /\ Known(rollback_exec(s, p), q, x) <=> Known(s, q, x)
                      /\ Accounted(rollback_exec(s, p), q, x) = Accounted(s, q, x)
                      /\ \A kind \in Kinds : kind # "EXEC_INHERIT" \/ q # p =>
                           Count(rollback_exec(s, p), kind, q, x) = Count(s, kind, q, x)
         /\ Spares(s, rollback_exec(s, p), p)
<1> DEFINE Restored(e) == IF Undone(e, p) THEN [e EXCEPT !.live = TRUE, !.exec_pending = FALSE] ELSE e
           K == {f \in Finding : ~Undone(f, p)}
           a == s.entries
           fs == s.findings
           b == [i \in DOMAIN a |-> Restored(a[i])]
           gs == Kept(fs, K)
           t == rollback_exec(s, p)
<1>1. /\ s \in [entries : Seq(GoodEntry), findings : Seq(GoodFinding), ok : BOOLEAN, budget : Nat]
      /\ Len(a) <= MaxEntries /\ Len(fs) <= MaxFindings
      /\ a \in Seq(GoodEntry) /\ fs \in Seq(GoodFinding)
  BY DEF Stores
<1>2. t = [s EXCEPT !.entries = b, !.findings = gs]
  BY DEF rollback_exec
<1>3. ASSUME NEW e \in GoodEntry
      PROVE  /\ Restored(e) \in GoodEntry /\ Restored(e).pid = e.pid /\ Restored(e).res = e.res
             /\ \A q, x : Restored(e) \in ReleasedOf(q, x) <=> e \in ReleasedOf(q, x)
  <2> DEFINE d == [e EXCEPT !.live = TRUE, !.exec_pending = FALSE]
  <2>1. /\ d \in GoodEntry /\ d.pid = e.pid /\ d.res = e.res /\ d.live = TRUE
    BY DEF GoodEntry, Entry
  <2>2. \A q, x : d \notin ReleasedOf(q, x)
    <3> HIDE DEF d
    <3> QED
      BY <2>1 DEF ReleasedOf
  <2>3. e.exec_pending => \A q, x : e \notin ReleasedOf(q, x)
    BY DEF GoodEntry, Entry, ReleasedOf
  <2>4. Restored(e) = d \/ Restored(e) = e
    OBVIOUS
  <2>5. Restored(e) # e => e.exec_pending /\ Restored(e) = d
    BY DEF Undone
  <2> HIDE DEF d, Restored
  <2> QED
    BY <2>1, <2>2, <2>3, <2>4, <2>5
<1> HIDE DEF Restored
<1>4. /\ b \in Seq(GoodEntry) /\ Len(b) = Len(a) /\ \A i \in 1 .. Len(a) : b[i] = Restored(a[i])
  <2> HIDE DEF a
  <2>1. DOMAIN a = 1 .. Len(a) /\ Len(a) \in Nat /\ \A i \in 1 .. Len(a) : a[i] \in GoodEntry
    BY <1>1
  <2>2. \A i \in 1 .. Len(a) : b[i] \in GoodEntry
    BY <1>3, <2>1
  <2> QED
    BY <2>1, <2>2
<1> HIDE DEF b
<1>5. /\ gs \in Seq(GoodFinding) /\ Len(gs) <= Len(fs)
      /\ \A S : Matching(gs, S) = Matching(fs, S \cap K)
  <2> HIDE DEF fs, K
  <2>1. gs \in Seq(GoodFinding) /\ Len(gs) <= Len(fs)
    BY <1>1, KeptIs
  <2>2. ASSUME NEW S PROVE Matching(gs, S) = Matching(fs, S \cap K)
    BY <1>1, KeptIs
  <2> QED
    BY <2>1, <2>2
<1> HIDE DEF gs
<1>6. /\ t \in Stores /\ t.entries = b /\ t.findings = gs /\ t.ok = s.ok
  <2>1. /\ t \in [entries : Seq(GoodEntry), findings : Seq(GoodFinding), ok : BOOLEAN, budget : Nat]
        /\ t.entries = b /\ t.findings = gs /\ t.ok = s.ok
    BY <1>1, <1>2, <1>4, <1>5
  <2>2. Len(gs) <= MaxFindings
    <3>1. Len(gs) \in Nat /\ Len(fs) \in Nat
      BY <1>1, <1>5
    <3> HIDE DEF fs
    <3> QED
      BY <1>1, <1>5, <3>1, LifecycleAssumption
  <2> HIDE DEF t
  <2> QED
    BY <1>1, <1>4, <2>1, <2>2 DEF Stores
<1>7. ASSUME NEW q, NEW x
      PROVE  /\ Known(t, q, x) <=> Known(s, q, x)
             /\ Matching(b, ReleasedOf(q, x)) = Matching(a, ReleasedOf(q, x))
  <2> HIDE DEF t
  <2>1. \A i \in 1 .. Len(a) : a[i] \in GoodEntry
    <3> HIDE DEF a
    <3> QED
      BY <1>1
  <2>2. Known(t, q, x) <=> HasEntry(b, q, x)
    BY <1>6, KnownIs
  <2>3. Known(s, q, x) <=> HasEntry(a, q, x)
    BY KnownIs
  <2> HIDE DEF a
  <2>4. HasEntry(b, q, x) <=> HasEntry(a, q, x)
    BY <1>3, <1>4, <2>1 DEF HasEntry
  <2> DEFINE R == ReleasedOf(q, x)
  <2>5. \A i \in 1 .. Len(a) : a[i] \in R <=> b[i] \in R
    BY <1>3, <1>4, <2>1
  <2>6. Matching(b, R) = Matching(a, R)
    <3> HIDE DEF R
    <3> QED
      BY <1>1, <1>4, <2>5, MatchingSame
  <2> QED
    BY <2>2, <2>3, <2>4, <2>6
<1>8. ASSUME NEW q, NEW x, NEW kind \in Kinds, kind # "EXEC_INHERIT" \/ q # p
      PROVE  Count(t, kind, q, x) = Count(s, kind, q, x)
  <2> DEFINE S == FindingsOf(kind, q, x)
             T == S \cap K
  <2>1. Matching(gs, S) = Matching(fs, T)
    BY <1>5
  <2>2. ASSUME NEW i \in 1 .. Len(fs) PROVE fs[i] \in S <=> fs[i] \in T
    <3> DEFINE f == fs[i]
    <3>1. f \in GoodFinding
      <4> HIDE DEF fs
      <4> QED
        BY <1>1
    <3> HIDE DEF f
    <3>2. f \in S => ~Undone(f, p)
      BY <1>8, <3>1 DEF GoodFinding, Finding, FindingsOf, Undone
    <3> QED
      BY <3>1, <3>2 DEF f, GoodFinding
  <2>3. Matching(fs, T) = Matching(fs, S)
    <3> HIDE DEF fs, S, T
    <3> QED
      BY <1>1, <2>2, MatchingSame
  <2> HIDE DEF t
  <2> QED
    BY <1>6, <2>1, <2>3 DEF Count
<1>9. ASSUME NEW q, NEW x PROVE Accounted(t, q, x) = Accounted(s, q, x)
  <2>1. "STRAY_RELEASE" \in Kinds /\ "DOUBLE_RELEASE" \in Kinds
    BY DEF Kinds
  <2> HIDE DEF t
  <2> QED
    BY <1>6, <1>7, <1>8, <2>1 DEF Accounted
<1>10. ASSUME NEW q \in Pids \ {p} PROVE SameView(s, t, q)
  <2>1. ASSUME NEW i \in 1 .. Len(a)
        PROVE  b[i].pid = a[i].pid /\ (a[i].pid = q => b[i] = a[i])
    <3> DEFINE e == a[i]
    <3>1. e \in GoodEntry
      <4> HIDE DEF a
      <4> QED
        BY <1>1
    <3>2. b[i] = Restored(e)
      BY <1>4
    <3> HIDE DEF e
    <3>3. Restored(e).pid = e.pid
      BY <1>3, <3>1
    <3>4. e.pid = q => Restored(e) = e
      BY DEF Restored, Undone
    <3> QED
      BY <3>2, <3>3, <3>4 DEF e
  <2> HIDE DEF t
  <2>2. Shown(t.entries, EntriesOf(q), EntryShown) = Shown(s.entries, EntriesOf(q), EntryShown)
    <3>1. Len(t.entries) = Len(s.entries)
      BY <1>4, <1>6
    <3>2. ASSUME NEW i \in 1 .. Len(s.entries)
          PROVE  /\ t.entries[i].pid = s.entries[i].pid
                 /\ s.entries[i].pid = q => /\ t.entries[i].res = s.entries[i].res
                                            /\ t.entries[i].live = s.entries[i].live
      BY <1>6, <2>1
    <3> QED
      BY <1>6, <3>1, <3>2, EntriesAlike
  <2> DEFINE F == FoundOf(q)
  <2>3. Shown(gs, F, FindingShown) = Shown(fs, F, FindingShown)
    <3>1. ASSUME NEW i \in 1 .. Len(fs) PROVE fs[i] \in F => fs[i] \in K
      BY DEF FoundOf, Undone
    <3> HIDE DEF fs, F, K
    <3>2. Shown(Kept(fs, K), F, FindingShown) = Shown(fs, F, FindingShown)
      BY <1>1, <3>1, ShownKept
    <3> QED
      BY <3>2 DEF gs
  <2> QED
    BY <1>6, <2>2, <2>3 DEF SameView
<1> QED
  BY <1>6, <1>7, <1>8, <1>9, <1>10 DEF Spares

\* The first i entries of s are settled, which left t.
SettledUpTo(s, t, i) ==
  /\ t \in Stores /\ Len(t.entries) = Len(s.entries)
  /\ \A j \in 1 .. Len(s.entries) :
       /\ t.entries[j].pid = s.entries[j].pid /\ t.entries[j].res = s.entries[j].res
       /\ t.entries[j].live = s.entries[j].live
  /\ \A q, x : \A kind : Count(t, kind, q, x) >= Count(s, kind, q, x)
  /\ t.ok => \A q, x :
       Count(t, "LEAK", q, x) = Count(s, "LEAK", q, x)
                                + Matching(SubSeq(s.entries, 1, i), LiveOf(q, x))
  /\ \A q : Shown(t.findings, FoundOf(q), FindingShown) = Shown(s.findings, FoundOf(q), FindingShown)

\* The pending mark of an entry is cleared.
LEMMA ClearedIs ==
  ASSUME NEW t \in Stores, NEW i \in 1 .. Len(t.entries),
         NEW u, u = [t EXCEPT !.entries[i].exec_pending = FALSE]
  PROVE  /\ u \in Stores /\ u.findings = t.findings /\ u.ok = t.ok
         /\ Len(u.entries) = Len(t.entries)
         /\ \A j \in 1 .. Len(t.entries) :
              /\ u.entries[j].pid = t.entries[j].pid /\ u.entries[j].res = t.entries[j].res
              /\ u.entries[j].live = t.entries[j].live
<1> DEFINE a == t.entries
           e == a[i]
           d == [e EXCEPT !.exec_pending = FALSE]
           b == [a EXCEPT ![i] = d]
<1>1. /\ t \in [entries : Seq(GoodEntry), findings : Seq(GoodFinding), ok : BOOLEAN, budget : Nat]
      /\ Len(a) <= MaxEntries /\ Len(t.findings) <= MaxFindings
      /\ a \in Seq(GoodEntry) /\ i \in 1 .. Len(a)
  BY DEF Stores
<1>2. e \in GoodEntry
  <2> HIDE DEF a
  <2> QED
    BY <1>1
<1>3. u = [t EXCEPT !.entries = b]
  OBVIOUS
<1> HIDE DEF e
<1>4. d \in GoodEntry /\ d.pid = e.pid /\ d.res = e.res /\ d.live = e.live
  BY <1>2 DEF GoodEntry, Entry
<1> HIDE DEF d
<1>5. /\ b \in Seq(GoodEntry) /\ Len(b) = Len(a) /\ b[i] = d
      /\ \A j \in 1 .. Len(a) : j # i => b[j] = a[j]
  <2> HIDE DEF a
  <2> QED
    BY <1>1, <1>4
<1> HIDE DEF b
<1>6. /\ u \in [entries : Seq(GoodEntry), findings : Seq(GoodFinding), ok : BOOLEAN, budget : Nat]
      /\ u.entries = b /\ u.findings = t.findings /\ u.ok = t.ok
  BY <1>1, <1>3, <1>5
<1>7. u \in Stores
  BY <1>1, <1>5, <1>6 DEF Stores
<1> QED
  BY <1>4, <1>5, <1>6, <1>7 DEF e

LEMMA SettleOnce ==
  ASSUME NEW s \in Stores, NEW t, NEW i \in 1 .. Len(s.entries), SettledUpTo(s, t, i - 1)
  PROVE  SettledUpTo(s, Settle(t, i), i)
<1> DEFINE e == t.entries[i]
           u == [t EXCEPT !.entries[i].exec_pending = FALSE]
           v == add_finding(u, "LEAK", e.pid, e.res)
           w == Settle(t, i)
<1>1. /\ t \in Stores /\ Len(t.entries) = Len(s.entries) /\ i \in 1 .. Len(t.entries)
  BY DEF SettledUpTo
<1>2. w = IF ~t.ok THEN t ELSE IF e.live THEN v ELSE u
  BY DEF Settle
<1>3. /\ e \in GoodEntry /\ s.entries[i] \in GoodEntry
      /\ e.pid = s.entries[i].pid /\ e.res = s.entries[i].res /\ e.live = s.entries[i].live
  <2> DEFINE a == s.entries
             b == t.entries
  <2>1. a \in Seq(GoodEntry) /\ b \in Seq(GoodEntry)
    BY <1>1 DEF Stores
  <2>2. a[i] \in GoodEntry /\ b[i] \in GoodEntry
    <3> HIDE DEF a, b
    <3> QED
      BY <1>1, <2>1 DEF a, b
  <2> QED
    BY <2>2 DEF SettledUpTo
<1>4. /\ u \in Stores /\ u.findings = t.findings /\ u.ok = t.ok
      /\ Len(u.entries) = Len(t.entries)
      /\ \A j \in 1 .. Len(t.entries) :
           /\ u.entries[j].pid = t.entries[j].pid /\ u.entries[j].res = t.entries[j].res
           /\ u.entries[j].live = t.entries[j].live
  BY <1>1, ClearedIs
<1> HIDE DEF e, u, w
<1>5. \A kind, q, x : Count(u, kind, q, x) = Count(t, kind, q, x)
  BY <1>4 DEF Count
<1>6. ASSUME NEW q, NEW x
      PROVE  /\ Matching(SubSeq(s.entries, 1, i), LiveOf(q, x))
                  = Matching(SubSeq(s.entries, 1, i - 1), LiveOf(q, x))
                    + (IF e.live /\ q = e.pid /\ x = e.res THEN 1 ELSE 0)
             /\ Matching(SubSeq(s.entries, 1, i - 1), LiveOf(q, x)) \in Nat
  <2> DEFINE a == s.entries
             R == LiveOf(q, x)
             before == SubSeq(a, 1, i - 1)
  <2>1. a \in Seq(GoodEntry) /\ i - 1 \in 0 .. Len(a) /\ i \in 1 .. Len(a)
    BY DEF Stores
  <2>2. a[i] \in R <=> e.live /\ q = e.pid /\ x = e.res
    <3> DEFINE d == a[i]
    <3> HIDE DEF d
    <3> QED
      BY <1>3 DEF GoodEntry, Entry, LiveOf, d
  <2> HIDE DEF a, R
  <2>3. /\ before \in Seq(GoodEntry) /\ a[i] \in GoodEntry
        /\ SubSeq(a, 1, i) = Append(before, a[i])
    BY <2>1, PrefixIs
  <2> HIDE DEF before
  <2>4. /\ Matching(Append(before, a[i]), R) = Matching(before, R) + (IF a[i] \in R THEN 1 ELSE 0)
        /\ Matching(before, R) \in Nat
    <3>1. Matching(Append(before, a[i]), R) = Matching(before, R) + (IF a[i] \in R THEN 1 ELSE 0)
      BY <2>3, MatchingAppend
    <3>2. Matching(before, R) \in Nat
      BY <2>3, MatchingIs
    <3> QED
      BY <3>1, <3>2
  <2> QED
    BY <2>2, <2>3, <2>4 DEF a, before, R
<1>7. \A q, x : \A kind : Count(s, kind, q, x) \in Nat /\ Count(t, kind, q, x) \in Nat
  BY <1>1, CountsAreNatural
<1>8. CASE ~t.ok
  <2>1. w = t
    BY <1>2, <1>8
  <2> QED
    BY <1>8, <2>1 DEF SettledUpTo, w
<1>9. CASE t.ok /\ ~e.live
  <2>1. w = u
    BY <1>2, <1>9
  <2>2. /\ w \in Stores /\ Len(w.entries) = Len(s.entries)
        /\ \A j \in 1 .. Len(s.entries) :
             /\ w.entries[j].pid = s.entries[j].pid /\ w.entries[j].res = s.entries[j].res
             /\ w.entries[j].live = s.entries[j].live
    BY <1>1, <1>4, <2>1 DEF SettledUpTo
  <2>3. ASSUME NEW q, NEW x
        PROVE  /\ \A kind : Count(w, kind, q, x) >= Count(s, kind, q, x)
               /\ Count(w, "LEAK", q, x) = Count(s, "LEAK", q, x)
                    + Matching(SubSeq(s.entries, 1, i), LiveOf(q, x))
    <3>1. \A kind : Count(w, kind, q, x) >= Count(s, kind, q, x)
      BY <1>5, <2>1 DEF SettledUpTo
    <3>2. Matching(SubSeq(s.entries, 1, i), LiveOf(q, x)) = Matching(SubSeq(s.entries, 1, i - 1), LiveOf(q, x))
      BY <1>6, <1>9
    <3>3. Count(t, "LEAK", q, x) = Count(s, "LEAK", q, x)
            + Matching(SubSeq(s.entries, 1, i - 1), LiveOf(q, x))
      BY <1>9 DEF SettledUpTo
    <3> QED
      BY <1>5, <2>1, <3>1, <3>2, <3>3
  <2>4. ASSUME NEW q PROVE Shown(w.findings, FoundOf(q), FindingShown) = Shown(s.findings, FoundOf(q), FindingShown)
    BY <1>4, <2>1 DEF SettledUpTo
  <2> QED
    BY <2>2, <2>3, <2>4 DEF SettledUpTo, w
<1>10. CASE t.ok /\ e.live
  <2> DEFINE p == e.pid
             r == e.res
  <2>1. w = v
    BY <1>2, <1>10
  <2>2. p \in Pids /\ r \in Resources /\ "LEAK" \in Kinds
    BY <1>3 DEF GoodEntry, Entry, Kinds
  <2>3. /\ v \in Stores /\ v.entries = u.entries
        /\ v.findings = IF v.ok THEN Append(u.findings, NewFinding("LEAK", p, r)) ELSE u.findings
    BY <1>4, <1>10, <2>2, AddFindingIs
  <2> HIDE DEF p, r, v
  <2>4. /\ w \in Stores /\ Len(w.entries) = Len(s.entries)
        /\ \A j \in 1 .. Len(s.entries) :
             /\ w.entries[j].pid = s.entries[j].pid /\ w.entries[j].res = s.entries[j].res
             /\ w.entries[j].live = s.entries[j].live
    BY <1>1, <1>4, <2>1, <2>3 DEF SettledUpTo
  <2>5. CASE v.ok
    <3>1. v.findings = Append(u.findings, NewFinding("LEAK", p, r))
      BY <2>3, <2>5
    <3>2. ASSUME NEW k, NEW q, NEW x
          PROVE  Count(v, k, q, x)
                   = Count(t, k, q, x) + (IF k = "LEAK" /\ q = p /\ x = r THEN 1 ELSE 0)
      <4>1. Count(v, k, q, x)
              = Count(u, k, q, x) + (IF k = "LEAK" /\ q = p /\ x = r THEN 1 ELSE 0)
        BY <1>4, <2>2, <2>3, <3>1, FindingAppended
      <4> QED
        BY <1>5, <4>1
    <3>3. ASSUME NEW q, NEW x
          PROVE  /\ \A kind : Count(w, kind, q, x) >= Count(s, kind, q, x)
                 /\ Count(w, "LEAK", q, x) = Count(s, "LEAK", q, x)
                      + Matching(SubSeq(s.entries, 1, i), LiveOf(q, x))
      <4>1. ASSUME NEW kind PROVE Count(w, kind, q, x) >= Count(s, kind, q, x)
        <5>1. Count(t, kind, q, x) >= Count(s, kind, q, x)
          BY DEF SettledUpTo
        <5>2. Count(t, kind, q, x) \in Nat /\ Count(s, kind, q, x) \in Nat
          BY <1>7
        <5> QED
          BY <2>1, <3>2, <5>1, <5>2
      <4>2. Count(t, "LEAK", q, x) = Count(s, "LEAK", q, x)
              + Matching(SubSeq(s.entries, 1, i - 1), LiveOf(q, x))
        BY <1>10 DEF SettledUpTo
      <4>3. Count(s, "LEAK", q, x) \in Nat
        BY <1>7
      <4>4. /\ Matching(SubSeq(s.entries, 1, i), LiveOf(q, x))
                 = Matching(SubSeq(s.entries, 1, i - 1), LiveOf(q, x))
                   + (IF q = p /\ x = r THEN 1 ELSE 0)
            /\ Matching(SubSeq(s.entries, 1, i - 1), LiveOf(q, x)) \in Nat
        BY <1>6, <1>10 DEF p, r
      <4>5. Count(w, "LEAK", q, x) = Count(t, "LEAK", q, x) + (IF q = p /\ x = r THEN 1 ELSE 0)
        BY <2>1, <3>2
      <4>6. Count(w, "LEAK", q, x) = Count(s, "LEAK", q, x)
              + Matching(SubSeq(s.entries, 1, i), LiveOf(q, x))
        BY <4>2, <4>3, <4>4, <4>5
      <4> QED
        BY <4>1, <4>6
    <3>4. ASSUME NEW q PROVE Shown(w.findings, FoundOf(q), FindingShown) = Shown(s.findings, FoundOf(q), FindingShown)
      <4>1. SameView(u, v, q)
        BY <1>4, <2>2, <2>3, <3>1, FindingSpared
      <4> QED
        BY <1>4, <2>1, <4>1 DEF SameView, SettledUpTo
    <3> QED
      BY <2>4, <3>3, <3>4 DEF SettledUpTo, w
  <2>6. CASE ~v.ok
    <3>1. v.findings = u.findings
      BY <2>3, <2>6
    <3>2. \A q, x : \A kind : Count(v, kind, q, x) = Count(u, kind, q, x)
      BY <3>1 DEF Count
    <3>3. \A q, x : \A kind : Count(w, kind, q, x) >= Count(s, kind, q, x)
      BY <1>5, <2>1, <3>2 DEF SettledUpTo
    <3>4. ASSUME NEW q PROVE Shown(w.findings, FoundOf(q), FindingShown) = Shown(s.findings, FoundOf(q), FindingShown)
      BY <1>4, <2>1, <3>1 DEF SettledUpTo
    <3> QED
      BY <2>1, <2>4, <2>6, <3>3, <3>4 DEF SettledUpTo, w
  <2> QED
    BY <2>5, <2>6
<1> QED
  BY <1>8, <1>9, <1>10

\* Sealing records each live entry, and withdraws nothing.
LEMMA SealIs ==
  ASSUME NEW s \in Stores
  PROVE  /\ Seal(s) \in Stores
         /\ \A q, x : \A kind : Count(Seal(s), kind, q, x) >= Count(s, kind, q, x)
         /\ Seal(s).ok => \A q, x :
              /\ Count(Seal(s), "LEAK", q, x) = Count(s, "LEAK", q, x) + LiveCount(s, q, x)
              /\ LiveCount(Seal(s), q, x) = LiveCount(s, q, x)
         /\ \A q : SameView(s, Seal(s), q)
<1> DEFINE n == Len(s.entries)
           S == {t \in Stores : Len(t.entries) = n}
           Body(f, i) == IF i = 0 THEN s ELSE Settle(f[i - 1], i)
           step == [x \in (1 .. n) \X S |-> Settle(x[2], x[1])]
           f == CHOOSE f : f = [i \in 0 .. n |-> Body(f, i)]
           t == f[n]
           fs == t.findings
           gs == [i \in DOMAIN fs |-> [fs[i] EXCEPT !.exec_pending = FALSE]]
           v == [t EXCEPT !.findings = gs]
<1>1. n \in Nat /\ s.entries \in Seq(GoodEntry)
  BY DEF Stores
<1>2. Seal(s) = IF t.ok THEN v ELSE t
  BY DEF Seal
<1> HIDE DEF n, v
<1>3. ASSUME NEW u \in S, NEW i \in 1 .. n PROVE Settle(u, i) \in S
  <2> DEFINE w == [u EXCEPT !.entries[i].exec_pending = FALSE]
             x == add_finding(w, "LEAK", u.entries[i].pid, u.entries[i].res)
  <2>1. u \in Stores /\ i \in 1 .. Len(u.entries) /\ Len(u.entries) = n
    BY <1>3
  <2>2. w \in Stores /\ w.ok = u.ok /\ Len(w.entries) = n
    BY <2>1, ClearedIs
  <2>3. Settle(u, i) = IF ~u.ok THEN u ELSE IF u.entries[i].live THEN x ELSE w
    BY DEF Settle
  <2> HIDE DEF w
  <2>4. u.entries[i].pid \in Pids /\ u.entries[i].res \in Resources /\ "LEAK" \in Kinds
    <3> DEFINE a == u.entries
    <3>1. a \in Seq(GoodEntry) /\ i \in 1 .. Len(a)
      BY <2>1 DEF Stores
    <3> HIDE DEF a
    <3>2. a[i] \in GoodEntry
      BY <3>1
    <3> QED
      BY <3>2 DEF a, GoodEntry, Entry, Kinds
  <2>5. u.ok => x \in Stores /\ Len(x.entries) = n
    BY <2>2, <2>4, AddFindingIs
  <2> HIDE DEF x
  <2> QED
    BY <2>1, <2>2, <2>3, <2>5
<1>4. f[0] = s /\ \A i \in 1 .. n : f[i] = Settle(f[i - 1], i)
  <2>1. /\ step \in [(1 .. n) \X S -> S]
        /\ \A i \in 1 .. n, u \in S : step[<<i, u>>] = Settle(u, i)
    <3> HIDE DEF S
    <3> QED
      BY <1>3
  <2>2. s \in S
    BY DEF n
  <2> HIDE DEF step, S
  <2>3. PICK g : Takes(g, n, S, s, step)
    BY <1>1, <2>1, <2>2, Iterated
  <2>4. ASSUME NEW i \in 1 .. n PROVE i - 1 \in 0 .. n /\ g[i] = Settle(g[i - 1], i)
    <3>1. i - 1 \in 0 .. n
      BY <1>1
    <3>2. g[i - 1] \in S /\ g[i] = step[<<i, g[i - 1]>>]
      BY <2>3, <3>1 DEF Takes
    <3> QED
      BY <2>1, <3>1, <3>2
  <2>5. \A i \in 0 .. n : g[i] = Body(g, i)
    BY <1>1, <2>3, <2>4 DEF Takes
  <2>6. g = [i \in 0 .. n |-> Body(g, i)]
    <3> HIDE DEF Body
    <3> QED
      BY <2>3, <2>5 DEF Takes
  <2>7. f = [i \in 0 .. n |-> Body(f, i)]
    <3> HIDE DEF Body
    <3> QED
      BY <2>6
  <2>8. \A i \in 0 .. n : f[i] = Body(f, i)
    <3> HIDE DEF Body, f
    <3> QED
      BY <2>7
  <2> HIDE DEF f
  <2> QED
    BY <1>1, <2>8
<1> HIDE DEF f
<1> DEFINE H == {i \in 0 .. n : SettledUpTo(s, f[i], i)}
<1>5. 0 \in H
  <2>1. SubSeq(s.entries, 1, 0) = <<>>
    BY <1>1, PrefixIs
  <2>2. \A q, x : Matching(SubSeq(s.entries, 1, 0), LiveOf(q, x)) = 0
    BY <2>1, MatchingEmpty
  <2>3. \A q, x : \A kind : /\ Count(s, kind, q, x) >= Count(s, kind, q, x)
                            /\ Count(s, kind, q, x) = Count(s, kind, q, x) + 0
    <3>1. ASSUME NEW q, NEW x, NEW kind PROVE Count(s, kind, q, x) \in Nat
      BY CountsAreNatural
    <3> QED
      BY <3>1
  <2>4. SettledUpTo(s, s, 0)
    BY <2>2, <2>3 DEF SettledUpTo
  <2> QED
    BY <1>1, <1>4, <2>4
<1>6. ASSUME NEW i \in 1 .. n, i - 1 \in H PROVE i \in H
  <2>1. i \in 1 .. Len(s.entries) /\ i \in 0 .. n
    BY <1>1 DEF n
  <2>2. SettledUpTo(s, Settle(f[i - 1], i), i)
    BY <1>6, <2>1, SettleOnce
  <2> QED
    BY <1>4, <2>1, <2>2
<1>7. n \in H
  <2> HIDE DEF H
  <2>1. n \in 0 .. n
    BY <1>1
  <2> QED
    BY <1>1, <1>5, <1>6, <2>1, UpTo
<1>8. SettledUpTo(s, t, n)
  BY <1>7
<1> HIDE DEF t
<1>9. /\ t \in [entries : Seq(GoodEntry), findings : Seq(GoodFinding), ok : BOOLEAN, budget : Nat]
      /\ Len(t.entries) <= MaxEntries /\ Len(fs) <= MaxFindings /\ fs \in Seq(GoodFinding)
      /\ t \in Stores
  BY <1>8 DEF SettledUpTo, Stores
<1>10. SubSeq(s.entries, 1, n) = s.entries
  BY <1>1, PrefixIs DEF n
<1>11. ASSUME NEW q, NEW x PROVE LiveCount(t, q, x) = LiveCount(s, q, x)
  <2> DEFINE a == s.entries
             b == t.entries
             R == LiveOf(q, x)
  <2>1. a \in Seq(GoodEntry) /\ b \in Seq(GoodEntry)
    BY <1>1, <1>9
  <2>2. /\ Len(b) = Len(a)
        /\ \A j \in 1 .. Len(a) : b[j].pid = a[j].pid /\ b[j].res = a[j].res /\ b[j].live = a[j].live
    BY <1>8 DEF SettledUpTo
  <2> HIDE DEF a, b
  <2>3. \A j \in 1 .. Len(a) : a[j] \in GoodEntry /\ b[j] \in GoodEntry
    BY <2>1, <2>2
  <2>4. \A e \in GoodEntry : e \in R <=> e.pid = q /\ e.res = x /\ e.live
    BY DEF GoodEntry, Entry, LiveOf
  <2>5. \A j \in 1 .. Len(a) : a[j] \in R <=> b[j] \in R
    <3> HIDE DEF R
    <3> QED
      BY <2>2, <2>3, <2>4
  <2>6. Matching(b, R) = Matching(a, R)
    <3> HIDE DEF R
    <3> QED
      BY <2>1, <2>2, <2>5, MatchingSame
  <2> QED
    BY <2>6 DEF LiveCount, a, b
<1>12. ASSUME NEW q PROVE SameView(s, t, q)
  <2>1. Shown(t.entries, EntriesOf(q), EntryShown) = Shown(s.entries, EntriesOf(q), EntryShown)
    <3>1. /\ Len(t.entries) = Len(s.entries)
          /\ \A j \in 1 .. Len(s.entries) :
               /\ t.entries[j].pid = s.entries[j].pid /\ t.entries[j].res = s.entries[j].res
               /\ t.entries[j].live = s.entries[j].live
      BY <1>8 DEF SettledUpTo
    <3> QED
      BY <1>9, <3>1, EntriesAlike
  <2> QED
    BY <1>8, <2>1 DEF SameView, SettledUpTo
<1>13. CASE ~t.ok
  BY <1>2, <1>8, <1>9, <1>13, <1>12 DEF SettledUpTo
<1>14. CASE t.ok
  <2> HIDE DEF fs
  <2>1. /\ gs \in Seq(GoodFinding) /\ Len(gs) = Len(fs)
        /\ \A i \in 1 .. Len(fs) : gs[i] = [fs[i] EXCEPT !.exec_pending = FALSE]
    <3>1. DOMAIN fs = 1 .. Len(fs) /\ Len(fs) \in Nat /\ \A i \in 1 .. Len(fs) : fs[i] \in GoodFinding
      BY <1>9
    <3>2. \A i \in 1 .. Len(fs) : [fs[i] EXCEPT !.exec_pending = FALSE] \in GoodFinding
      <4>1. \A g \in GoodFinding : [g EXCEPT !.exec_pending = FALSE] \in GoodFinding
        BY DEF GoodFinding, Finding
      <4> QED
        BY <3>1, <4>1
    <3> QED
      BY <3>1, <3>2
  <2> HIDE DEF gs
  <2>2. /\ v \in [entries : Seq(GoodEntry), findings : Seq(GoodFinding), ok : BOOLEAN, budget : Nat]
        /\ v.entries = t.entries /\ v.findings = gs /\ v.ok = t.ok
    BY <1>9, <2>1 DEF v
  <2>3. v \in Stores
    BY <1>9, <2>1, <2>2 DEF Stores
  <2>4. ASSUME NEW k, NEW q, NEW x PROVE Count(v, k, q, x) = Count(t, k, q, x)
    <3> DEFINE R == FindingsOf(k, q, x)
    <3>1. \A g \in GoodFinding : g \in R <=> [g EXCEPT !.exec_pending = FALSE] \in R
      <4>1. \A g \in GoodFinding : g \in R <=> g.kind = k /\ g.pid = q /\ g.res = x
        BY DEF GoodFinding, Finding, FindingsOf
      <4>2. \A g \in GoodFinding :
              LET h == [g EXCEPT !.exec_pending = FALSE]
              IN  h \in GoodFinding /\ h.kind = g.kind /\ h.pid = g.pid /\ h.res = g.res
        BY DEF GoodFinding, Finding
      <4> HIDE DEF R
      <4> QED
        BY <4>1, <4>2
    <3>2. \A i \in 1 .. Len(fs) : fs[i] \in GoodFinding
      BY <1>9
    <3>3. \A i \in 1 .. Len(fs) : fs[i] \in R <=> gs[i] \in R
      <4> HIDE DEF R
      <4> SUFFICES ASSUME NEW i \in 1 .. Len(fs) PROVE fs[i] \in R <=> gs[i] \in R
        OBVIOUS
      <4>1. fs[i] \in R <=> [fs[i] EXCEPT !.exec_pending = FALSE] \in R
        BY <3>1, <3>2
      <4> QED
        BY <2>1, <4>1
    <3>4. Matching(gs, R) = Matching(fs, R)
      <4> HIDE DEF R
      <4> QED
        BY <1>9, <2>1, <3>3, MatchingSame
    <3> QED
      BY <2>2, <3>4 DEF Count, fs
  <2>5. ASSUME NEW q, NEW x PROVE LiveCount(v, q, x) = LiveCount(s, q, x)
    BY <1>11, <2>2 DEF LiveCount
  <2>6. ASSUME NEW q, NEW x
        PROVE  Count(v, "LEAK", q, x) = Count(s, "LEAK", q, x) + LiveCount(s, q, x)
    BY <1>8, <1>10, <1>14, <2>4 DEF SettledUpTo, LiveCount
  <2>7. Seal(s) = v
    BY <1>2, <1>14
  <2>8. \A q, x : \A kind : Count(v, kind, q, x) >= Count(s, kind, q, x)
    BY <1>8, <2>4 DEF SettledUpTo
  <2>9. ASSUME NEW q PROVE SameView(s, v, q)
    <3> DEFINE F == FoundOf(q)
    <3>1. ASSUME NEW i \in 1 .. Len(fs) PROVE Alike(fs[i], gs[i], F, FindingShown)
      <4> DEFINE g == fs[i]
                 h == gs[i]
      <4>1. g \in GoodFinding
        BY <1>9
      <4>2. h = [g EXCEPT !.exec_pending = FALSE]
        BY <2>1
      <4> HIDE DEF g, h
      <4>3. g \in Finding /\ h \in Finding /\ h.kind = g.kind /\ h.pid = g.pid /\ h.res = g.res
        BY <4>1, <4>2 DEF GoodFinding, Finding
      <4>4. FindingShown[g] = <<g.kind, g.res>> /\ FindingShown[h] = <<h.kind, h.res>>
        BY <4>3 DEF FindingShown
      <4>5. g \in F <=> h \in F
        BY <4>3 DEF FoundOf
      <4>6. Alike(g, h, F, FindingShown)
        <5> HIDE DEF F
        <5> QED
          BY <4>3, <4>4, <4>5 DEF Alike
      <4> QED
        BY <4>6 DEF g, h
    <3> HIDE DEF F
    <3>2. Shown(gs, F, FindingShown) = Shown(fs, F, FindingShown)
      BY <1>9, <2>1, <3>1, ShownAlike
    <3> QED
      BY <1>12, <2>2, <3>2 DEF SameView, F, fs
  <2> QED
    BY <2>3, <2>5, <2>6, <2>7, <2>8, <2>9
<1> QED
  BY <1>13, <1>14

-----------------------------------------------------------------------------
(* The steps of the specification. *)

\* The model under a handler, and the typed state of the model.
LEMMA StoreIs ==
  ASSUME TypeOK, NEW b \in Nat
  PROVE  /\ Store(b) \in Stores /\ Store(b).ok
         /\ Store(b).entries = entries /\ Store(b).findings = findings
<1>1. entries \in Seq(GoodEntry)
  <2>1. /\ entries \in Seq(Entry) /\ DOMAIN entries = 1 .. Len(entries)
        /\ \A i \in DOMAIN entries : entries[i].exec_pending => ~entries[i].live
    BY DEF TypeOK
  <2>2. \A i \in 1 .. Len(entries) : entries[i] \in GoodEntry
    BY <2>1 DEF GoodEntry
  <2> QED
    BY <2>1, <2>2
<1>2. findings \in Seq(GoodFinding)
  <2>1. /\ findings \in Seq(Finding) /\ DOMAIN findings = 1 .. Len(findings)
        /\ \A i \in DOMAIN findings : findings[i].exec_pending => findings[i].kind = "EXEC_INHERIT"
    BY DEF TypeOK
  <2>2. \A i \in 1 .. Len(findings) : findings[i] \in GoodFinding
    BY <2>1 DEF GoodFinding
  <2> QED
    BY <2>1, <2>2
<1>3. Len(entries) <= MaxEntries /\ Len(findings) <= MaxFindings
  BY DEF TypeOK
<1> QED
  BY <1>1, <1>2, <1>3 DEF Store, Stores

LEMMA StoreTyped ==
  ASSUME NEW t \in Stores, entries' = t.entries, findings' = t.findings,
         finished' \in BOOLEAN, run' \in Runs \cup {Null}, status' \in {0, -1},
         closes' \in [Pids -> [Resources -> Nat]], contributors' \subseteq Runs
  PROVE  TypeOK'
<1>1. /\ entries' \in Seq(GoodEntry) /\ findings' \in Seq(GoodFinding)
      /\ Len(entries') <= MaxEntries /\ Len(findings') <= MaxFindings
  BY DEF Stores
<1>2. /\ entries' \in Seq(Entry)
      /\ \A i \in DOMAIN entries' : entries'[i].exec_pending => ~entries'[i].live
  <2>1. \A i \in 1 .. Len(entries') : entries'[i] \in GoodEntry
    BY <1>1
  <2>2. DOMAIN entries' = 1 .. Len(entries')
    BY <1>1
  <2>3. \A i \in 1 .. Len(entries') : entries'[i] \in Entry
    BY <2>1 DEF GoodEntry
  <2> QED
    BY <1>1, <2>1, <2>2, <2>3 DEF GoodEntry
<1>3. /\ findings' \in Seq(Finding)
      /\ \A i \in DOMAIN findings' : findings'[i].exec_pending => findings'[i].kind = "EXEC_INHERIT"
  <2>1. \A i \in 1 .. Len(findings') : findings'[i] \in GoodFinding
    BY <1>1
  <2>2. DOMAIN findings' = 1 .. Len(findings')
    BY <1>1
  <2>3. \A i \in 1 .. Len(findings') : findings'[i] \in Finding
    BY <2>1 DEF GoodFinding
  <2> QED
    BY <1>1, <2>1, <2>2, <2>3 DEF GoodFinding
<1> QED
  BY <1>1, <1>2, <1>3 DEF TypeOK

\* Only the releases of resources count.
LEMMA AdvancesSame ==
  ASSUME NEW s, NEW t, NEW p, NEW rs, Advances(s, t, p, rs), NEW o, NEW others,
         \A q \in Pids, x \in Resources : (q = p /\ x \in rs) <=> (q = o /\ x \in others)
  PROVE  Advances(s, t, o, others)
<1>1. ASSUME t.ok, NEW q \in Pids, NEW x \in Resources
      PROVE  Accounted(t, q, x) = Accounted(s, q, x) + (IF q = o /\ x \in others THEN 1 ELSE 0)
  <2>1. Accounted(t, q, x) = Accounted(s, q, x) + (IF q = p /\ x \in rs THEN 1 ELSE 0)
    BY <1>1 DEF Advances
  <2>2. (q = p /\ x \in rs) <=> (q = o /\ x \in others)
    OBVIOUS
  <2> QED
    BY <2>1, <2>2
<1> QED
  BY <1>1 DEF Advances

\* A record that passed the gate of ingest, and its handler.
Handled(id, p, b, t, rs) ==
  /\ \E kind : Admits(kind, id)
  /\ Advances(Store(b), t, p, rs)
  /\ \E o \in Pids : Spares(Store(b), t, o)
  /\ Ingested(id, t, p, rs)

\* What a step of the model is.
LEMMA StepIs ==
  ASSUME TypeOK, Next
  PROVE  \/ \E id \in Runs : RefuseRun(id)
         \/ \E id \in Runs, p \in Pids, b \in Nat : \E t, rs : Handled(id, p, b, t, rs)
         \/ \E id \in Runs, p \in Pids : IngestExecFail(id, p)
         \/ \E b \in Budgets : Finish(b)
         \/ Renew
<1> DEFINE Goal == \/ \E id \in Runs : RefuseRun(id)
                   \/ \E id \in Runs, p \in Pids, b \in Nat : \E t, rs : Handled(id, p, b, t, rs)
                   \/ \E id \in Runs, p \in Pids : IngestExecFail(id, p)
                   \/ \E b \in Budgets : Finish(b)
                   \/ Renew
<1>1. Budgets \subseteq Nat /\ 0 \in Nat
  BY LifecycleAssumption DEF Budgets, Unlimited
<1>2. ASSUME NEW id \in Runs, NEW p \in Pids, NEW b \in Nat, NEW t, NEW rs, Handled(id, p, b, t, rs)
      PROVE  Goal
  BY <1>2
<1>3. ASSUME NEW b \in Nat
      PROVE  /\ Store(b) \in Stores /\ Store(b).ok /\ Store(b).entries = entries
             /\ \A p : Progress(Store(b), Store(b), p, {})
             /\ \A p : Progress(Store(b), Failed(Store(b)), p, {})
  <2>1. Store(b) \in Stores /\ Store(b).ok /\ Store(b).entries = entries
    BY StoreIs
  <2> DEFINE s == Store(b)
             t == Failed(s)
  <2>2. t \in Stores /\ t.entries = s.entries /\ t.findings = s.findings /\ ~t.ok
    <3> HIDE DEF s
    <3> QED
      BY <2>1 DEF Failed, Stores, s
  <2> HIDE DEF s, t
  <2>3. ASSUME NEW p PROVE Progress(s, s, p, {}) /\ Progress(s, t, p, {})
    BY <2>1, <2>2, ProgressStutters DEF s
  <2> QED
    BY <2>1, <2>3 DEF s, t
<1> HIDE DEF Goal
<1>4. ASSUME NEW id \in Runs, NEW p \in Pids, RefuseKind(id, p) \/ IgnoreResource(id, p) PROVE Goal
  <2>1. CASE RefuseKind(id, p)
    <3>1. Handled(id, p, 0, Failed(Store(0)), {})
      BY <1>1, <1>3, <2>1 DEF RefuseKind, Handled, Progress
    <3> QED
      BY <1>1, <1>2, <3>1
  <2>2. CASE IgnoreResource(id, p)
    <3>1. Handled(id, p, 0, Store(0), {})
      BY <1>1, <1>3, <2>2 DEF IgnoreResource, Handled, Progress
    <3> QED
      BY <1>1, <1>2, <3>1
  <2> QED
    BY <1>4, <2>1, <2>2
<1>5. ASSUME NEW id \in Runs, NEW p \in Pids, NEW b \in Budgets, NEW r \in Resources,
             \/ IngestAcquire(id, p, r, b) \/ IngestRelease(id, p, r, b)
             \/ \E related \in Resources \cup {Null} : IngestReplace(id, p, r, related, b)
             \/ IngestUse(id, p, r, b)
      PROVE  Goal
  <2>0. b \in Nat /\ Store(b) \in Stores /\ Store(b).ok
    BY <1>1, <1>3
  <2>1. CASE IngestAcquire(id, p, r, b)
    <3>1. Progress(Store(b), Acquire(Store(b), p, r), p, {})
      BY <2>0, AcquireProgress
    <3>2. Handled(id, p, b, Acquire(Store(b), p, r), {})
      BY <2>1, <3>1 DEF IngestAcquire, Handled, Progress
    <3> QED
      BY <1>2, <2>0, <3>2
  <2>2. CASE IngestRelease(id, p, r, b)
    <3>1. Progress(Store(b), release_entry(Store(b), p, r), p, {r})
      BY <2>0, ReleaseProgress
    <3>2. Handled(id, p, b, release_entry(Store(b), p, r), {r})
      BY <2>2, <3>1 DEF IngestRelease, Handled, Progress
    <3> QED
      BY <1>2, <2>0, <3>2
  <2>3. ASSUME NEW related \in Resources \cup {Null}, IngestReplace(id, p, r, related, b) PROVE Goal
    <3> DEFINE rs == IF related = Null THEN {} ELSE {r}
    <3>1. Progress(Store(b), Replace(Store(b), p, r, related), p, rs)
      BY <2>0, ReplaceProgress
    <3>2. Handled(id, p, b, Replace(Store(b), p, r, related), rs)
      BY <2>3, <3>1 DEF IngestReplace, Handled, Progress
    <3> QED
      BY <1>2, <2>0, <3>2
  <2>4. CASE IngestUse(id, p, r, b)
    <3>1. Progress(Store(b), Use(Store(b), p, r), p, {})
      BY <2>0, UseProgress
    <3>2. Handled(id, p, b, Use(Store(b), p, r), {})
      BY <2>4, <3>1 DEF IngestUse, Handled, Progress
    <3> QED
      BY <1>2, <2>0, <3>2
  <2> QED
    BY <1>5, <2>1, <2>2, <2>3, <2>4
<1>6. ASSUME NEW id \in Runs, NEW p \in Pids, NEW b \in Budgets, NEW r \in Fds,
             \/ IngestOpen(id, p, r, b) \/ IngestClose(id, p, r, b)
             \/ \E closing \in BOOLEAN : IngestExec(id, p, r, closing, b)
      PROVE  Goal
  <2>0. b \in Nat /\ Store(b) \in Stores /\ Store(b).ok /\ r \in Resources
    BY <1>1, <1>3 DEF Resources
  <2>1. CASE IngestOpen(id, p, r, b)
    <3>1. Progress(Store(b), Acquire(Store(b), p, r), p, {})
      BY <2>0, AcquireProgress
    <3>2. Handled(id, p, b, Acquire(Store(b), p, r), {})
      BY <2>1, <3>1 DEF IngestOpen, Handled, Progress
    <3> QED
      BY <1>2, <2>0, <3>2
  <2>2. CASE IngestClose(id, p, r, b)
    <3>1. Progress(Store(b), release_entry(Store(b), p, r), p, {r})
      BY <2>0, ReleaseProgress
    <3>2. Handled(id, p, b, release_entry(Store(b), p, r), {r})
      BY <2>2, <3>1 DEF IngestClose, Handled, Progress
    <3> QED
      BY <1>2, <2>0, <3>2
  <2>3. ASSUME NEW closing \in BOOLEAN, IngestExec(id, p, r, closing, b) PROVE Goal
    <3>1. Progress(Store(b), Exec(Store(b), p, r, closing), p, {})
      BY <2>0, ExecProgress
    <3>2. Handled(id, p, b, Exec(Store(b), p, r, closing), {})
      BY <2>3, <3>1 DEF IngestExec, Handled, Progress
    <3> QED
      BY <1>2, <2>0, <3>2
  <2> QED
    BY <1>6, <2>1, <2>2, <2>3
<1>7. ASSUME NEW id \in Runs, NEW p \in Pids, NEW b \in Budgets, NEW a \in Ptrs \cup {Null},
             \/ IngestAlloc(id, p, a, b) \/ IngestFree(id, p, a, b)
             \/ \E new \in Ptrs \cup {Null} : IngestRealloc(id, p, a, new, b)
      PROVE  Goal
  <2>0. /\ b \in Nat /\ Store(b) \in Stores /\ Store(b).ok /\ (a # Null => a \in Resources)
        /\ Null \notin Resources /\ Progress(Store(b), Store(b), p, {})
    BY <1>1, <1>3, LifecycleAssumption DEF Resources
  <2>1. CASE IngestAlloc(id, p, a, b)
    <3> DEFINE t == IF a = Null THEN Store(b) ELSE Acquire(Store(b), p, a)
    <3>1. Progress(Store(b), t, p, {})
      BY <2>0, AcquireProgress
    <3>2. Handled(id, p, b, t, {})
      BY <2>1, <3>1 DEF IngestAlloc, Handled, Progress
    <3> QED
      BY <1>2, <2>0, <3>2
  <2>2. CASE IngestFree(id, p, a, b)
    <3> DEFINE t == IF a = Null THEN Store(b) ELSE release_entry(Store(b), p, a)
    <3>1. CASE a = Null
      <4>1. \A q \in Pids, x \in Resources : (q = p /\ x \in {}) <=> (q = p /\ x \in {a})
        BY <2>0, <3>1
      <4>2. Progress(Store(b), Store(b), p, {a})
        BY <2>0, <4>1, AdvancesSame DEF Progress
      <4> QED
        BY <1>2, <2>0, <2>2, <3>1, <4>2 DEF IngestFree, Handled, Progress
    <3>2. CASE a # Null
      <4>1. Progress(Store(b), release_entry(Store(b), p, a), p, {a})
        BY <2>0, <3>2, ReleaseProgress
      <4> QED
        BY <1>2, <2>0, <2>2, <3>2, <4>1 DEF IngestFree, Handled, Progress
    <3> QED
      BY <3>1, <3>2
  <2>3. ASSUME NEW new \in Ptrs \cup {Null}, IngestRealloc(id, p, a, new, b) PROVE Goal
    <3> DEFINE rs == IF new # Null /\ Live(Store(b), p, a) THEN {a} ELSE {}
               rs2 == IF new # Null /\ a # Null /\ Live(Store(b), p, a) THEN {a} ELSE {}
               t == Reallocate(Store(b), p, a, new)
    <3>1. Progress(Store(b), t, p, rs2)
      BY <2>0, ReallocateProgress
    <3>2. \A q \in Pids, x \in Resources : (q = p /\ x \in rs2) <=> (q = p /\ x \in rs)
      BY <2>0
    <3>3. Progress(Store(b), t, p, rs)
      <4> HIDE DEF rs, rs2, t
      <4> QED
        BY <3>1, <3>2, AdvancesSame DEF Progress
    <3>4. Handled(id, p, b, t, rs)
      BY <2>3, <3>3 DEF IngestRealloc, Handled, Progress
    <3> QED
      BY <1>2, <2>0, <3>4
  <2> QED
    BY <1>7, <2>1, <2>2, <2>3
<1>8. ASSUME NEW id \in Runs, NEW p \in Pids, NEW b \in Budgets, NEW child \in Pids,
             IngestFork(id, p, child, b)
      PROVE  Goal
  <2>0. b \in Nat /\ Store(b) \in Stores /\ Store(b).ok
    BY <1>1, <1>3
  <2>1. Progress(Store(b), Fork(Store(b), p, child), child, {})
    BY <2>0, ForkIs
  <2>2. Advances(Store(b), Fork(Store(b), p, child), p, {}) /\ Spares(Store(b), Fork(Store(b), p, child), child)
    BY <2>1, AdvancesSame DEF Progress
  <2>3. Handled(id, p, b, Fork(Store(b), p, child), {})
    BY <1>8, <2>2 DEF IngestFork, Handled, Progress
  <2> QED
    BY <1>2, <2>0, <2>3
<1>9. ASSUME \/ \E id \in Runs : RefuseRun(id)
             \/ \E id \in Runs, p \in Pids : IngestExecFail(id, p)
             \/ \E b \in Budgets : Finish(b)
             \/ Renew
      PROVE  Goal
  BY <1>9 DEF Goal
<1>10. Goal
  BY <1>4, <1>5, <1>6, <1>7, <1>8, <1>9 DEF Next
<1> QED
  BY <1>10 DEF Goal

\* What a record that reaches its handler does to the typed state; so also an
\* exec that failed.
LEMMA IngestedTyped ==
  ASSUME TypeOK, NEW id \in Runs, NEW p \in Pids, NEW t \in Stores, NEW rs, Ingested(id, t, p, rs)
  PROVE  TypeOK'
<1>1. run' \in Runs \cup {Null}
  BY DEF Ingested, Binding, TypeOK
<1>2. status' \in {0, -1} /\ finished' \in BOOLEAN
  BY DEF Ingested
<1>3. contributors' \subseteq Runs
  BY DEF Ingested, TypeOK
<1>4. closes' \in [Pids -> [Resources -> Nat]]
  <2> DEFINE more == [r \in Resources |-> closes[p][r] + (IF r \in rs THEN 1 ELSE 0)]
  <2>1. more \in [Resources -> Nat]
    <3>1. \A r \in Resources : closes[p][r] \in Nat
      BY DEF TypeOK
    <3> QED
      BY <3>1
  <2>2. closes' = IF t.ok THEN [closes EXCEPT ![p] = more] ELSE closes
    BY DEF Ingested
  <2> HIDE DEF more
  <2> QED
    BY <2>1, <2>2 DEF TypeOK
<1>5. entries' = t.entries /\ findings' = t.findings
  BY DEF Ingested
<1> QED
  BY <1>1, <1>2, <1>3, <1>4, <1>5, StoreTyped

LEMMA SealedIs ==
  ASSUME TypeOK, NEW b \in Budgets
  PROVE  /\ Sealed(b) \in Stores
         /\ \A q, x : \A kind : Count(Sealed(b), kind, q, x) >= Count(Now, kind, q, x)
         /\ finished => Sealed(b).entries = entries /\ Sealed(b).findings = findings /\ Sealed(b).ok
         /\ ~finished /\ Sealed(b).ok => \A q, x :
              /\ Count(Sealed(b), "LEAK", q, x) = Count(Now, "LEAK", q, x) + LiveCount(Now, q, x)
              /\ LiveCount(Sealed(b), q, x) = LiveCount(Now, q, x)
         /\ \A q : SameView(Now, Sealed(b), q)
<1> DEFINE s == Store(b)
<1>1. /\ s \in Stores /\ s.ok /\ s.entries = entries /\ s.findings = findings
  BY StoreIs, LifecycleAssumption DEF Budgets, Unlimited
<1> HIDE DEF s
<1>2. /\ \A kind, q, x : Count(s, kind, q, x) = Count(Now, kind, q, x)
      /\ \A q, x : LiveCount(s, q, x) = LiveCount(Now, q, x)
  BY <1>1 DEF Count, LiveCount, Now
<1>3. \A kind, q, x : Count(s, kind, q, x) >= Count(s, kind, q, x)
  <2>1. ASSUME NEW kind, NEW q, NEW x PROVE Count(s, kind, q, x) \in Nat
    BY <1>1, CountsAreNatural
  <2> QED
    BY <2>1
<1>4. CASE finished
  <2>1. Sealed(b) = s
    BY <1>4 DEF Sealed, s
  <2>2. ASSUME NEW q PROVE SameView(Now, s, q)
    BY <1>1 DEF SameView, Now
  <2> QED
    BY <1>1, <1>2, <1>3, <1>4, <2>1, <2>2
<1>5. CASE ~finished
  <2>1. Sealed(b) = Seal(s)
    BY <1>5 DEF Sealed, s
  <2>2. /\ Seal(s) \in Stores
        /\ \A q, x : \A kind : Count(Seal(s), kind, q, x) >= Count(s, kind, q, x)
        /\ Seal(s).ok => \A q, x :
             /\ Count(Seal(s), "LEAK", q, x) = Count(s, "LEAK", q, x) + LiveCount(s, q, x)
             /\ LiveCount(Seal(s), q, x) = LiveCount(s, q, x)
    BY <1>1, SealIs
  <2>3. ASSUME NEW q PROVE SameView(Now, Seal(s), q)
    <3>1. SameView(s, Seal(s), q)
      BY <1>1, SealIs
    <3> QED
      BY <1>1, <3>1 DEF SameView, Now
  <2> QED
    BY <1>2, <1>5, <2>1, <2>2, <2>3
<1> QED
  BY <1>4, <1>5

\* An empty model is typed.
LEMMA EmptyIs ==
  /\ <<>> \in Seq(Entry) /\ Len(<<>>) <= MaxEntries
  /\ <<>> \in Seq(Finding) /\ Len(<<>>) <= MaxFindings
  /\ \A i \in DOMAIN <<>> : FALSE
<1>1. Len(<<>>) = 0 /\ <<>> \in Seq(Entry) /\ <<>> \in Seq(Finding)
  OBVIOUS
<1>2. \A i \in DOMAIN <<>> : FALSE
  OBVIOUS
<1> QED
  BY <1>1, <1>2, LifecycleAssumption

LEMMA TypeStep ==
  ASSUME TypeOK, [Next]_vars
  PROVE  TypeOK'
<1>1. ASSUME NEW id \in Runs, RefuseRun(id) PROVE TypeOK'
  BY <1>1 DEF RefuseRun, TypeOK
<1>2. ASSUME NEW id \in Runs, NEW p \in Pids, NEW b \in Nat, NEW t, NEW rs, Handled(id, p, b, t, rs)
      PROVE  TypeOK'
  <2>1. t \in Stores /\ Ingested(id, t, p, rs)
    BY <1>2 DEF Handled, Advances
  <2> QED
    BY <2>1, IngestedTyped
<1>3. ASSUME NEW id \in Runs, NEW p \in Pids, IngestExecFail(id, p) PROVE TypeOK'
  <2>1. Store(0) \in Stores
    BY StoreIs
  <2>2. rollback_exec(Store(0), p) \in Stores
    BY <2>1, RollbackIs
  <2>3. Ingested(id, rollback_exec(Store(0), p), p, {})
    BY <1>3 DEF IngestExecFail
  <2> QED
    BY <2>2, <2>3, IngestedTyped
<1>4. ASSUME NEW b \in Budgets, Finish(b) PROVE TypeOK'
  <2> DEFINE t == Sealed(b)
  <2>1. t \in Stores
    BY SealedIs
  <2>2. /\ entries' = t.entries /\ findings' = t.findings /\ finished' = (finished \/ t.ok)
        /\ status' = IF t.ok THEN 0 ELSE -1
        /\ UNCHANGED <<run, closes, contributors>>
    BY <1>4 DEF Finish
  <2> HIDE DEF t
  <2>3. finished' \in BOOLEAN /\ status' \in {0, -1}
    BY <2>2
  <2>4. /\ run' \in Runs \cup {Null} /\ closes' \in [Pids -> [Resources -> Nat]]
        /\ contributors' \subseteq Runs
    BY <2>2 DEF TypeOK
  <2> QED
    BY <2>1, <2>2, <2>3, <2>4, StoreTyped
<1>5. CASE Renew
  <2>1. entries' = <<>> /\ findings' = <<>> /\ run' = Null /\ status' = 0 /\ finished' = FALSE /\ contributors' = {}
    BY <1>5 DEF Renew
  <2>2. closes' \in [Pids -> [Resources -> Nat]]
    BY <1>5 DEF Renew
  <2> QED
    BY <2>1, <2>2, EmptyIs DEF TypeOK
<1>6. CASE UNCHANGED vars
  BY <1>6 DEF vars, lifecycle, TypeOK
<1> QED
  BY <1>1, <1>2, <1>3, <1>4, <1>5, <1>6, StepIs

LEMMA TypeInit ==
  ASSUME Init PROVE TypeOK
<1>1. closes \in [Pids -> [Resources -> Nat]]
  BY DEF Init
<1>2. entries = <<>> /\ findings = <<>> /\ run = Null /\ status = 0 /\ finished = FALSE /\ contributors = {}
  BY DEF Init
<1> QED
  BY <1>1, <1>2, EmptyIs DEF TypeOK

\* Whatever records a model ingests, from however many runs, and wherever an
\* insertion fails, its state has its type: it never holds more entries or
\* findings than the two limits allow (add_entry, add_finding), only a released
\* entry waits for the outcome of an exec, and only an exec-inherit finding is
\* provisional in that way (mark_exec_entries, rollback_exec).
THEOREM TypeCorrect == Spec => []TypeOK
<1>1. Init => TypeOK
  BY TypeInit
<1>2. TypeOK /\ [Next]_vars => TypeOK'
  BY TypeStep
<1> QED
  BY <1>1, <1>2, PTL DEF Spec

-----------------------------------------------------------------------------
(* The findings of a finished model. *)

\* The evidence of a state is that of the store whose contents it holds.
LEMMA NowIs ==
  ASSUME NEW t, Now.entries = t.entries, Now.findings = t.findings, NEW q, NEW x
  PROVE  /\ \A kind : Count(Now, kind, q, x) = Count(t, kind, q, x)
         /\ LiveCount(Now, q, x) = LiveCount(t, q, x)
         /\ Known(Now, q, x) = Known(t, q, x)
         /\ Live(Now, q, x) = Live(t, q, x)
         /\ Accounted(Now, q, x) = Accounted(t, q, x)
<1>1. /\ \A kind : Count(Now, kind, q, x) = Count(t, kind, q, x)
      /\ LiveCount(Now, q, x) = LiveCount(t, q, x)
      /\ Known(Now, q, x) = Known(t, q, x)
      /\ Live(Now, q, x) = Live(t, q, x)
  BY DEF Count, LiveCount, Known, Live, find_latest
<1>2. Matching(Now.entries, ReleasedOf(q, x)) = Matching(t.entries, ReleasedOf(q, x))
  OBVIOUS
<1> QED
  BY <1>1, <1>2 DEF Accounted

LEMMA NextNowIs ==
  ASSUME NEW t, entries' = t.entries, findings' = t.findings, NEW q, NEW x
  PROVE  /\ \A kind : Count(Now', kind, q, x) = Count(t, kind, q, x)
         /\ LiveCount(Now', q, x) = LiveCount(t, q, x)
         /\ Known(Now', q, x) = Known(t, q, x)
         /\ Live(Now', q, x) = Live(t, q, x)
         /\ Accounted(Now', q, x) = Accounted(t, q, x)
<1>1. Now'.entries = t.entries /\ Now'.findings = t.findings
  BY DEF Now
<1>2. /\ \A kind : Count(Now', kind, q, x) = Count(t, kind, q, x)
      /\ LiveCount(Now', q, x) = LiveCount(t, q, x)
      /\ Known(Now', q, x) = Known(t, q, x)
      /\ Live(Now', q, x) = Live(t, q, x)
  BY <1>1 DEF Count, LiveCount, Known, Live, find_latest
<1>3. Matching(Now'.entries, ReleasedOf(q, x)) = Matching(t.entries, ReleasedOf(q, x))
  BY <1>1
<1> QED
  BY <1>2, <1>3 DEF Accounted

\* Nothing that counts is negative.
LEMMA NowCounts ==
  ASSUME TypeOK, NEW q, NEW x
  PROVE  /\ \A kind : Count(Now, kind, q, x) \in Nat
         /\ LiveCount(Now, q, x) \in Nat
         /\ Accounted(Now, q, x) \in Nat
<1> DEFINE s == Store(0)
<1>1. s \in Stores /\ s.entries = entries /\ s.findings = findings
  BY StoreIs
<1> HIDE DEF s
<1>2. Now.entries = s.entries /\ Now.findings = s.findings
  BY <1>1 DEF Now
<1>3. s.entries \in Seq(GoodEntry)
  BY <1>1 DEF Stores
<1>4. LiveCount(s, q, x) \in Nat
  BY <1>3, MatchingIs DEF LiveCount
<1>5. (\A kind : Count(s, kind, q, x) \in Nat) /\ Accounted(s, q, x) \in Nat
  BY <1>1, CountsAreNatural
<1> QED
  BY <1>2, <1>4, <1>5, NowIs

\* No record and no refusal finishes a model.
LEMMA FinishOnly ==
  ASSUME TypeOK, Next, finished'
  PROVE  \/ \E id \in Runs : RefuseRun(id)
         \/ \E b \in Budgets : Finish(b)
<1>1. ASSUME NEW id, NEW t, NEW p, NEW rs, Ingested(id, t, p, rs) PROVE FALSE
  BY <1>1 DEF Ingested
<1>2. ASSUME NEW id, NEW p, NEW b, NEW t, NEW rs, Handled(id, p, b, t, rs) PROVE FALSE
  BY <1>1, <1>2 DEF Handled
<1>3. ASSUME NEW id, NEW p, IngestExecFail(id, p) PROVE FALSE
  BY <1>1, <1>3 DEF IngestExecFail
<1>4. ~Renew
  BY DEF Renew
<1> QED
  BY <1>2, <1>3, <1>4, StepIs

\* Finish keeps what a finished model reports.
LEMMA FinishLeaks ==
  ASSUME TypeOK, NEW b \in Budgets, Finish(b), finished', NEW q, NEW x
  PROVE  /\ finished => /\ Count(Now', "LEAK", q, x) = Count(Now, "LEAK", q, x)
                        /\ LiveCount(Now', q, x) = LiveCount(Now, q, x)
         /\ ~finished => /\ Count(Now', "LEAK", q, x) = Count(Now, "LEAK", q, x) + LiveCount(Now, q, x)
                         /\ LiveCount(Now', q, x) = LiveCount(Now, q, x)
<1> DEFINE s == Sealed(b)
<1>1. /\ finished => s.entries = entries /\ s.findings = findings
      /\ ~finished /\ s.ok =>
           /\ Count(s, "LEAK", q, x) = Count(Now, "LEAK", q, x) + LiveCount(Now, q, x)
           /\ LiveCount(s, q, x) = LiveCount(Now, q, x)
  BY SealedIs
<1>2. entries' = s.entries /\ findings' = s.findings /\ (finished \/ s.ok)
  BY DEF Finish
<1> HIDE DEF s
<1>3. /\ Count(Now', "LEAK", q, x) = Count(s, "LEAK", q, x)
      /\ LiveCount(Now', q, x) = LiveCount(s, q, x)
  BY <1>2, NextNowIs
<1>4. CASE finished
  <2>1. Now.entries = s.entries /\ Now.findings = s.findings
    BY <1>1, <1>4 DEF Now
  <2>2. /\ Count(Now, "LEAK", q, x) = Count(s, "LEAK", q, x)
        /\ LiveCount(Now, q, x) = LiveCount(s, q, x)
    BY <2>1, NowIs
  <2> QED
    BY <1>3, <1>4, <2>2
<1>5. CASE ~finished
  BY <1>1, <1>2, <1>3, <1>5
<1> QED
  BY <1>4, <1>5

LEMMA LeaksCompleteStep ==
  ASSUME TypeOK, LeaksComplete, [Next]_vars
  PROVE  LeaksComplete'
<1>1. SUFFICES ASSUME finished', NEW p \in Pids, NEW r \in Resources
               PROVE  Count(Now', "LEAK", p, r) >= LiveCount(Now', p, r)
  BY DEF LeaksComplete
<1>2. Count(Now, "LEAK", p, r) \in Nat /\ LiveCount(Now, p, r) \in Nat
  BY NowCounts
<1>3. finished => Count(Now, "LEAK", p, r) >= LiveCount(Now, p, r)
  BY DEF LeaksComplete
<1>4. ASSUME UNCHANGED <<entries, findings, finished>>
      PROVE  Count(Now', "LEAK", p, r) >= LiveCount(Now', p, r)
  <2>1. Now' = Now /\ finished
    BY <1>1, <1>4 DEF Now
  <2> QED
    BY <1>3, <2>1
<1>5. ASSUME NEW b \in Budgets, Finish(b)
      PROVE  Count(Now', "LEAK", p, r) >= LiveCount(Now', p, r)
  BY <1>1, <1>2, <1>3, <1>5, FinishLeaks
<1>6. CASE UNCHANGED vars
  BY <1>4, <1>6 DEF vars, lifecycle
<1>7. ASSUME NEW id \in Runs, RefuseRun(id) PROVE UNCHANGED <<entries, findings, finished>>
  BY <1>7 DEF RefuseRun
<1> QED
  BY <1>1, <1>4, <1>5, <1>6, <1>7, FinishOnly

\* However often finish is called, wherever it fails for want of memory or room
\* and is called again, and whatever records come in between: a model that is
\* finished has at least one leak finding for every time a resource is live
\* (p101_tool_event_lifecycle_finish, which only marks the model finished after
\* the last live entry was recorded).  No assumption on the client is needed.
THEOREM LeaksAreReported == Spec => []LeaksComplete
<1>1. Init => TypeOK /\ LeaksComplete
  <2>1. Init => LeaksComplete
    BY DEF Init, LeaksComplete
  <2> QED
    BY <2>1, TypeInit
<1>2. TypeOK /\ LeaksComplete /\ [Next]_vars => TypeOK' /\ LeaksComplete'
  BY TypeStep, LeaksCompleteStep
<1> QED
  BY <1>1, <1>2, PTL DEF Spec

-----------------------------------------------------------------------------
(* The account of a client that gives a model up at its first failure and  *)
(* feeds it nothing once it finished.                                      *)

\* What lets every step account for its releases, and finish report each live
\* resource as often as it is live: before finish there is no leak finding.
Balanced ==
  ~finished /\ status = 0 => \A p \in Pids, r \in Resources :
    /\ closes[p][r] = Accounted(Now, p, r)
    /\ Count(Now, "LEAK", p, r) = 0

AccountInv == TypeOK /\ Balanced /\ LeaksExact

LEMMA StrictGate ==
  ASSUME Strict
  PROVE  /\ \A kind, id : Admits(kind, id) => status = 0 /\ ~finished
         /\ \A id : RefuseRun(id) => status = 0 /\ ~finished
         /\ \A b : Finish(b) => status = 0
BY DEF Admits, MayIngest, MayCall, RefuseRun, Finish

\* A handler that accounts for its releases and records no leak keeps the
\* account, as ingest adds those releases to the history.
LEMMA IngestedBalanced ==
  ASSUME TypeOK, Balanced, ~finished, status = 0, NEW id, NEW t, NEW p \in Pids, NEW rs,
         Ingested(id, t, p, rs),
         t.ok => \A q \in Pids, x \in Resources :
           /\ Accounted(t, q, x) = Accounted(Now, q, x) + (IF q = p /\ x \in rs THEN 1 ELSE 0)
           /\ Count(t, "LEAK", q, x) = Count(Now, "LEAK", q, x)
  PROVE  Balanced' /\ LeaksExact'
<1>1. LeaksExact'
  BY DEF LeaksExact, Ingested
<1>2. SUFFICES ASSUME t.ok, NEW q \in Pids, NEW x \in Resources
               PROVE  closes'[q][x] = Accounted(Now', q, x) /\ Count(Now', "LEAK", q, x) = 0
  <2>1. status' = 0 => t.ok
    BY DEF Ingested
  <2> QED
    BY <1>1, <2>1 DEF Balanced, Accounted
<1>3. /\ Accounted(t, q, x) = Accounted(Now, q, x) + (IF q = p /\ x \in rs THEN 1 ELSE 0)
      /\ Count(t, "LEAK", q, x) = Count(Now, "LEAK", q, x)
  BY <1>2
<1>4. closes[q][x] = Accounted(Now, q, x) /\ Count(Now, "LEAK", q, x) = 0
  BY DEF Balanced
<1>5. entries' = t.entries /\ findings' = t.findings
  BY DEF Ingested
<1>6. /\ Accounted(Now', q, x) = Accounted(t, q, x)
      /\ Count(Now', "LEAK", q, x) = Count(t, "LEAK", q, x)
  BY <1>5, NextNowIs
<1>7. closes'[q][x] = closes[q][x] + (IF q = p /\ x \in rs THEN 1 ELSE 0)
  <2>1. closes' = [closes EXCEPT ![p] = [r \in Resources |-> @[r] + (IF r \in rs THEN 1 ELSE 0)]]
    BY <1>2 DEF Ingested
  <2>2. closes \in [Pids -> [Resources -> Nat]]
    BY DEF TypeOK
  <2>3. closes[q][x] \in Nat
    BY <2>2
  <2> QED
    BY <2>1, <2>2, <2>3
<1> QED
  BY <1>3, <1>4, <1>6, <1>7

LEMMA EmptyCounts ==
  ASSUME NEW s, s.entries = <<>>, s.findings = <<>>, NEW q, NEW x
  PROVE  Accounted(s, q, x) = 0 /\ \A kind : Count(s, kind, q, x) = 0
<1>1. \A kind : Count(s, kind, q, x) = 0
  BY MatchingEmpty DEF Count
<1>2. Matching(s.entries, ReleasedOf(q, x)) = 0
  BY MatchingEmpty
<1> QED
  BY <1>1, <1>2 DEF Accounted

\* A new model is balanced.
LEMMA FreshBalanced ==
  ASSUME entries' = <<>>, findings' = <<>>, finished' = FALSE,
         closes' = [p \in Pids |-> [r \in Resources |-> 0]]
  PROVE  Balanced' /\ LeaksExact'
<1>1. ASSUME NEW p \in Pids, NEW r \in Resources
      PROVE  closes'[p][r] = Accounted(Now', p, r) /\ Count(Now', "LEAK", p, r) = 0
  <2>1. closes'[p][r] = 0 /\ Now'.entries = <<>> /\ Now'.findings = <<>>
    BY DEF Now
  <2> QED
    BY <2>1, EmptyCounts
<1>2. LeaksExact'
  BY DEF LeaksExact
<1> QED
  BY <1>1, <1>2 DEF Balanced, Accounted

LEMMA AccountStep ==
  ASSUME Strict, AccountInv, [Next]_vars
  PROVE  AccountInv'
<1>1. TypeOK /\ Balanced /\ LeaksExact /\ TypeOK'
  BY TypeStep DEF AccountInv
<1>2. SUFFICES Balanced' /\ LeaksExact'
  BY <1>1 DEF AccountInv
<1>3. ASSUME NEW id \in Runs, RefuseRun(id) PROVE Balanced' /\ LeaksExact'
  <2>1. status' = -1 /\ ~finished /\ finished' = finished
    BY <1>3, StrictGate DEF RefuseRun
  <2> QED
    BY <2>1 DEF Balanced, LeaksExact
<1>4. ASSUME NEW id \in Runs, NEW p \in Pids, NEW b \in Nat, NEW t, NEW rs, Handled(id, p, b, t, rs)
      PROVE  Balanced' /\ LeaksExact'
  <2> DEFINE s == Store(b)
  <2>1. status = 0 /\ ~finished /\ Advances(s, t, p, rs) /\ Ingested(id, t, p, rs)
    BY <1>4, StrictGate DEF Handled
  <2>2. s.entries = entries /\ s.findings = findings
    BY <1>1, StoreIs
  <2> HIDE DEF s
  <2>3. ASSUME t.ok, NEW q \in Pids, NEW x \in Resources
        PROVE  /\ Accounted(t, q, x) = Accounted(Now, q, x) + (IF q = p /\ x \in rs THEN 1 ELSE 0)
               /\ Count(t, "LEAK", q, x) = Count(Now, "LEAK", q, x)
    <3>1. /\ Accounted(t, q, x) = Accounted(s, q, x) + (IF q = p /\ x \in rs THEN 1 ELSE 0)
          /\ Count(t, "LEAK", q, x) = Count(s, "LEAK", q, x)
      BY <2>1, <2>3 DEF Progress, Advances
    <3>2. Now.entries = s.entries /\ Now.findings = s.findings
      BY <2>2 DEF Now
    <3>3. /\ Accounted(Now, q, x) = Accounted(s, q, x)
          /\ Count(Now, "LEAK", q, x) = Count(s, "LEAK", q, x)
      BY <3>2, NowIs
    <3> QED
      BY <3>1, <3>3
  <2> QED
    BY <1>1, <2>1, <2>3, IngestedBalanced
<1>5. ASSUME NEW id \in Runs, NEW p \in Pids, IngestExecFail(id, p) PROVE Balanced' /\ LeaksExact'
  <2> DEFINE s == Store(0)
             t == rollback_exec(s, p)
  <2>1. status = 0 /\ ~finished /\ Ingested(id, t, p, {})
    BY <1>5, StrictGate DEF IngestExecFail
  <2>2. s \in Stores /\ s.entries = entries /\ s.findings = findings
    BY <1>1, StoreIs
  <2> HIDE DEF s
  <2>3. ASSUME t.ok, NEW q \in Pids, NEW x \in Resources
        PROVE  /\ Accounted(t, q, x) = Accounted(Now, q, x) + (IF q = p /\ x \in {} THEN 1 ELSE 0)
               /\ Count(t, "LEAK", q, x) = Count(Now, "LEAK", q, x)
    <3>1. "LEAK" \in Kinds
      BY DEF Kinds
    <3>2. /\ Accounted(t, q, x) = Accounted(s, q, x)
          /\ Count(t, "LEAK", q, x) = Count(s, "LEAK", q, x)
      BY <2>2, <3>1, RollbackIs
    <3>3. Now.entries = s.entries /\ Now.findings = s.findings
      BY <2>2 DEF Now
    <3>4. /\ Accounted(Now, q, x) = Accounted(s, q, x)
          /\ Count(Now, "LEAK", q, x) = Count(s, "LEAK", q, x)
      BY <3>3, NowIs
    <3>5. Accounted(s, q, x) \in Nat
      BY <2>2, CountsAreNatural
    <3> QED
      BY <3>2, <3>4, <3>5
  <2> HIDE DEF t
  <2> QED
    BY <1>1, <2>1, <2>3, IngestedBalanced
<1>6. ASSUME NEW b \in Budgets, Finish(b) PROVE Balanced' /\ LeaksExact'
  <2>1. status = 0
    BY <1>6, StrictGate
  <2>2. Balanced'
    <3>1. finished' \/ status' = -1
      BY <1>6 DEF Finish
    <3> QED
      BY <3>1 DEF Balanced
  <2>3. SUFFICES ASSUME finished', NEW p \in Pids, NEW r \in Resources
                 PROVE  Count(Now', "LEAK", p, r) = LiveCount(Now', p, r)
    BY <2>2 DEF LeaksExact
  <2>4. finished => Count(Now, "LEAK", p, r) = LiveCount(Now, p, r)
    BY <1>1 DEF LeaksExact
  <2>5. ~finished => Count(Now, "LEAK", p, r) = 0
    BY <1>1, <2>1 DEF Balanced
  <2>6. LiveCount(Now, p, r) \in Nat
    BY <1>1, NowCounts
  <2>7. /\ finished => /\ Count(Now', "LEAK", p, r) = Count(Now, "LEAK", p, r)
                       /\ LiveCount(Now', p, r) = LiveCount(Now, p, r)
        /\ ~finished => /\ Count(Now', "LEAK", p, r) = Count(Now, "LEAK", p, r) + LiveCount(Now, p, r)
                        /\ LiveCount(Now', p, r) = LiveCount(Now, p, r)
    BY <1>1, <1>6, <2>3, FinishLeaks
  <2> QED
    BY <2>4, <2>5, <2>6, <2>7
<1>7. CASE Renew
  <2>1. /\ entries' = <<>> /\ findings' = <<>> /\ finished' = FALSE
        /\ closes' = [p \in Pids |-> [r \in Resources |-> 0]]
    BY <1>7 DEF Renew
  <2> QED
    BY <2>1, FreshBalanced
<1>8. CASE UNCHANGED vars
  <2>1. Now' = Now /\ UNCHANGED <<finished, status, closes>>
    BY <1>8 DEF vars, lifecycle, Now
  <2> QED
    BY <1>1, <2>1 DEF Balanced, LeaksExact
<1> QED
  BY <1>1, <1>3, <1>4, <1>5, <1>6, <1>7, <1>8, StepIs

LEMMA AccountInit ==
  ASSUME Init PROVE AccountInv
<1>1. TypeOK /\ ~finished
  BY TypeInit DEF Init
<1>2. ASSUME NEW p \in Pids, NEW r \in Resources
      PROVE  closes[p][r] = Accounted(Now, p, r) /\ Count(Now, "LEAK", p, r) = 0
  <2>1. closes[p][r] = 0 /\ Now.entries = <<>> /\ Now.findings = <<>>
    BY DEF Init, Now
  <2> QED
    BY <2>1, EmptyCounts
<1>3. LeaksExact
  BY <1>1 DEF LeaksExact
<1>4. Balanced
  BY <1>2 DEF Balanced
<1> QED
  BY <1>1, <1>3, <1>4 DEF AccountInv

\* The invariant says what the properties say.
LEMMA AccountInvImplies ==
  AccountInv => ReleasesAccounted /\ LeaksExact
<1>1. ASSUME AccountInv, ~finished, status = 0, NEW p \in Pids, NEW r \in Resources
      PROVE  closes[p][r] = Matching(entries, ReleasedOf(p, r))
               + Count(Now, "STRAY_RELEASE", p, r) + Count(Now, "DOUBLE_RELEASE", p, r)
  <2>1. closes[p][r] = Accounted(Now, p, r)
    BY <1>1 DEF AccountInv, Balanced
  <2>2. Now.entries = entries
    BY DEF Now
  <2> QED
    BY <2>1, <2>2 DEF Accounted
<1> QED
  BY <1>1 DEF AccountInv, ReleasesAccounted

\* For a client that gives the model up at its first failure, no release is
\* ever lost or counted twice: through realloc, replace, exec and its rollback,
\* and through the fork reconciliation that withdraws stray releases and plays
\* them again, each accepted release is one released entry or one finding
\* (release_entry, reconcile_stray_releases, rollback_exec).
THEOREM ReleasesAreAccounted == ASSUME Strict PROVE Spec => []ReleasesAccounted
<1>1. Init => AccountInv
  BY AccountInit
<1>2. AccountInv /\ [Next]_vars => AccountInv'
  BY AccountStep
<1>3. AccountInv => ReleasesAccounted
  BY AccountInvImplies
<1> QED
  BY <1>1, <1>2, <1>3, PTL DEF Spec

\* For the same client a finished model reports a resource as leaked exactly as
\* often as it is live, and a second call of finish adds nothing
\* (p101_tool_event_lifecycle_finish).
THEOREM LeaksAreExact == ASSUME Strict PROVE Spec => []LeaksExact
<1>1. Init => AccountInv
  BY AccountInit
<1>2. AccountInv /\ [Next]_vars => AccountInv'
  BY AccountStep
<1>3. AccountInv => LeaksExact
  BY AccountInvImplies
<1> QED
  BY <1>1, <1>2, <1>3, PTL DEF Spec

-----------------------------------------------------------------------------
(* Steps that may never happen. *)

\* What a step withdraws is provisional.
LEMMA WithdrawnIs ==
  ASSUME TypeOK, Next, ~Renew, NEW kind \in Kinds, NEW p \in Pids, NEW r \in Resources,
         Count(Now', kind, p, r) < Count(Now, kind, p, r)
  PROVE  \/ kind = "STRAY_RELEASE" /\ ~Known(Now, p, r) /\ Known(Now', p, r)
         \/ kind = "EXEC_INHERIT" /\ \E id \in Runs : IngestExecFail(id, p)
<1> DEFINE Goal == \/ kind = "STRAY_RELEASE" /\ ~Known(Now, p, r) /\ Known(Now', p, r)
                   \/ kind = "EXEC_INHERIT" /\ \E id \in Runs : IngestExecFail(id, p)
<1>1. Count(Now, kind, p, r) \in Nat
  BY NowCounts
<1>2. ASSUME NEW id \in Runs, RefuseRun(id) PROVE FALSE
  <2>1. Now' = Now
    BY <1>2 DEF RefuseRun, Now
  <2> QED
    BY <1>1, <2>1
<1>3. ASSUME NEW id \in Runs, NEW o \in Pids, NEW b \in Nat, NEW t, NEW rs, Handled(id, o, b, t, rs)
      PROVE  Goal
  <2> DEFINE s == Store(b)
  <2>1. s.entries = entries /\ s.findings = findings
    BY StoreIs
  <2>2. Advances(s, t, o, rs) /\ entries' = t.entries /\ findings' = t.findings
    BY <1>3 DEF Handled, Ingested
  <2> HIDE DEF s
  <2>3. Now.entries = s.entries /\ Now.findings = s.findings
    BY <2>1 DEF Now
  <2>4. Count(Now, kind, p, r) = Count(s, kind, p, r) /\ Known(Now, p, r) = Known(s, p, r)
    BY <2>3, NowIs
  <2>5. Count(Now', kind, p, r) = Count(t, kind, p, r) /\ Known(Now', p, r) = Known(t, p, r)
    BY <2>2, NextNowIs
  <2>6. Count(t, kind, p, r) < Count(s, kind, p, r)
          => kind = "STRAY_RELEASE" /\ ~Known(s, p, r) /\ Known(t, p, r)
    BY <2>2 DEF Progress, Advances
  <2> QED
    BY <2>4, <2>5, <2>6
<1>4. ASSUME NEW id \in Runs, NEW o \in Pids, IngestExecFail(id, o) PROVE Goal
  <2> DEFINE s == Store(0)
             t == rollback_exec(s, o)
  <2>1. s \in Stores /\ s.entries = entries /\ s.findings = findings
    BY StoreIs
  <2>2. entries' = t.entries /\ findings' = t.findings
    BY <1>4 DEF IngestExecFail, Ingested
  <2> HIDE DEF s
  <2>3. Now.entries = s.entries /\ Now.findings = s.findings
    BY <2>1 DEF Now
  <2>4. Count(Now, kind, p, r) = Count(s, kind, p, r)
    BY <2>3, NowIs
  <2>5. Count(Now', kind, p, r) = Count(t, kind, p, r)
    BY <2>2, NextNowIs
  <2>6. kind # "EXEC_INHERIT" \/ p # o => Count(t, kind, p, r) = Count(s, kind, p, r)
    BY <2>1, RollbackIs
  <2>7. kind = "EXEC_INHERIT" /\ p = o
    BY <1>1, <2>4, <2>5, <2>6
  <2> QED
    BY <1>4, <2>7
<1>5. ASSUME NEW b \in Budgets, Finish(b) PROVE FALSE
  <2> DEFINE t == Sealed(b)
  <2>1. t \in Stores /\ Count(t, kind, p, r) >= Count(Now, kind, p, r)
    BY SealedIs
  <2>2. entries' = t.entries /\ findings' = t.findings
    BY <1>5 DEF Finish
  <2> HIDE DEF t
  <2>3. Count(Now', kind, p, r) = Count(t, kind, p, r)
    BY <2>2, NextNowIs
  <2>4. Count(t, kind, p, r) \in Nat
    BY <2>1, CountsAreNatural
  <2> QED
    BY <1>1, <2>1, <2>3, <2>4
<1> QED
  BY <1>2, <1>3, <1>4, <1>5, StepIs

\* A finding, once recorded, is withdrawn only while it is provisional: a stray
\* release when a fork record makes the descriptor known to its process
\* (reconcile_stray_releases), an exec-inherit finding when its own process
\* reports that the exec failed (rollback_exec).  In particular no double
\* release, bad replacement, invalid use or leak ever disappears.
THEOREM WithdrawalIsProvisional == Spec => OnlyProvisionalWithdrawn
<1> DEFINE A == \A kind \in Kinds, p \in Pids, r \in Resources :
                  Count(Now', kind, p, r) < Count(Now, kind, p, r) /\ ~Renew
                  => \/ kind = "STRAY_RELEASE" /\ ~Known(Now, p, r) /\ Known(Now', p, r)
                     \/ /\ kind = "EXEC_INHERIT"
                        /\ \E id \in Runs : IngestExecFail(id, p)
<1>1. Init => TypeOK
  BY TypeInit
<1>2. TypeOK /\ [Next]_vars => TypeOK'
  BY TypeStep
<1>3. TypeOK /\ [Next]_vars => [A]_vars
  <2>1. ASSUME TypeOK, Next PROVE A
    BY <2>1, WithdrawnIs
  <2> QED
    BY <2>1
<1>4. [][A]_vars => OnlyProvisionalWithdrawn
  BY PTL DEF OnlyProvisionalWithdrawn
<1> QED
  BY <1>1, <1>2, <1>3, <1>4, PTL DEF Spec

\* Release, use and exec snapshot touch the evidence last, or not at all.
Untouched(s, t) == ~t.ok => t.entries = s.entries /\ t.findings = s.findings

LEMMA ReleaseUntouched ==
  ASSUME NEW s \in Stores, s.ok, NEW p \in Pids, NEW r \in Resources
  PROVE  Untouched(s, release_entry(s, p, r))
<1>1. CASE Live(s, p, r)
  <2> DEFINE i == find_latest(s, p, r, TRUE)
  <2>1. i \in 1 .. Len(s.entries)
    BY <1>1, KnownIs
  <2> HIDE DEF i
  <2>2. Untouched(s, MarkReleased(s, i))
    BY <2>1, MarkReleasedIs DEF Untouched
  <2> QED
    BY <1>1, <2>2 DEF release_entry, i
<1>2. CASE ~Live(s, p, r)
  <2>1. Unowned(s, p, r) \in Kinds
    BY DEF Unowned, Kinds
  <2>2. Untouched(s, add_finding(s, Unowned(s, p, r), p, r))
    BY <2>1, AddFindingIs DEF Untouched
  <2> QED
    BY <1>2, <2>2 DEF release_entry
<1> QED
  BY <1>1, <1>2

LEMMA UseUntouched ==
  ASSUME NEW s \in Stores, s.ok, NEW p \in Pids, NEW r \in Resources
  PROVE  Untouched(s, Use(s, p, r))
<1>1. "INVALID_USE" \in Kinds
  BY DEF Kinds
<1>2. Untouched(s, add_finding(s, "INVALID_USE", p, r)) /\ Untouched(s, s)
  BY <1>1, AddFindingIs DEF Untouched
<1> QED
  BY <1>2 DEF Use

LEMMA ExecUntouched ==
  ASSUME NEW s \in Stores, s.ok, NEW p \in Pids, NEW r \in Resources, NEW closing
  PROVE  Untouched(s, Exec(s, p, r, closing))
<1> DEFINE t == release_entry(s, p, r)
           u == [t EXCEPT !.entries[find_latest(s, p, r, TRUE)].exec_pending = TRUE]
<1>1. Exec(s, p, r, closing) \in {s, add_finding(s, "EXEC_INHERIT", p, r)}
      \/ Exec(s, p, r, closing) = IF ~t.ok THEN t ELSE u
  BY DEF Exec
<1>2. "EXEC_INHERIT" \in Kinds
  BY DEF Kinds
<1>3. Untouched(s, s) /\ Untouched(s, add_finding(s, "EXEC_INHERIT", p, r)) /\ Untouched(s, t)
  BY <1>2, AddFindingIs, ReleaseUntouched DEF Untouched
<1>4. t \in Stores
  BY ReleaseProgress DEF Progress, Advances
<1>5. t.ok => u.ok
  BY <1>4 DEF Stores
<1> HIDE DEF u, t
<1> QED
  BY <1>1, <1>3, <1>5 DEF Untouched

LEMMA FailureAtomicStep ==
  ASSUME TypeOK, NEW id \in Runs, NEW p \in Pids, NEW b \in Budgets, NEW r \in Resources,
         \/ IngestRelease(id, p, r, b)
         \/ IngestUse(id, p, r, b)
         \/ \E c \in BOOLEAN : IngestExec(id, p, r, c, b),
         status' = -1
  PROVE  entries' = entries /\ findings' = findings
<1> DEFINE s == Store(b)
<1>1. s \in Stores /\ s.ok /\ s.entries = entries /\ s.findings = findings
  BY StoreIs, LifecycleAssumption DEF Budgets, Unlimited
<1>2. ASSUME NEW t, NEW rs, Untouched(s, t), Ingested(id, t, p, rs)
      PROVE  entries' = entries /\ findings' = findings
  <2>1. ~t.ok /\ entries' = t.entries /\ findings' = t.findings
    BY <1>2 DEF Ingested
  <2> HIDE DEF s
  <2> QED
    BY <1>1, <1>2, <2>1 DEF Untouched
<1>3. CASE IngestRelease(id, p, r, b)
  <2>1. Untouched(s, release_entry(s, p, r))
    BY <1>1, ReleaseUntouched
  <2> QED
    BY <1>2, <1>3, <2>1 DEF IngestRelease
<1>4. CASE IngestUse(id, p, r, b)
  <2>1. Untouched(s, Use(s, p, r))
    BY <1>1, UseUntouched
  <2> QED
    BY <1>2, <1>4, <2>1 DEF IngestUse
<1>5. ASSUME NEW c \in BOOLEAN, IngestExec(id, p, r, c, b)
      PROVE  entries' = entries /\ findings' = findings
  <2>1. Untouched(s, Exec(s, p, r, c))
    BY <1>1, ExecUntouched
  <2> QED
    BY <1>2, <1>5, <2>1 DEF IngestExec
<1> QED
  BY <1>3, <1>4, <1>5

\* A release, a use or an exec snapshot that fails for want of memory or room
\* leaves every entry and every finding as it was, so that the client may still
\* finish the model and report it: the text is copied and the finding allocated
\* before an entry is marked (release_entry, mark_exec_entries).
THEOREM FailuresAreAtomic == Spec => FailureAtomic
<1> DEFINE A == status' = -1 /\ <<entries', findings'>> # <<entries, findings>>
                => ~\E id \in Runs, p \in Pids, b \in Budgets, r \in Resources :
                      \/ IngestRelease(id, p, r, b)
                      \/ IngestUse(id, p, r, b)
                      \/ r \in Fds /\ \E c \in BOOLEAN : IngestExec(id, p, r, c, b)
<1>1. Init => TypeOK
  BY TypeInit
<1>2. TypeOK /\ [Next]_vars => TypeOK'
  BY TypeStep
<1>3. TypeOK => A
  BY FailureAtomicStep
<1>4. [][A]_vars => FailureAtomic
  BY PTL DEF FailureAtomic
<1> QED
  BY <1>1, <1>2, <1>3, <1>4, PTL DEF Spec

-----------------------------------------------------------------------------
(* The replay and the shared ownership tables. *)

\* The rows of a table for a state and an event: there is one, and all such
\* rows have the same value.
Decides(rules, from, event, value) ==
  /\ \E row \in rules : row.from = from /\ row.event = event
  /\ \A row \in rules : row.from = from /\ row.event = event => row.value = value

LEMMA RuleIs ==
  ASSUME NEW rules, NEW from, NEW event, NEW value, Decides(rules, from, event, value)
  PROVE  RuleFor(rules, from, event).value = value
BY DEF RuleFor, Decides

LEMMA ReleaseTable ==
  /\ classify_release("never") = "stray"
  /\ classify_release("live") = "ok"
  /\ classify_release("released") = "duplicate"
<1>1. Decides(release_rules, "never", "release", "stray")
  BY DEF Decides, release_rules, Rule
<1>2. Decides(release_rules, "live", "release", "ok")
  BY DEF Decides, release_rules, Rule
<1>3. Decides(release_rules, "released", "release", "duplicate")
  BY DEF Decides, release_rules, Rule
<1> QED
  BY <1>1, <1>2, <1>3, RuleIs DEF classify_release

LEMMA ReplaceTable ==
  /\ classify_replace(TRUE, "never") = "new"
  /\ classify_replace(FALSE, "never") = "bad"
  /\ classify_replace(FALSE, "live") = "ok"
  /\ classify_replace(FALSE, "released") = "bad"
<1> DEFINE null(state) == Rule(state, "replace_null", "live", "new")
           never == Rule("never", "replace_live", "never", "bad")
           live == Rule("live", "replace_live", "live", "ok")
           released == Rule("released", "replace_live", "released", "bad")
<1>1. /\ null("never") \in replace_rules /\ never \in replace_rules
      /\ live \in replace_rules /\ released \in replace_rules
  BY DEF replace_rules, States
<1>2. \A row \in replace_rules :
        (\E state : row = null(state)) \/ row = never \/ row = live \/ row = released
  BY DEF replace_rules
<1>3. /\ never.from = "never" /\ never.event = "replace_live" /\ never.value = "bad"
      /\ live.from = "live" /\ live.event = "replace_live" /\ live.value = "ok"
      /\ released.from = "released" /\ released.event = "replace_live" /\ released.value = "bad"
  BY DEF Rule
<1>4. \A state : /\ null(state).from = state /\ null(state).event = "replace_null"
                 /\ null(state).value = "new"
  BY DEF Rule
<1> HIDE DEF null, never, live, released
<1>5. Decides(replace_rules, "never", "replace_null", "new")
  BY <1>1, <1>2, <1>3, <1>4 DEF Decides
<1>6. Decides(replace_rules, "never", "replace_live", "bad")
  BY <1>1, <1>2, <1>3, <1>4 DEF Decides
<1>7. Decides(replace_rules, "live", "replace_live", "ok")
  BY <1>1, <1>2, <1>3, <1>4 DEF Decides
<1>8. Decides(replace_rules, "released", "replace_live", "bad")
  BY <1>1, <1>2, <1>3, <1>4 DEF Decides
<1> QED
  BY <1>5, <1>6, <1>7, <1>8, RuleIs DEF classify_replace

LEMMA ExecTable ==
  /\ \A state \in States : ~exec_inherits(state, TRUE)
  /\ ~exec_inherits("never", FALSE) /\ ~exec_inherits("released", FALSE)
  /\ exec_inherits("live", FALSE)
<1>1. ASSUME NEW state \in States PROVE Decides(exec_rules, state, "exec_close", FALSE)
  BY DEF Decides, exec_rules, Rule, States
<1>2. Decides(exec_rules, "never", "exec_keep", FALSE)
  BY DEF Decides, exec_rules, Rule
<1>3. Decides(exec_rules, "released", "exec_keep", FALSE)
  BY DEF Decides, exec_rules, Rule
<1>4. Decides(exec_rules, "live", "exec_keep", TRUE)
  BY DEF Decides, exec_rules, Rule
<1>5. ASSUME NEW state \in States PROVE ~exec_inherits(state, TRUE)
  BY <1>1, RuleIs DEF exec_inherits
<1>6. ~exec_inherits("never", FALSE) /\ ~exec_inherits("released", FALSE) /\ exec_inherits("live", FALSE)
  BY <1>2, <1>3, <1>4, RuleIs DEF exec_inherits
<1> QED
  BY <1>5, <1>6

\* What is known of a resource, in the words of the tables.
LEMMA OwnershipIs ==
  ASSUME NEW s, NEW p, NEW r
  PROVE  /\ Live(s, p, r) => OwnershipOf(s, p, r) = "live"
         /\ ~Live(s, p, r) /\ Known(s, p, r) => OwnershipOf(s, p, r) = "released"
         /\ ~Live(s, p, r) /\ ~Known(s, p, r) => OwnershipOf(s, p, r) = "never"
BY DEF OwnershipOf

\* A finding is recorded: one more of its kind, and of no other.
LEMMA RecordedIs ==
  ASSUME NEW s \in Stores, s.ok, NEW kind \in Kinds, NEW p \in Pids, NEW r \in Resources,
         NEW k, NEW q, NEW x
  PROVE  /\ add_finding(s, kind, p, r) \in Stores
         /\ add_finding(s, kind, p, r).entries = s.entries
         /\ k # kind => Count(add_finding(s, kind, p, r), k, q, x) = Count(s, k, q, x)
         /\ add_finding(s, kind, p, r).ok /\ k = kind =>
              Count(add_finding(s, kind, p, r), k, q, x)
                = Count(s, k, q, x) + (IF q = p /\ x = r THEN 1 ELSE 0)
<1> DEFINE t == add_finding(s, kind, p, r)
<1>1. /\ t \in Stores /\ t.entries = s.entries
      /\ t.findings = IF t.ok THEN Append(s.findings, NewFinding(kind, p, r)) ELSE s.findings
  BY AddFindingIs
<1> HIDE DEF t
<1>2. Count(s, k, q, x) \in Nat
  BY CountsAreNatural
<1>3. CASE t.ok
  <2>1. t.findings = Append(s.findings, NewFinding(kind, p, r))
    BY <1>1, <1>3
  <2>2. Count(t, k, q, x) = Count(s, k, q, x) + (IF k = kind /\ q = p /\ x = r THEN 1 ELSE 0)
    BY <1>1, <2>1, FindingAppended
  <2> QED
    BY <1>1, <1>2, <2>2 DEF t
<1>4. CASE ~t.ok
  <2>1. t.findings = s.findings
    BY <1>1, <1>4
  <2>2. Count(t, k, q, x) = Count(s, k, q, x)
    BY <2>1 DEF Count
  <2> QED
    BY <1>1, <1>4, <2>2 DEF t
<1> QED
  BY <1>3, <1>4

LEMMA ReleaseAgrees ==
  ASSUME NEW s \in Stores, s.ok, NEW p \in Pids, NEW r \in Resources, release_entry(s, p, r).ok
  PROVE  /\ Count(release_entry(s, p, r), "STRAY_RELEASE", p, r) > Count(s, "STRAY_RELEASE", p, r)
              <=> classify_release(OwnershipOf(s, p, r)) = "stray"
         /\ Count(release_entry(s, p, r), "DOUBLE_RELEASE", p, r) > Count(s, "DOUBLE_RELEASE", p, r)
              <=> classify_release(OwnershipOf(s, p, r)) = "duplicate"
         /\ release_entry(s, p, r).entries # s.entries
              <=> classify_release(OwnershipOf(s, p, r)) = "ok"
<1> DEFINE t == release_entry(s, p, r)
<1>1. /\ Count(s, "STRAY_RELEASE", p, r) \in Nat /\ Count(s, "DOUBLE_RELEASE", p, r) \in Nat
  BY CountsAreNatural
<1>2. CASE Live(s, p, r)
  <2> DEFINE i == find_latest(s, p, r, TRUE)
             m == MarkReleased(s, i)
             a == s.entries
  <2>1. i \in 1 .. Len(s.entries) /\ s.entries[i].live
    BY <1>2, KnownIs
  <2>2. t = m
    BY <1>2 DEF release_entry
  <2> HIDE DEF i, t
  <2>3. m.findings = s.findings /\ m.entries = [s.entries EXCEPT ![i].live = FALSE]
    BY <2>1, <2>2, MarkReleasedIs DEF t
  <2> HIDE DEF m
  <2>4. m.entries # s.entries
    <3>1. a \in Seq(GoodEntry) /\ i \in 1 .. Len(a) /\ a[i].live /\ m.entries = [a EXCEPT ![i].live = FALSE]
      BY <2>1, <2>3 DEF Stores
    <3> HIDE DEF a
    <3>2. a[i] \in GoodEntry /\ i \in DOMAIN a
      BY <3>1
    <3>3. m.entries[i] = [a[i] EXCEPT !.live = FALSE]
      <4> DEFINE e == [a[i] EXCEPT !.live = FALSE]
      <4>1. m.entries = [a EXCEPT ![i] = e]
        BY <3>1
      <4> HIDE DEF e
      <4> QED
        BY <3>2, <4>1 DEF e
    <3>4. m.entries[i].live = FALSE
      BY <3>2, <3>3 DEF GoodEntry, Entry
    <3>5. m.entries # a
      BY <3>1, <3>4
    <3> QED
      BY <3>5 DEF a
  <2>5. \A kind : Count(m, kind, p, r) = Count(s, kind, p, r)
    BY <2>3 DEF Count
  <2>6. classify_release(OwnershipOf(s, p, r)) = "ok"
    BY <1>2, OwnershipIs, ReleaseTable
  <2> QED
    BY <1>1, <2>2, <2>4, <2>5, <2>6 DEF t
<1>3. CASE ~Live(s, p, r) /\ Known(s, p, r)
  <2> DEFINE m == add_finding(s, "DOUBLE_RELEASE", p, r)
  <2>1. t = m
    BY <1>3 DEF release_entry, Unowned
  <2>2. "DOUBLE_RELEASE" \in Kinds
    BY DEF Kinds
  <2>3. /\ m.entries = s.entries
        /\ Count(m, "STRAY_RELEASE", p, r) = Count(s, "STRAY_RELEASE", p, r)
        /\ m.ok => Count(m, "DOUBLE_RELEASE", p, r) = Count(s, "DOUBLE_RELEASE", p, r) + 1
    BY <2>2, RecordedIs
  <2>4. classify_release(OwnershipOf(s, p, r)) = "duplicate"
    BY <1>3, OwnershipIs, ReleaseTable
  <2> HIDE DEF m, t
  <2>5. m.ok
    BY <2>1 DEF t
  <2> QED
    BY <1>1, <2>1, <2>3, <2>4, <2>5 DEF t
<1>4. CASE ~Live(s, p, r) /\ ~Known(s, p, r)
  <2> DEFINE m == add_finding(s, "STRAY_RELEASE", p, r)
  <2>1. t = m
    BY <1>4 DEF release_entry, Unowned
  <2>2. "STRAY_RELEASE" \in Kinds
    BY DEF Kinds
  <2>3. /\ m.entries = s.entries
        /\ Count(m, "DOUBLE_RELEASE", p, r) = Count(s, "DOUBLE_RELEASE", p, r)
        /\ m.ok => Count(m, "STRAY_RELEASE", p, r) = Count(s, "STRAY_RELEASE", p, r) + 1
    BY <2>2, RecordedIs
  <2>4. classify_release(OwnershipOf(s, p, r)) = "stray"
    BY <1>4, OwnershipIs, ReleaseTable
  <2> HIDE DEF m, t
  <2>5. m.ok
    BY <2>1 DEF t
  <2> QED
    BY <1>1, <2>1, <2>3, <2>4, <2>5 DEF t
<1> QED
  BY <1>2, <1>3, <1>4

\* No release and no acquisition records a bad replacement.
LEMMA BadReplaceOnly ==
  ASSUME NEW s \in Stores, s.ok, NEW p \in Pids, NEW r \in Resources, NEW q, NEW x
  PROVE  /\ Count(release_entry(s, p, r), "BAD_REPLACE", q, x) = Count(s, "BAD_REPLACE", q, x)
         /\ Count(Acquire(s, p, r), "BAD_REPLACE", q, x) = Count(s, "BAD_REPLACE", q, x)
<1>1. Count(release_entry(s, p, r), "BAD_REPLACE", q, x) = Count(s, "BAD_REPLACE", q, x)
  <2>1. CASE Live(s, p, r)
    <3> DEFINE i == find_latest(s, p, r, TRUE)
    <3>1. i \in 1 .. Len(s.entries)
      BY <2>1, KnownIs
    <3> HIDE DEF i
    <3>2. MarkReleased(s, i).findings = s.findings
      BY <3>1, MarkReleasedIs
    <3> QED
      BY <2>1, <3>2 DEF release_entry, i, Count
  <2>2. CASE ~Live(s, p, r)
    <3>1. Unowned(s, p, r) \in Kinds /\ Unowned(s, p, r) # "BAD_REPLACE"
      BY DEF Unowned, Kinds
    <3>2. Count(add_finding(s, Unowned(s, p, r), p, r), "BAD_REPLACE", q, x) = Count(s, "BAD_REPLACE", q, x)
      BY <3>1, RecordedIs
    <3> QED
      BY <2>2, <3>2 DEF release_entry
  <2> QED
    BY <2>1, <2>2
<1>2. Count(Acquire(s, p, r), "BAD_REPLACE", q, x) = Count(s, "BAD_REPLACE", q, x)
  <2> DEFINE t == IF Live(s, p, r) THEN add_finding(s, "DUPLICATE_ACQUIRE", p, r) ELSE s
             u == add_entry(t, p, r)
  <2>1. "DUPLICATE_ACQUIRE" \in Kinds
    BY DEF Kinds
  <2>2. t \in Stores /\ Count(t, "BAD_REPLACE", q, x) = Count(s, "BAD_REPLACE", q, x)
    BY <2>1, RecordedIs
  <2>3. Acquire(s, p, r) = IF t.ok THEN u ELSE t
    BY DEF Acquire
  <2> HIDE DEF t
  <2>4. t.ok => u.findings = t.findings
    BY <2>2, AddEntryIs
  <2> HIDE DEF u
  <2>5. t.ok => Count(u, "BAD_REPLACE", q, x) = Count(t, "BAD_REPLACE", q, x)
    BY <2>4 DEF Count
  <2> QED
    BY <2>2, <2>3, <2>5
<1> QED
  BY <1>1, <1>2

LEMMA ReallocateAgrees ==
  ASSUME NEW s \in Stores, s.ok, NEW p \in Pids,
         NEW a \in Ptrs \cup {Null}, NEW new \in Ptrs \cup {Null}, Reallocate(s, p, a, new).ok
  PROVE  /\ a = Null \/ Live(s, p, a) => \A x :
              Count(Reallocate(s, p, a, new), "BAD_REPLACE", p, x) = Count(s, "BAD_REPLACE", p, x)
         /\ a # Null /\ ~Live(s, p, a) =>
              Count(Reallocate(s, p, a, new), "BAD_REPLACE", p, a) = Count(s, "BAD_REPLACE", p, a) + 1
         /\ new # Null =>
              Live(Reallocate(s, p, a, new), p, new)
<1> DEFINE released == release_entry(s, p, a)
           bad == add_finding(s, "BAD_REPLACE", p, a)
           acquire(t) == IF t.ok /\ new # Null THEN Acquire(t, p, new) ELSE t
           w == Reallocate(s, p, a, new)
<1>1. w = IF a = Null THEN acquire(s)
          ELSE IF ~Live(s, p, a) THEN acquire(bad)
          ELSE IF new = Null THEN s ELSE acquire(released)
  BY DEF Reallocate
<1>2. ASSUME NEW t \in Stores, acquire(t).ok, NEW x
      PROVE  /\ Count(acquire(t), "BAD_REPLACE", p, x) = Count(t, "BAD_REPLACE", p, x)
             /\ new # Null => Live(acquire(t), p, new)
             /\ t.ok
  <2>1. CASE t.ok /\ new # Null
    <3>1. new \in Resources
      BY <2>1 DEF Resources
    <3>2. Count(Acquire(t, p, new), "BAD_REPLACE", p, x) = Count(t, "BAD_REPLACE", p, x)
      BY <2>1, <3>1, BadReplaceOnly
    <3>3. Acquire(t, p, new).ok => Live(Acquire(t, p, new), p, new)
      BY <2>1, <3>1, AcquireProgress
    <3> QED
      BY <1>2, <2>1, <3>2, <3>3
  <2>2. CASE ~(t.ok /\ new # Null)
    BY <1>2, <2>2
  <2> QED
    BY <2>1, <2>2
<1>3. w.ok
  OBVIOUS
<1> HIDE DEF acquire, w
<1>4. CASE a = Null
  <2>1. w = acquire(s)
    BY <1>1, <1>4
  <2>2. ~(a # Null /\ ~Live(s, p, a))
    BY <1>4
  <2> QED
    BY <1>2, <1>3, <1>4, <2>1 DEF w
<1>5. CASE a # Null /\ ~Live(s, p, a)
  <2>1. w = acquire(bad)
    BY <1>1, <1>5
  <2>2. "BAD_REPLACE" \in Kinds /\ a \in Resources
    BY <1>5 DEF Kinds, Resources
  <2>3. bad \in Stores /\ (bad.ok => Count(bad, "BAD_REPLACE", p, a) = Count(s, "BAD_REPLACE", p, a) + 1)
    BY <2>2, RecordedIs
  <2> HIDE DEF bad
  <2>4. /\ Count(w, "BAD_REPLACE", p, a) = Count(bad, "BAD_REPLACE", p, a)
        /\ new # Null => Live(w, p, new)
        /\ bad.ok
    BY <1>2, <1>3, <2>1, <2>3
  <2> QED
    BY <1>5, <2>3, <2>4 DEF w
<1>6. CASE a # Null /\ Live(s, p, a) /\ new = Null
  <2>1. w = s
    BY <1>1, <1>6
  <2> QED
    BY <1>6, <2>1 DEF w
<1>7. CASE a # Null /\ Live(s, p, a) /\ new # Null
  <2>1. w = acquire(released)
    BY <1>1, <1>7
  <2>2. a \in Resources
    BY <1>7 DEF Resources
  <2>3. released \in Stores
    BY <2>2, ReleaseProgress DEF Progress, Advances
  <2>4. \A x : Count(released, "BAD_REPLACE", p, x) = Count(s, "BAD_REPLACE", p, x)
    BY <2>2, BadReplaceOnly
  <2> HIDE DEF released
  <2>5. \A x : Count(w, "BAD_REPLACE", p, x) = Count(released, "BAD_REPLACE", p, x)
    BY <1>2, <1>3, <2>1, <2>3
  <2>6. Live(w, p, new)
    BY <1>2, <1>3, <1>7, <2>1, <2>3
  <2> QED
    BY <1>7, <2>4, <2>5, <2>6 DEF w
<1> QED
  BY <1>4, <1>5, <1>6, <1>7

LEMMA ExecAgrees ==
  ASSUME NEW s \in Stores, s.ok, NEW p \in Pids, NEW r \in Fds, NEW closing \in BOOLEAN,
         Exec(s, p, r, closing).ok
  PROVE  Count(Exec(s, p, r, closing), "EXEC_INHERIT", p, r) > Count(s, "EXEC_INHERIT", p, r)
           <=> exec_inherits(OwnershipOf(s, p, r), closing)
<1> DEFINE t == release_entry(s, p, r)
           u == [t EXCEPT !.entries[find_latest(s, p, r, TRUE)].exec_pending = TRUE]
           w == Exec(s, p, r, closing)
<1>1. w = IF ~Live(s, p, r) THEN s
          ELSE IF ~closing THEN add_finding(s, "EXEC_INHERIT", p, r)
          ELSE IF ~t.ok THEN t ELSE u
  BY DEF Exec
<1>2. Count(s, "EXEC_INHERIT", p, r) \in Nat
  BY CountsAreNatural
<1>3. r \in Resources /\ "EXEC_INHERIT" \in Kinds
  BY DEF Resources, Kinds
<1>4. OwnershipOf(s, p, r) \in States
  BY DEF OwnershipOf, States
<1> HIDE DEF w
<1>5. CASE ~Live(s, p, r)
  <2>1. ~exec_inherits(OwnershipOf(s, p, r), closing)
    <3>1. OwnershipOf(s, p, r) \in {"never", "released"}
      BY <1>5 DEF OwnershipOf
    <3> QED
      BY <1>4, <3>1, ExecTable
  <2>2. w = s
    BY <1>1, <1>5
  <2> QED
    BY <1>2, <2>1, <2>2 DEF w
<1>6. CASE Live(s, p, r) /\ ~closing
  <2>1. w = add_finding(s, "EXEC_INHERIT", p, r)
    BY <1>1, <1>6
  <2>2. w.ok
    BY DEF w
  <2>3. Count(w, "EXEC_INHERIT", p, r) = Count(s, "EXEC_INHERIT", p, r) + 1
    BY <1>3, <2>1, <2>2, RecordedIs
  <2>4. OwnershipOf(s, p, r) = "live" /\ closing = FALSE
    BY <1>6, OwnershipIs
  <2>5. exec_inherits(OwnershipOf(s, p, r), closing)
    BY <2>4, ExecTable
  <2> QED
    BY <1>2, <2>3, <2>5 DEF w
<1>7. CASE Live(s, p, r) /\ closing
  <2>1. ~exec_inherits(OwnershipOf(s, p, r), closing)
    <3>1. closing = TRUE
      BY <1>7
    <3> QED
      BY <1>4, <3>1, ExecTable
  <2>2. w \in {t, u}
    BY <1>1, <1>7
  <2>3. t = MarkReleased(s, find_latest(s, p, r, TRUE))
    BY <1>7 DEF release_entry
  <2>4. find_latest(s, p, r, TRUE) \in 1 .. Len(s.entries)
    BY <1>7, KnownIs
  <2>5. t.findings = s.findings /\ t \in Stores
    BY <2>3, <2>4, MarkReleasedIs
  <2>6. u.findings = t.findings
    BY <2>5 DEF Stores
  <2>7. w.findings = s.findings
    <3> HIDE DEF t, u
    <3> QED
      BY <2>2, <2>5, <2>6
  <2>8. Count(w, "EXEC_INHERIT", p, r) = Count(s, "EXEC_INHERIT", p, r)
    BY <2>7 DEF Count
  <2> QED
    BY <1>2, <2>1, <2>8 DEF w
<1> QED
  BY <1>5, <1>6, <1>7

\* A handler that left t succeeded, on the evidence of the state.
LEMMA SuccessIs ==
  ASSUME TypeOK, status' = 0, NEW b \in Nat, NEW id, NEW t, NEW p, NEW rs, Ingested(id, t, p, rs)
  PROVE  /\ Store(b) \in Stores /\ Store(b).ok /\ t.ok
         /\ \A q, x : /\ \A kind : Count(Now', kind, q, x) = Count(t, kind, q, x)
                      /\ \A kind : Count(Now, kind, q, x) = Count(Store(b), kind, q, x)
                      /\ Live(Now', q, x) = Live(t, q, x)
                      /\ Known(Now', q, x) = Known(t, q, x)
                      /\ Live(Now, q, x) = Live(Store(b), q, x)
                      /\ Known(Now, q, x) = Known(Store(b), q, x)
                      /\ OwnershipOf(Now, q, x) = OwnershipOf(Store(b), q, x)
         /\ entries' = t.entries /\ entries = Store(b).entries
<1> DEFINE s == Store(b)
<1>1. s \in Stores /\ s.ok /\ s.entries = entries /\ s.findings = findings
  BY StoreIs
<1> HIDE DEF s
<1>2. t.ok /\ entries' = t.entries /\ findings' = t.findings
  BY DEF Ingested
<1>3. Now.entries = s.entries /\ Now.findings = s.findings
  BY <1>1 DEF Now
<1>4. ASSUME NEW q, NEW x
      PROVE  /\ \A kind : Count(Now', kind, q, x) = Count(t, kind, q, x)
             /\ Live(Now', q, x) = Live(t, q, x)
             /\ Known(Now', q, x) = Known(t, q, x)
  BY <1>2, NextNowIs
<1>5. ASSUME NEW q, NEW x
      PROVE  /\ \A kind : Count(Now, kind, q, x) = Count(s, kind, q, x)
             /\ Live(Now, q, x) = Live(s, q, x)
             /\ Known(Now, q, x) = Known(s, q, x)
  BY <1>3, NowIs
<1>6. \A q, x : OwnershipOf(Now, q, x) = OwnershipOf(s, q, x)
  BY <1>5 DEF OwnershipOf
<1> QED
  BY <1>1, <1>2, <1>4, <1>5, <1>6 DEF s

LEMMA ReleaseAgreedStep ==
  ASSUME TypeOK, status' = 0, NEW id \in Runs, NEW p \in Pids, NEW r \in Resources,
         NEW b \in Nat, IngestRelease(id, p, r, b)
  PROVE  ReleaseAgreed(p, r)
<1> DEFINE s == Store(b)
           t == release_entry(s, p, r)
<1>1. Ingested(id, t, p, {r})
  BY DEF IngestRelease
<1>2. /\ s \in Stores /\ s.ok /\ t.ok /\ entries' = t.entries /\ entries = s.entries
      /\ OwnershipOf(Now, p, r) = OwnershipOf(s, p, r)
  BY <1>1, SuccessIs
<1>3. \A kind : Count(Now', kind, p, r) = Count(t, kind, p, r) /\ Count(Now, kind, p, r) = Count(s, kind, p, r)
  BY <1>1, SuccessIs
<1> HIDE DEF s
<1>4. /\ Count(t, "STRAY_RELEASE", p, r) > Count(s, "STRAY_RELEASE", p, r)
           <=> classify_release(OwnershipOf(s, p, r)) = "stray"
      /\ Count(t, "DOUBLE_RELEASE", p, r) > Count(s, "DOUBLE_RELEASE", p, r)
           <=> classify_release(OwnershipOf(s, p, r)) = "duplicate"
      /\ t.entries # s.entries <=> classify_release(OwnershipOf(s, p, r)) = "ok"
  BY <1>2, ReleaseAgrees
<1> HIDE DEF t
<1> QED
  BY <1>2, <1>3, <1>4 DEF ReleaseAgreed, Added

LEMMA ReallocAgreedStep ==
  ASSUME TypeOK, status' = 0, NEW id \in Runs, NEW p \in Pids,
         NEW a \in Ptrs \cup {Null}, NEW new \in Ptrs \cup {Null},
         NEW b \in Nat, IngestRealloc(id, p, a, new, b)
  PROVE  ReallocAgreed(p, a, new)
<1> DEFINE s == Store(b)
           t == Reallocate(s, p, a, new)
           class == classify_replace(a = Null, IF a = Null THEN "never" ELSE OwnershipOf(Now, p, a))
<1>1. \E rs : Ingested(id, t, p, rs)
  BY DEF IngestRealloc
<1>2. s \in Stores /\ s.ok /\ t.ok
  BY <1>1, SuccessIs
<1>3. ASSUME NEW x
      PROVE  /\ Count(Now', "BAD_REPLACE", p, x) = Count(t, "BAD_REPLACE", p, x)
             /\ Count(Now, "BAD_REPLACE", p, x) = Count(s, "BAD_REPLACE", p, x)
             /\ Count(s, "BAD_REPLACE", p, x) \in Nat
             /\ Live(Now', p, x) = Live(t, p, x)
             /\ Live(Now, p, x) = Live(s, p, x)
  <2>1. Count(s, "BAD_REPLACE", p, x) \in Nat
    BY <1>2, CountsAreNatural
  <2>2. PICK rs : Ingested(id, t, p, rs)
    BY <1>1
  <2> HIDE DEF t
  <2>3. /\ Count(Now', "BAD_REPLACE", p, x) = Count(t, "BAD_REPLACE", p, x)
        /\ Count(Now, "BAD_REPLACE", p, x) = Count(s, "BAD_REPLACE", p, x)
    BY <2>2, SuccessIs
  <2>4. Live(Now', p, x) = Live(t, p, x) /\ Live(Now, p, x) = Live(s, p, x)
    BY <2>2, SuccessIs
  <2> QED
    BY <2>1, <2>3, <2>4
<1> HIDE DEF s
<1>4. /\ a = Null \/ Live(s, p, a) => \A x : Count(t, "BAD_REPLACE", p, x) = Count(s, "BAD_REPLACE", p, x)
      /\ a # Null /\ ~Live(s, p, a) => Count(t, "BAD_REPLACE", p, a) = Count(s, "BAD_REPLACE", p, a) + 1
      /\ new # Null => Live(t, p, new)
  BY <1>2, ReallocateAgrees
<1> HIDE DEF t
<1>5. new # Null => Live(Now', p, new)
  BY <1>3, <1>4
<1>6. class = "bad" <=> a # Null /\ ~Live(Now, p, a)
  <2>1. CASE a = Null
    <3>1. class = classify_replace(TRUE, "never")
      BY <2>1
    <3> QED
      BY <2>1, <3>1, ReplaceTable
  <2>2. CASE a # Null /\ Live(Now, p, a)
    <3>1. class = classify_replace(FALSE, "live")
      BY <2>2, OwnershipIs
    <3> QED
      BY <2>2, <3>1, ReplaceTable
  <2>3. CASE a # Null /\ ~Live(Now, p, a)
    <3>1. class \in {classify_replace(FALSE, "never"), classify_replace(FALSE, "released")}
      BY <2>3 DEF OwnershipOf
    <3> QED
      BY <2>3, <3>1, ReplaceTable
  <2> QED
    BY <2>1, <2>2, <2>3
<1> HIDE DEF class
<1>7. (\E r \in Ptrs : Added("BAD_REPLACE", p, r)) <=> a # Null /\ ~Live(Now, p, a)
  <2>1. ASSUME NEW x PROVE Added("BAD_REPLACE", p, x) <=> Count(t, "BAD_REPLACE", p, x) > Count(s, "BAD_REPLACE", p, x)
    BY <1>3 DEF Added
  <2>2. CASE a # Null /\ ~Live(Now, p, a)
    <3>1. a \in Ptrs /\ ~Live(s, p, a)
      BY <1>3, <2>2
    <3>2. Count(t, "BAD_REPLACE", p, a) > Count(s, "BAD_REPLACE", p, a)
      BY <1>3, <1>4, <2>2, <3>1
    <3> QED
      BY <2>1, <2>2, <3>1, <3>2
  <2>3. CASE a = Null \/ Live(Now, p, a)
    <3>1. a = Null \/ Live(s, p, a)
      BY <1>3, <2>3
    <3>2. \A x : ~(Count(t, "BAD_REPLACE", p, x) > Count(s, "BAD_REPLACE", p, x))
      BY <1>3, <1>4, <3>1
    <3> QED
      BY <2>1, <2>3, <3>2
  <2> QED
    BY <2>2, <2>3
<1> QED
  BY <1>5, <1>6, <1>7 DEF ReallocAgreed, class

LEMMA ExecAgreedStep ==
  ASSUME TypeOK, status' = 0, NEW id \in Runs, NEW p \in Pids, NEW r \in Fds,
         NEW closing \in BOOLEAN, NEW b \in Nat, IngestExec(id, p, r, closing, b)
  PROVE  ExecAgreed(p, r, closing)
<1> DEFINE s == Store(b)
           t == Exec(s, p, r, closing)
<1>1. Ingested(id, t, p, {})
  BY DEF IngestExec
<1>2. s \in Stores /\ s.ok /\ t.ok /\ OwnershipOf(Now, p, r) = OwnershipOf(s, p, r)
  BY <1>1, SuccessIs
<1>3. /\ Count(Now', "EXEC_INHERIT", p, r) = Count(t, "EXEC_INHERIT", p, r)
      /\ Count(Now, "EXEC_INHERIT", p, r) = Count(s, "EXEC_INHERIT", p, r)
  BY <1>1, SuccessIs
<1> HIDE DEF s
<1>4. Count(t, "EXEC_INHERIT", p, r) > Count(s, "EXEC_INHERIT", p, r)
        <=> exec_inherits(OwnershipOf(s, p, r), closing)
  BY <1>2, ExecAgrees
<1> HIDE DEF t
<1> QED
  BY <1>2, <1>3, <1>4 DEF ExecAgreed, Added

\* The replay and the ownership tables of src/ownership.c agree for every
\* resource, in every state the replay reaches: a release, a reallocation or an
\* exec snapshot that succeeds records a stray, a double release, a bad
\* replacement or an inherited descriptor exactly when the table gives that
\* verdict, and marks an entry released exactly when the table says "ok".
THEOREM ReplayFollowsTables == Spec => OwnershipAgrees
<1>1. Init => TypeOK
  BY TypeInit
<1>2. TypeOK /\ [Next]_vars => TypeOK'
  BY TypeStep
<1>3. TypeOK => RecordAgreed
  <2>1. Unlimited \in Nat
    BY LifecycleAssumption DEF Unlimited
  <2> QED
    BY <2>1, ReleaseAgreedStep, ReallocAgreedStep, ExecAgreedStep DEF RecordAgreed
<1> QED
  BY <1>1, <1>2, <1>3, PTL DEF Spec, OwnershipAgrees

-----------------------------------------------------------------------------
(* What a child inherits. *)

LEMMA InheritedStep ==
  ASSUME TypeOK, status' = 0, NEW id \in Runs, NEW p \in Pids, NEW c \in Pids, p # c,
         NEW b \in Nat, IngestFork(id, p, c, b), NEW r \in Fds
  PROVE  Inherited(p, c, r)
<1> DEFINE s == Store(b)
           t == Fork(s, p, c)
           n == Len(s.entries)
<1>1. Ingested(id, t, p, {}) /\ r \in Resources
  BY DEF IngestFork, Resources
<1>2. s \in Stores /\ s.ok /\ t.ok
  BY <1>1, SuccessIs
<1>3. /\ Known(Now', c, r) = Known(t, c, r) /\ Known(Now, c, r) = Known(s, c, r)
      /\ Live(Now', c, r) = Live(t, c, r) /\ Live(Now, c, r) = Live(s, c, r)
      /\ Live(Now, p, r) = Live(s, p, r)
      /\ OwnershipOf(Now, c, r) = OwnershipOf(s, c, r)
  BY <1>1, SuccessIs
<1>4. /\ Count(Now', "STRAY_RELEASE", c, r) = Count(t, "STRAY_RELEASE", c, r)
      /\ Count(Now, "STRAY_RELEASE", c, r) = Count(s, "STRAY_RELEASE", c, r)
  BY <1>1, SuccessIs
<1> HIDE DEF s
<1>5. Forked(s, t, n, p, c)
  BY <1>2, ForkIs
<1> HIDE DEF t
<1>6. Gives(s, n, p, r) <=> Live(s, p, r)
  <2>1. Live(s, p, r) <=> HasLive(s.entries, p, r)
    BY <1>2, KnownIs
  <2>2. Gives(s, n, p, r) <=> HasLive(s.entries, p, r)
    BY DEF Gives, HasLive
  <2> QED
    BY <2>1, <2>2
<1> HIDE DEF n
<1>7. /\ Live(s, p, r) => Known(t, c, r)
      /\ Live(s, p, r) /\ ~Known(s, c, r) =>
           /\ Count(t, "STRAY_RELEASE", c, r) = 0
           /\ Live(t, c, r) <=> Count(s, "STRAY_RELEASE", c, r) = 0
      /\ ~Live(s, p, r) => /\ Known(t, c, r) <=> Known(s, c, r)
                           /\ Live(t, c, r) <=> Live(s, c, r)
  BY <1>1, <1>2, <1>5, <1>6 DEF Forked
<1>8. ~Live(s, p, r) => OwnershipOf(Now', c, r) = OwnershipOf(s, c, r)
  BY <1>3, <1>7 DEF OwnershipOf
<1> QED
  BY <1>3, <1>4, <1>7, <1>8 DEF Inherited

\* However the records of a parent and its child interleaved before the fork
\* record came, a fork that succeeds gives the child exactly the parent's live
\* descriptors, minus those the child had already closed: as many provisional
\* stray releases as it had are withdrawn, the inherited entry is then released
\* iff there was one, and no other descriptor of the child is touched
\* (ingest_fork, reconcile_stray_releases).
THEOREM ForkInheritsExactly == Spec => ForkInherits
<1> DEFINE A == \A id \in Runs, p, c \in Pids, b \in Budgets :
                  p # c /\ status' = 0 /\ IngestFork(id, p, c, b)
                  => \A r \in Fds : Inherited(p, c, r)
<1>1. Init => TypeOK
  BY TypeInit
<1>2. TypeOK /\ [Next]_vars => TypeOK'
  BY TypeStep
<1>3. TypeOK => A
  <2>1. Budgets \subseteq Nat
    BY LifecycleAssumption DEF Budgets, Unlimited
  <2> QED
    BY <2>1, InheritedStep
<1>4. [][A]_vars => ForkInherits
  BY PTL DEF ForkInherits
<1> QED
  BY <1>1, <1>2, <1>3, <1>4, PTL DEF Spec

-----------------------------------------------------------------------------
(* One record, one process. *)

LEMMA ShownOf ==
  ASSUME NEW es \in Seq(Entry), NEW fs \in Seq(Finding), NEW q
  PROVE  LET known == Kept(es, {e \in Entry : e.pid = q})
             found == Kept(fs, {f \in Finding : f.pid = q /\ f.kind # "LEAK"})
         IN  /\ [i \in DOMAIN known |-> <<known[i].res, known[i].live>>] = Shown(es, EntriesOf(q), EntryShown)
             /\ [i \in DOMAIN found |-> <<found[i].kind, found[i].res>>] = Shown(fs, FoundOf(q), FindingShown)
<1> DEFINE E == EntriesOf(q)
           F == FoundOf(q)
           known == Kept(es, E)
           found == Kept(fs, F)
<1>1. known \in Seq(Entry) /\ found \in Seq(Finding)
  BY KeptIs
<1>2. /\ Shown(es, E, EntryShown) = [i \in DOMAIN known |-> EntryShown[known[i]]]
      /\ Shown(fs, F, FindingShown) = [i \in DOMAIN found |-> FindingShown[found[i]]]
  BY DEF Shown
<1> HIDE DEF E, F, known, found
<1>3. ASSUME NEW i \in DOMAIN known PROVE EntryShown[known[i]] = <<known[i].res, known[i].live>>
  <2>1. known[i] \in Entry
    BY <1>1
  <2> QED
    BY <2>1 DEF EntryShown
<1>4. ASSUME NEW i \in DOMAIN found PROVE FindingShown[found[i]] = <<found[i].kind, found[i].res>>
  <2>1. found[i] \in Finding
    BY <1>1
  <2> QED
    BY <2>1 DEF FindingShown
<1>5. /\ [i \in DOMAIN known |-> <<known[i].res, known[i].live>>] = Shown(es, E, EntryShown)
      /\ [i \in DOMAIN found |-> <<found[i].kind, found[i].res>>] = Shown(fs, F, FindingShown)
  BY <1>2, <1>3, <1>4
<1> QED
  BY <1>5 DEF known, found, E, F, EntriesOf, FoundOf

\* What is shown of q is what is known of it.
LEMMA ViewKept ==
  ASSUME TypeOK, TypeOK', NEW t, entries' = t.entries, findings' = t.findings,
         NEW q, SameView(Now, t, q)
  PROVE  View(q)' = View(q)
<1>1. entries \in Seq(Entry) /\ findings \in Seq(Finding)
  BY DEF TypeOK
<1>2. entries' \in Seq(Entry) /\ findings' \in Seq(Finding)
  BY DEF TypeOK
<1>3. View(q) = <<Shown(entries, EntriesOf(q), EntryShown), Shown(findings, FoundOf(q), FindingShown)>>
  BY <1>1, ShownOf DEF View
<1>4. View(q)' = <<Shown(entries', EntriesOf(q), EntryShown), Shown(findings', FoundOf(q), FindingShown)>>
  BY <1>2, ShownOf DEF View
<1>5. /\ Shown(entries', EntriesOf(q), EntryShown) = Shown(entries, EntriesOf(q), EntryShown)
      /\ Shown(findings', FoundOf(q), FindingShown) = Shown(findings, FoundOf(q), FindingShown)
  BY DEF SameView, Now
<1> QED
  BY <1>3, <1>4, <1>5

LEMMA OneProcessStep ==
  ASSUME TypeOK, [Next]_vars, ~Renew, NEW p \in Pids, NEW q \in Pids, p # q
  PROVE  View(p)' = View(p) \/ View(q)' = View(q)
<1>0. TypeOK'
  BY TypeStep
<1>1. ASSUME NEW b \in Nat, NEW t, NEW o, Spares(Store(b), t, o),
             entries' = t.entries, findings' = t.findings
      PROVE  View(p)' = View(p) \/ View(q)' = View(q)
  <2>1. ASSUME NEW x \in Pids \ {o} PROVE View(x)' = View(x)
    <3>1. SameView(Store(b), t, x)
      BY <1>1 DEF Spares
    <3>2. SameView(Now, t, x)
      BY <3>1, StoreIs DEF SameView, Now
    <3> QED
      BY <1>0, <1>1, <3>2, ViewKept
  <2>2. p \in Pids \ {o} \/ q \in Pids \ {o}
    OBVIOUS
  <2> QED
    BY <2>1, <2>2
<1>2. ASSUME NEW id \in Runs, RefuseRun(id) PROVE View(p)' = View(p)
  BY <1>2 DEF RefuseRun, View
<1>3. ASSUME NEW id \in Runs, NEW c \in Pids, NEW b \in Nat, NEW t, NEW rs, Handled(id, c, b, t, rs)
      PROVE  View(p)' = View(p) \/ View(q)' = View(q)
  <2>1. PICK o \in Pids : Spares(Store(b), t, o)
    BY <1>3 DEF Handled
  <2>2. entries' = t.entries /\ findings' = t.findings
    BY <1>3 DEF Handled, Ingested
  <2> QED
    BY <1>1, <2>1, <2>2
<1>4. ASSUME NEW id \in Runs, NEW c \in Pids, IngestExecFail(id, c)
      PROVE  View(p)' = View(p) \/ View(q)' = View(q)
  <2> DEFINE t == rollback_exec(Store(0), c)
  <2>1. Store(0) \in Stores
    BY StoreIs
  <2>2. Spares(Store(0), t, c)
    BY <2>1, RollbackIs
  <2>3. entries' = t.entries /\ findings' = t.findings
    BY <1>4 DEF IngestExecFail, Ingested
  <2> HIDE DEF t
  <2> QED
    BY <1>1, <2>2, <2>3
<1>5. ASSUME NEW b \in Budgets, Finish(b) PROVE View(p)' = View(p)
  <2> DEFINE t == Sealed(b)
  <2>1. SameView(Now, t, p)
    BY SealedIs
  <2>2. entries' = t.entries /\ findings' = t.findings
    BY <1>5 DEF Finish
  <2> HIDE DEF t
  <2> QED
    BY <1>0, <2>1, <2>2, ViewKept
<1>6. CASE UNCHANGED vars
  BY <1>6 DEF vars, lifecycle, View
<1> QED
  BY <1>2, <1>3, <1>4, <1>5, <1>6, StepIs

\* One record changes what is known of at most one process: whatever the
\* records and wherever an insertion fails, a fork reconciles the entries and
\* findings of the child alone, an exec that failed gives back only what its own
\* process had marked, a release never ends the entry of another process, and
\* finish adds leaks but leaves ownership as it was (ingest_fork,
\* reconcile_stray_releases, rollback_exec, release_entry).
THEOREM RecordsTouchOneProcess == Spec => OneProcessPerRecord
<1> DEFINE A == ~Renew =>
                  \A p, q \in Pids : p # q => View(p)' = View(p) \/ View(q)' = View(q)
<1>1. Init => TypeOK
  BY TypeInit
<1>2. TypeOK /\ [Next]_vars => TypeOK'
  BY TypeStep
<1>3. TypeOK /\ [Next]_vars => [A]_vars
  BY OneProcessStep
<1>4. Spec => [][A]_vars
  BY <1>1, <1>2, <1>3, PTL DEF Spec
<1> QED
  BY <1>4 DEF OneProcessPerRecord

-----------------------------------------------------------------------------
(* What the replay knows of one descriptor of one process, in numbers.     *)

\* Entries released by an exec whose outcome is open; inherit findings that no
\* failed exec can take back; the kinds a correct program never causes.
MarkedOf(p, r) == [pid : {p}, res : {r}, live : {FALSE}, exec_pending : {TRUE}]
FrozenOf(p, r) == [kind : {"EXEC_INHERIT"}, pid : {p}, res : {r}, exec_pending : {FALSE}]
Marked(s, p, r) == Matching(s.entries, MarkedOf(p, r))
Frozen(s, p, r) == Matching(s.findings, FrozenOf(p, r))
Unexpected == Kinds \ {"LEAK", "EXEC_INHERIT", "STRAY_RELEASE"}

\* The handler that made t of s changed the numbers of q and x by this much.
Moves(s, t, q, x, live, marked, stray, inherit) ==
  /\ LiveCount(t, q, x) = LiveCount(s, q, x) + live
  /\ Marked(t, q, x) = Marked(s, q, x) + marked
  /\ Count(t, "STRAY_RELEASE", q, x) = Count(s, "STRAY_RELEASE", q, x) + stray
  /\ Count(t, "EXEC_INHERIT", q, x) = Count(s, "EXEC_INHERIT", q, x) + inherit
  /\ Frozen(t, q, x) = Frozen(s, q, x)
  /\ \A kind \in Unexpected : Count(t, kind, q, x) = Count(s, kind, q, x)
Stays(s, t, q, x) == Moves(s, t, q, x, 0, 0, 0, 0) /\ (Known(t, q, x) <=> Known(s, q, x))
\* Nothing but what is known of p and r changed.
Elsewhere(s, t, p, r) == \A q \in Pids, x \in Resources : q # p \/ x # r => Stays(s, t, q, x)

\* The numbers are natural.
LEMMA NumbersAre ==
  ASSUME NEW s \in Stores, NEW q, NEW x
  PROVE  /\ LiveCount(s, q, x) \in Nat /\ Marked(s, q, x) \in Nat /\ Frozen(s, q, x) \in Nat
         /\ \A kind : Count(s, kind, q, x) \in Nat
<1>1. s.entries \in Seq(GoodEntry) /\ s.findings \in Seq(GoodFinding)
  BY DEF Stores
<1>2. \A S : Matching(s.entries, S) \in Nat /\ Matching(s.findings, S) \in Nat
  BY <1>1, MatchingIs
<1> QED
  BY <1>2, Zenon DEF LiveCount, Marked, Frozen, Count

\* A resource with a live entry is known; without one it has none.
LEMMA LiveIs ==
  ASSUME NEW s \in Stores, NEW q, NEW x
  PROVE  /\ Live(s, q, x) <=> LiveCount(s, q, x) # 0
         /\ Live(s, q, x) => Known(s, q, x)
<1> DEFINE a == s.entries
           R == LiveOf(q, x)
<1>1. a \in Seq(GoodEntry)
  BY DEF Stores
<1>2. \A i \in 1 .. Len(a) : a[i] \in R <=> a[i].pid = q /\ a[i].res = x /\ a[i].live
  <2> SUFFICES ASSUME NEW i \in 1 .. Len(a)
               PROVE  a[i] \in R <=> a[i].pid = q /\ a[i].res = x /\ a[i].live
    OBVIOUS
  <2>1. a[i] \in GoodEntry
    BY <1>1
  <2> QED
    BY <2>1 DEF GoodEntry, Entry, LiveOf
<1>3. Matching(a, R) = 0 <=> \A i \in 1 .. Len(a) : a[i] \notin R
  <2> HIDE DEF a, R
  <2> QED
    BY <1>1, MatchingIs
<1>4. /\ Known(s, q, x) <=> HasEntry(a, q, x)
      /\ Live(s, q, x) <=> HasLive(a, q, x)
  BY KnownIs
<1> HIDE DEF a
<1>5. HasLive(a, q, x) => HasEntry(a, q, x)
  BY DEF HasLive, HasEntry
<1> QED
  BY <1>2, <1>3, <1>4, <1>5 DEF HasLive, LiveCount, a

\* The numbers depend on the entries or on the findings alone.
LEMMA EntriesDecide ==
  ASSUME NEW s, NEW t, t.entries = s.entries, NEW q, NEW x
  PROVE  /\ LiveCount(t, q, x) = LiveCount(s, q, x)
         /\ Marked(t, q, x) = Marked(s, q, x)
         /\ Known(t, q, x) <=> Known(s, q, x)
BY SameEvidence DEF LiveCount, Marked

LEMMA FindingsDecide ==
  ASSUME NEW s, NEW t, t.findings = s.findings, NEW q, NEW x
  PROVE  /\ Frozen(t, q, x) = Frozen(s, q, x)
         /\ \A kind : Count(t, kind, q, x) = Count(s, kind, q, x)
BY SameEvidence DEF Frozen

\* An entry is added.
LEMMA EntryMoves ==
  ASSUME NEW s \in Stores, NEW t \in Stores, NEW p \in Pids, NEW r \in Resources,
         t.entries = Append(s.entries, NewEntry(p, r)), t.findings = s.findings
  PROVE  /\ Elsewhere(s, t, p, r)
         /\ Moves(s, t, p, r, 1, 0, 0, 0) /\ Known(t, p, r)
<1> DEFINE e == NewEntry(p, r)
<1>1. s.entries \in Seq(GoodEntry) /\ e \in GoodEntry
  BY DEF Stores, NewEntry, GoodEntry, Entry
<1>2. ASSUME NEW q, NEW x
      PROVE  /\ LiveCount(t, q, x) = LiveCount(s, q, x) + (IF q = p /\ x = r THEN 1 ELSE 0)
             /\ Marked(t, q, x) = Marked(s, q, x)
             /\ Known(t, q, x) <=> Known(s, q, x) \/ (q = p /\ x = r)
             /\ Frozen(t, q, x) = Frozen(s, q, x)
             /\ \A kind : Count(t, kind, q, x) = Count(s, kind, q, x)
  <2> DEFINE L == LiveOf(q, x)
             M == MarkedOf(q, x)
  <2>1. (e \in L <=> q = p /\ x = r) /\ e \notin M
    BY DEF NewEntry, LiveOf, MarkedOf
  <2>2. LiveCount(s, q, x) \in Nat /\ Marked(s, q, x) \in Nat
    BY NumbersAre
  <2> HIDE DEF L, M, e
  <2>3. /\ Matching(Append(s.entries, e), L) = Matching(s.entries, L) + (IF e \in L THEN 1 ELSE 0)
        /\ Matching(Append(s.entries, e), M) = Matching(s.entries, M) + (IF e \in M THEN 1 ELSE 0)
    BY <1>1, MatchingAppend
  <2>4. LiveCount(t, q, x) = LiveCount(s, q, x) + (IF q = p /\ x = r THEN 1 ELSE 0)
    BY <2>1, <2>3 DEF LiveCount, L, e
  <2>5. Marked(t, q, x) = Marked(s, q, x)
    BY <2>1, <2>2, <2>3 DEF Marked, M, e
  <2>6. Known(t, q, x) <=> Known(s, q, x) \/ (q = p /\ x = r)
    BY EntryAppended
  <2>7. Frozen(t, q, x) = Frozen(s, q, x) /\ \A kind : Count(t, kind, q, x) = Count(s, kind, q, x)
    BY FindingsDecide
  <2> QED
    BY <2>4, <2>5, <2>6, <2>7
<1>3. ASSUME NEW q, NEW x
      PROVE  /\ LiveCount(s, q, x) \in Nat /\ Marked(s, q, x) \in Nat
             /\ \A kind : Count(s, kind, q, x) \in Nat
  BY NumbersAre
<1>4. Moves(s, t, p, r, 1, 0, 0, 0) /\ Known(t, p, r)
  BY <1>2, <1>3 DEF Moves
<1>5. ASSUME NEW q, NEW x, q # p \/ x # r PROVE Stays(s, t, q, x)
  BY <1>2, <1>3, <1>5 DEF Moves, Stays
<1> QED
  BY <1>4, <1>5 DEF Elsewhere

\* A stray release or a descriptor left open is recorded.
LEMMA FindingMoves ==
  ASSUME NEW s \in Stores, NEW t \in Stores, NEW p \in Pids, NEW r \in Resources,
         NEW kind \in {"STRAY_RELEASE", "EXEC_INHERIT"},
         t.entries = s.entries, t.findings = Append(s.findings, NewFinding(kind, p, r))
  PROVE  /\ Elsewhere(s, t, p, r)
         /\ Moves(s, t, p, r, 0, 0, IF kind = "STRAY_RELEASE" THEN 1 ELSE 0,
                                    IF kind = "EXEC_INHERIT" THEN 1 ELSE 0)
         /\ Known(t, p, r) <=> Known(s, p, r)
<1> DEFINE f == NewFinding(kind, p, r)
<1>1. s.findings \in Seq(GoodFinding) /\ kind \in Kinds
  BY DEF Stores, Kinds
<1>2. f \in GoodFinding
  <2>1. (kind = "EXEC_INHERIT") \in BOOLEAN
    OBVIOUS
  <2> QED
    BY <1>1, <2>1 DEF NewFinding, GoodFinding, Finding
<1>3. ASSUME NEW q, NEW x
      PROVE  /\ LiveCount(s, q, x) \in Nat /\ Marked(s, q, x) \in Nat /\ Frozen(s, q, x) \in Nat
             /\ \A k : Count(s, k, q, x) \in Nat
  BY NumbersAre
<1>4. ASSUME NEW q, NEW x
      PROVE  /\ LiveCount(t, q, x) = LiveCount(s, q, x)
             /\ Marked(t, q, x) = Marked(s, q, x)
             /\ Known(t, q, x) <=> Known(s, q, x)
             /\ Frozen(t, q, x) = Frozen(s, q, x)
             /\ \A k : Count(t, k, q, x)
                         = Count(s, k, q, x) + (IF k = kind /\ q = p /\ x = r THEN 1 ELSE 0)
  <2>1. \A k : Count(t, k, q, x) = Count(s, k, q, x) + (IF k = kind /\ q = p /\ x = r THEN 1 ELSE 0)
    BY <1>1, FindingAppended
  <2>2. /\ LiveCount(t, q, x) = LiveCount(s, q, x)
        /\ Marked(t, q, x) = Marked(s, q, x)
        /\ Known(t, q, x) <=> Known(s, q, x)
    BY EntriesDecide
  <2> DEFINE F == FrozenOf(q, x)
  <2>3. f \notin F
    BY DEF NewFinding, FrozenOf
  <2> HIDE DEF F, f
  <2>4. Matching(Append(s.findings, f), F) = Matching(s.findings, F) + (IF f \in F THEN 1 ELSE 0)
    BY <1>1, <1>2, MatchingAppend
  <2>5. Frozen(t, q, x) = Frozen(s, q, x)
    BY <1>3, <2>3, <2>4 DEF Frozen, F, f
  <2> QED
    BY <2>1, <2>2, <2>5
<1>5. \A k \in Unexpected : k # kind
  BY DEF Unexpected
<1>6. /\ Moves(s, t, p, r, 0, 0, IF kind = "STRAY_RELEASE" THEN 1 ELSE 0,
                                 IF kind = "EXEC_INHERIT" THEN 1 ELSE 0)
      /\ Known(t, p, r) <=> Known(s, p, r)
  BY <1>3, <1>4, <1>5 DEF Moves
<1>7. ASSUME NEW q, NEW x, q # p \/ x # r PROVE Stays(s, t, q, x)
  BY <1>3, <1>4, <1>7 DEF Moves, Stays
<1> QED
  BY <1>6, <1>7 DEF Elsewhere

\* A live entry at place i is released, marked for a pending exec or not.
LEMMA ClosedMoves ==
  ASSUME NEW s \in Stores, NEW t \in Stores, NEW p \in Pids, NEW r \in Resources,
         NEW pending \in BOOLEAN, NEW i \in 1 .. Len(s.entries), Fits(s.entries[i], p, r, TRUE),
         Len(t.entries) = Len(s.entries), t.entries[i] = Closed(p, r, pending),
         \A j \in 1 .. Len(s.entries) : j # i => t.entries[j] = s.entries[j],
         t.findings = s.findings
  PROVE  /\ Elsewhere(s, t, p, r)
         /\ Moves(s, t, p, r, -1, IF pending THEN 1 ELSE 0, 0, 0)
         /\ Known(t, p, r) <=> Known(s, p, r)
<1> DEFINE a == s.entries
           b == t.entries
<1>1. a \in Seq(GoodEntry) /\ b \in Seq(GoodEntry) /\ Len(b) = Len(a) /\ i \in 1 .. Len(a)
  BY DEF Stores
<1>2. a[i] \in GoodEntry /\ a[i].pid = p /\ a[i].res = r /\ a[i].live = TRUE
  BY <1>1 DEF Fits, GoodEntry, Entry
<1>3. b[i] = Closed(p, r, pending) /\ \A j \in 1 .. Len(a) : j # i => b[j] = a[j]
  OBVIOUS
<1>4. \A q, x : /\ Known(t, q, x) <=> HasEntry(b, q, x)
                /\ Known(s, q, x) <=> HasEntry(a, q, x)
  BY KnownIs
<1>5. ASSUME NEW q, NEW x
      PROVE  /\ LiveCount(s, q, x) \in Nat /\ Marked(s, q, x) \in Nat /\ Frozen(s, q, x) \in Nat
             /\ LiveCount(t, q, x) \in Nat /\ Marked(t, q, x) \in Nat
             /\ \A k : Count(s, k, q, x) \in Nat
  BY NumbersAre
<1>6. ASSUME NEW q, NEW x
      PROVE  /\ LiveCount(t, q, x) = Matching(b, LiveOf(q, x)) /\ Marked(t, q, x) = Matching(b, MarkedOf(q, x))
             /\ LiveCount(s, q, x) = Matching(a, LiveOf(q, x)) /\ Marked(s, q, x) = Matching(a, MarkedOf(q, x))
  BY DEF LiveCount, Marked
<1> HIDE DEF a, b
<1>7. ASSUME NEW q, NEW x
      PROVE  /\ LiveCount(t, q, x) = LiveCount(s, q, x) - (IF q = p /\ x = r THEN 1 ELSE 0)
             /\ Marked(t, q, x) = Marked(s, q, x) + (IF q = p /\ x = r /\ pending THEN 1 ELSE 0)
             /\ Known(t, q, x) <=> Known(s, q, x)
  <2> DEFINE L == LiveOf(q, x)
             M == MarkedOf(q, x)
  <2>1. (a[i] \in L <=> q = p /\ x = r) /\ a[i] \notin M
    BY <1>2 DEF GoodEntry, Entry, LiveOf, MarkedOf
  <2>2. b[i] \notin L /\ (b[i] \in M <=> q = p /\ x = r /\ pending)
    <3> DEFINE e == Closed(p, r, pending)
    <3>1. e \notin L /\ (e \in M <=> q = p /\ x = r /\ pending)
      BY DEF Closed, LiveOf, MarkedOf
    <3> HIDE DEF e, L, M
    <3> QED
      BY <1>3, <3>1 DEF e
  <2>3. \A j \in 1 .. Len(a) : j # i => b[j] = a[j]
    BY <1>3
  <2> HIDE DEF L, M
  <2>4. Matching(b, L) + (IF a[i] \in L THEN 1 ELSE 0) = Matching(a, L) + (IF b[i] \in L THEN 1 ELSE 0)
    <3>1. \A j \in 1 .. Len(a) : j # i => (a[j] \in L <=> b[j] \in L)
      BY <2>3
    <3> QED
      BY <1>1, <3>1, MatchingUpdate
  <2>5. Matching(b, M) + (IF a[i] \in M THEN 1 ELSE 0) = Matching(a, M) + (IF b[i] \in M THEN 1 ELSE 0)
    <3>1. \A j \in 1 .. Len(a) : j # i => (a[j] \in M <=> b[j] \in M)
      BY <2>3
    <3> QED
      BY <1>1, <3>1, MatchingUpdate
  <2>6. LiveCount(t, q, x) = LiveCount(s, q, x) - (IF q = p /\ x = r THEN 1 ELSE 0)
    BY <1>5, <1>6, <2>1, <2>2, <2>4 DEF L
  <2>7. Marked(t, q, x) = Marked(s, q, x) + (IF q = p /\ x = r /\ pending THEN 1 ELSE 0)
    BY <1>5, <1>6, <2>1, <2>2, <2>5 DEF M
  <2>8. \A j \in 1 .. Len(a) : b[j].pid = a[j].pid /\ b[j].res = a[j].res
    BY <1>2, <1>3 DEF Closed
  <2>9. Known(t, q, x) <=> Known(s, q, x)
    BY <1>1, <1>4, <2>8 DEF HasEntry
  <2> QED
    BY <2>6, <2>7, <2>9
<1>8. ASSUME NEW q, NEW x
      PROVE  Frozen(t, q, x) = Frozen(s, q, x) /\ \A k : Count(t, k, q, x) = Count(s, k, q, x)
  BY FindingsDecide
<1>9. Moves(s, t, p, r, -1, IF pending THEN 1 ELSE 0, 0, 0) /\ (Known(t, p, r) <=> Known(s, p, r))
  BY <1>5, <1>7, <1>8 DEF Moves
<1>10. ASSUME NEW q, NEW x, q # p \/ x # r PROVE Stays(s, t, q, x)
  BY <1>5, <1>7, <1>8, <1>10 DEF Moves, Stays
<1> QED
  BY <1>9, <1>10 DEF Elsewhere

\* One handler's changes after another's.
LEMMA MovesCompose ==
  ASSUME NEW s \in Stores, NEW t, NEW u, NEW q, NEW x,
         NEW l1 \in Int, NEW m1 \in Int, NEW s1 \in Int, NEW i1 \in Int, Moves(s, t, q, x, l1, m1, s1, i1),
         NEW l2 \in Int, NEW m2 \in Int, NEW s2 \in Int, NEW i2 \in Int, Moves(t, u, q, x, l2, m2, s2, i2)
  PROVE  Moves(s, u, q, x, l1 + l2, m1 + m2, s1 + s2, i1 + i2)
<1>1. /\ LiveCount(s, q, x) \in Nat /\ Marked(s, q, x) \in Nat
      /\ Count(s, "STRAY_RELEASE", q, x) \in Nat /\ Count(s, "EXEC_INHERIT", q, x) \in Nat
  BY NumbersAre
<1>2. \A kind \in Unexpected : Count(u, kind, q, x) = Count(s, kind, q, x)
  BY DEF Moves
<1>3. /\ LiveCount(u, q, x) = LiveCount(s, q, x) + (l1 + l2)
      /\ Marked(u, q, x) = Marked(s, q, x) + (m1 + m2)
      /\ Count(u, "STRAY_RELEASE", q, x) = Count(s, "STRAY_RELEASE", q, x) + (s1 + s2)
      /\ Count(u, "EXEC_INHERIT", q, x) = Count(s, "EXEC_INHERIT", q, x) + (i1 + i2)
      /\ Frozen(u, q, x) = Frozen(s, q, x)
  BY <1>1 DEF Moves
<1> QED
  BY <1>2, <1>3 DEF Moves

LEMMA StaysMoves ==
  ASSUME NEW s \in Stores, NEW t, NEW u, NEW q, NEW x, Stays(s, t, q, x),
         NEW l \in Int, NEW m \in Int, NEW n \in Int, NEW i \in Int, Moves(t, u, q, x, l, m, n, i)
  PROVE  Moves(s, u, q, x, l, m, n, i)
<1>1. Moves(s, u, q, x, 0 + l, 0 + m, 0 + n, 0 + i)
  <2>1. Moves(s, t, q, x, 0, 0, 0, 0)
    BY DEF Stays
  <2> QED
    BY <2>1, MovesCompose
<1>2. 0 + l = l /\ 0 + m = m /\ 0 + n = n /\ 0 + i = i
  OBVIOUS
<1> QED
  BY <1>1, <1>2

LEMMA StaysCompose ==
  ASSUME NEW s \in Stores, NEW t, NEW u, NEW q, NEW x, Stays(s, t, q, x), Stays(t, u, q, x)
  PROVE  Stays(s, u, q, x)
<1>1. Moves(t, u, q, x, 0, 0, 0, 0)
  BY DEF Stays
<1>2. Moves(s, u, q, x, 0, 0, 0, 0)
  BY <1>1, StaysMoves
<1>3. Known(u, q, x) <=> Known(s, q, x)
  BY DEF Stays
<1> QED
  BY <1>2, <1>3 DEF Stays

LEMMA StaysSame ==
  ASSUME NEW s \in Stores, NEW q, NEW x
  PROVE  Stays(s, s, q, x)
<1>1. /\ LiveCount(s, q, x) \in Nat /\ Marked(s, q, x) \in Nat
      /\ \A kind : Count(s, kind, q, x) \in Nat
  BY NumbersAre
<1> QED
  BY <1>1 DEF Stays, Moves

\* A release of a live descriptor, and of one never heard of.
LEMMA ReleaseMoves ==
  ASSUME NEW s \in Stores, s.ok, NEW p \in Pids, NEW r \in Resources, release_entry(s, p, r).ok
  PROVE  LET t == release_entry(s, p, r)
         IN  /\ t \in Stores
             /\ Live(s, p, r) => /\ Elsewhere(s, t, p, r)
                                 /\ Moves(s, t, p, r, -1, 0, 0, 0)
                                 /\ Known(t, p, r) <=> Known(s, p, r)
             /\ ~Known(s, p, r) => /\ Elsewhere(s, t, p, r)
                                   /\ Moves(s, t, p, r, 0, 0, 1, 0)
                                   /\ Known(t, p, r) <=> Known(s, p, r)
<1> DEFINE i == find_latest(s, p, r, TRUE)
           t == release_entry(s, p, r)
<1>1. t \in Stores
  BY ReleaseProgress DEF Progress, Advances
<1>2. t.ok
  OBVIOUS
<1>3. ASSUME Live(s, p, r)
      PROVE  Elsewhere(s, t, p, r) /\ Moves(s, t, p, r, -1, 0, 0, 0) /\ (Known(t, p, r) <=> Known(s, p, r))
  <2>1. t = MarkReleased(s, i)
    BY <1>3 DEF release_entry
  <2>2. i \in 1 .. Len(s.entries) /\ Fits(s.entries[i], p, r, TRUE)
    BY <1>3, FindLatestIs DEF Live
  <2> HIDE DEF i, t
  <2>3. t.findings = s.findings /\ t.entries = [s.entries EXCEPT ![i].live = FALSE]
    BY <1>2, <2>1, <2>2, MarkReleasedIs
  <2> DEFINE a == s.entries
             off == [a[i] EXCEPT !.live = FALSE]
  <2>4. a \in Seq(GoodEntry) /\ i \in 1 .. Len(a) /\ t.entries = [a EXCEPT ![i] = off]
    BY <2>2, <2>3 DEF Stores
  <2>5. a[i] \in GoodEntry
    <3> HIDE DEF a
    <3> QED
      BY <2>4
  <2>6. off = Closed(p, r, FALSE)
    <3> DEFINE e == a[i]
    <3>0. e \in GoodEntry /\ e.live /\ e.pid = p /\ e.res = r
      BY <2>2, <2>5 DEF Fits
    <3> HIDE DEF e, a
    <3>1. e \in Entry /\ e.pid = p /\ e.res = r /\ e.exec_pending = FALSE
      BY <3>0 DEF GoodEntry, Entry
    <3> DEFINE c == Closed(p, r, FALSE)
               d == [e EXCEPT !.live = FALSE]
    <3>2. /\ d \in Entry /\ d.pid = p /\ d.res = r
          /\ d.live = FALSE /\ d.exec_pending = FALSE
      BY <3>1 DEF Entry
    <3>3. /\ c \in Entry /\ c.pid = p /\ c.res = r
          /\ c.live = FALSE /\ c.exec_pending = FALSE
      BY DEF Closed, Entry
    <3> HIDE DEF c, d
    <3>4. d = c
      BY <3>2, <3>3, EntryFields
    <3> QED
      BY <3>4 DEF c, d, e
  <2> HIDE DEF off
  <2>7. /\ Len(t.entries) = Len(a) /\ t.entries[i] = off
        /\ \A j \in 1 .. Len(a) : j # i => t.entries[j] = a[j]
    <3> HIDE DEF a
    <3> QED
      BY <2>4
  <2>8. /\ Len(t.entries) = Len(s.entries) /\ t.entries[i] = Closed(p, r, FALSE)
        /\ \A j \in 1 .. Len(s.entries) : j # i => t.entries[j] = s.entries[j]
    BY <2>6, <2>7
  <2>9. /\ Elsewhere(s, t, p, r)
        /\ Moves(s, t, p, r, -1, IF FALSE THEN 1 ELSE 0, 0, 0)
        /\ Known(t, p, r) <=> Known(s, p, r)
    BY <1>1, <2>2, <2>3, <2>8, ClosedMoves
  <2> QED
    BY <2>9
<1>4. ASSUME ~Known(s, p, r)
      PROVE  Elsewhere(s, t, p, r) /\ Moves(s, t, p, r, 0, 0, 1, 0) /\ (Known(t, p, r) <=> Known(s, p, r))
  <2>1. ~Live(s, p, r)
    BY <1>4, LiveIs
  <2>2. t = add_finding(s, "STRAY_RELEASE", p, r)
    BY <1>4, <2>1 DEF release_entry, Unowned
  <2> HIDE DEF t
  <2>3. t.entries = s.entries /\ t.findings = Append(s.findings, NewFinding("STRAY_RELEASE", p, r))
    <3>1. "STRAY_RELEASE" \in Kinds
      BY DEF Kinds
    <3> QED
      BY <1>2, <2>2, <3>1, AddFindingIs
  <2>4. /\ Elsewhere(s, t, p, r)
        /\ Moves(s, t, p, r, 0, 0, IF "STRAY_RELEASE" = "STRAY_RELEASE" THEN 1 ELSE 0,
                                   IF "STRAY_RELEASE" = "EXEC_INHERIT" THEN 1 ELSE 0)
        /\ Known(t, p, r) <=> Known(s, p, r)
    BY <1>1, <2>3, FindingMoves
  <2> QED
    BY <2>4
<1> QED
  BY <1>1, <1>3, <1>4

\* An acquisition of what is not live.
LEMMA AcquireMoves ==
  ASSUME NEW s \in Stores, s.ok, NEW p \in Pids, NEW r \in Resources, ~Live(s, p, r),
         Acquire(s, p, r).ok
  PROVE  LET t == Acquire(s, p, r)
         IN  /\ t \in Stores /\ Elsewhere(s, t, p, r)
             /\ Moves(s, t, p, r, 1, 0, 0, 0) /\ Known(t, p, r)
<1> DEFINE t == add_entry(s, p, r)
<1>1. Acquire(s, p, r) = t
  BY DEF Acquire
<1>2. t.ok
  BY <1>1
<1> HIDE DEF t
<1>3. /\ t \in Stores /\ t.findings = s.findings
      /\ t.entries = Append(s.entries, NewEntry(p, r))
  BY <1>2, AddEntryIs DEF t
<1>4. Elsewhere(s, t, p, r) /\ Moves(s, t, p, r, 1, 0, 0, 0) /\ Known(t, p, r)
  BY <1>3, EntryMoves
<1> QED
  BY <1>1, <1>3, <1>4

\* The snapshot of a live descriptor: released and marked, or noted as left open.
LEMMA ExecMoves ==
  ASSUME NEW s \in Stores, s.ok, NEW p \in Pids, NEW r \in Fds, NEW closing \in BOOLEAN,
         Live(s, p, r), Exec(s, p, r, closing).ok
  PROVE  LET t == Exec(s, p, r, closing)
         IN  /\ t \in Stores /\ Elsewhere(s, t, p, r)
             /\ Moves(s, t, p, r, IF closing THEN -1 ELSE 0, IF closing THEN 1 ELSE 0,
                                  0, IF closing THEN 0 ELSE 1)
             /\ Known(t, p, r) <=> Known(s, p, r)
<1> DEFINE t == Exec(s, p, r, closing)
           i == find_latest(s, p, r, TRUE)
<1>1. t.ok /\ r \in Resources
  BY DEF Resources
<1>2. CASE closing
  <2> DEFINE u == Exec(s, p, r, TRUE)
  <2>1. t = u
    BY <1>2
  <2>2. u.ok
    BY <1>1, <2>1
  <2>3. /\ i \in 1 .. Len(s.entries) /\ Fits(s.entries[i], p, r, TRUE)
        /\ u \in Stores /\ u.findings = s.findings
        /\ Len(u.entries) = Len(s.entries) /\ u.entries[i] = Closed(p, r, TRUE)
        /\ \A j \in 1 .. Len(s.entries) : j # i => u.entries[j] = s.entries[j]
    BY <2>2, ExecCloses
  <2> HIDE DEF u, i
  <2>4. /\ Elsewhere(s, u, p, r)
        /\ Moves(s, u, p, r, -1, IF TRUE THEN 1 ELSE 0, 0, 0)
        /\ Known(u, p, r) <=> Known(s, p, r)
    BY <1>1, <2>3, ClosedMoves
  <2> QED
    BY <1>2, <2>1, <2>3, <2>4
<1>3. CASE ~closing
  <2>1. t = add_finding(s, "EXEC_INHERIT", p, r)
    BY <1>3 DEF Exec
  <2>2. "EXEC_INHERIT" \in Kinds
    BY DEF Kinds
  <2> HIDE DEF t
  <2>3. /\ t \in Stores /\ t.entries = s.entries
        /\ t.findings = Append(s.findings, NewFinding("EXEC_INHERIT", p, r))
    BY <1>1, <2>1, <2>2, AddFindingIs
  <2>4. /\ Elsewhere(s, t, p, r)
        /\ Moves(s, t, p, r, 0, 0, IF "EXEC_INHERIT" = "STRAY_RELEASE" THEN 1 ELSE 0,
                                   IF "EXEC_INHERIT" = "EXEC_INHERIT" THEN 1 ELSE 0)
        /\ Known(t, p, r) <=> Known(s, p, r)
    BY <1>1, <2>3, FindingMoves
  <2> QED
    BY <1>3, <2>3, <2>4 DEF t
<1> QED
  BY <1>2, <1>3

\* A provisional stray release is withdrawn.
LEMMA TakeStrayMoves ==
  ASSUME NEW s \in Stores, NEW p \in Pids, NEW r \in Resources,
         Count(s, "STRAY_RELEASE", p, r) # 0
  PROVE  LET t == take_stray_release(s, p, r)
         IN  /\ t \in Stores /\ t.ok = s.ok /\ Elsewhere(s, t, p, r)
             /\ Moves(s, t, p, r, 0, 0, -1, 0)
             /\ Known(t, p, r) <=> Known(s, p, r)
<1> DEFINE t == take_stray_release(s, p, r)
           S == FindingsOf("STRAY_RELEASE", p, r)
<1>1. /\ t \in Stores /\ t.entries = s.entries /\ t.ok = s.ok
      /\ \A k, q, x : Count(t, k, q, x)
           = Count(s, k, q, x) - (IF /\ k = "STRAY_RELEASE" /\ q = p /\ x = r
                                     /\ Count(s, "STRAY_RELEASE", p, r) # 0 THEN 1 ELSE 0)
      /\ \A R : R \cap S = {} => Matching(t.findings, R) = Matching(s.findings, R)
  <2>1. t \in Stores /\ t.entries = s.entries /\ t.ok = s.ok
    BY TakeStrayIs
  <2>2. \A k, q, x : Count(t, k, q, x)
           = Count(s, k, q, x) - (IF /\ k = "STRAY_RELEASE" /\ q = p /\ x = r
                                     /\ Count(s, "STRAY_RELEASE", p, r) # 0 THEN 1 ELSE 0)
    BY TakeStrayIs
  <2>3. ASSUME NEW R, R \cap S = {} PROVE Matching(t.findings, R) = Matching(s.findings, R)
    BY <2>3, TakeStrayIs
  <2> QED
    BY <2>1, <2>2, <2>3
<1> HIDE DEF t
<1>2. ASSUME NEW q, NEW x
      PROVE  /\ LiveCount(s, q, x) \in Nat /\ Marked(s, q, x) \in Nat
             /\ \A k : Count(s, k, q, x) \in Nat
  BY NumbersAre
<1>3. ASSUME NEW q, NEW x
      PROVE  /\ LiveCount(t, q, x) = LiveCount(s, q, x)
             /\ Marked(t, q, x) = Marked(s, q, x)
             /\ Known(t, q, x) <=> Known(s, q, x)
             /\ Frozen(t, q, x) = Frozen(s, q, x)
             /\ \A k : Count(t, k, q, x)
                         = Count(s, k, q, x) - (IF k = "STRAY_RELEASE" /\ q = p /\ x = r THEN 1 ELSE 0)
  <2>1. /\ LiveCount(t, q, x) = LiveCount(s, q, x)
        /\ Marked(t, q, x) = Marked(s, q, x)
        /\ Known(t, q, x) <=> Known(s, q, x)
    BY <1>1, EntriesDecide
  <2>2. FrozenOf(q, x) \cap S = {}
    BY DEF FrozenOf, FindingsOf
  <2> HIDE DEF S
  <2>3. Frozen(t, q, x) = Frozen(s, q, x)
    BY <1>1, <2>2 DEF Frozen
  <2>4. \A k : Count(t, k, q, x)
                 = Count(s, k, q, x) - (IF k = "STRAY_RELEASE" /\ q = p /\ x = r THEN 1 ELSE 0)
    BY <1>1
  <2> QED
    BY <2>1, <2>3, <2>4
<1>4. \A k \in Unexpected : k # "STRAY_RELEASE" /\ k # "EXEC_INHERIT"
  BY DEF Unexpected
<1>5. Moves(s, t, p, r, 0, 0, -1, 0) /\ (Known(t, p, r) <=> Known(s, p, r))
  BY <1>2, <1>3, <1>4 DEF Moves
<1>6. ASSUME NEW q, NEW x, q # p \/ x # r PROVE Stays(s, t, q, x)
  BY <1>2, <1>3, <1>4, <1>6 DEF Moves, Stays
<1> QED
  BY <1>1, <1>5, <1>6 DEF Elsewhere, t

LEMMA ElsewhereCompose ==
  ASSUME NEW s \in Stores, NEW t, NEW u, NEW p, NEW r, Elsewhere(s, t, p, r), Elsewhere(t, u, p, r)
  PROVE  Elsewhere(s, u, p, r)
<1> SUFFICES ASSUME NEW q \in Pids, NEW x \in Resources, q # p \/ x # r PROVE Stays(s, u, q, x)
  BY DEF Elsewhere
<1>1. Stays(s, t, q, x) /\ Stays(t, u, q, x)
  BY DEF Elsewhere
<1> QED
  BY <1>1, StaysCompose

\* A stray release of a descriptor that is live turns into its release.
LEMMA ReconcileMoves ==
  ASSUME NEW s \in Stores, NEW p \in Pids, NEW r \in Resources, Live(s, p, r),
         Count(s, "STRAY_RELEASE", p, r) \in {0, 1},
         reconcile_stray_releases(s, p, r).ok
  PROVE  LET t == reconcile_stray_releases(s, p, r)
             n == Count(s, "STRAY_RELEASE", p, r)
         IN  /\ Elsewhere(s, t, p, r)
             /\ Moves(s, t, p, r, -n, 0, -n, 0) /\ Known(t, p, r)
<1> DEFINE t == reconcile_stray_releases(s, p, r)
           n == Count(s, "STRAY_RELEASE", p, r)
<1>1. Known(s, p, r)
  BY LiveIs
<1>2. PICK f : ReconcileSteps(f, s, p, r)
  BY ReconcileUnfolds
<1>3. f[0] = s /\ (\A i \in 1 .. n : f[i] = Replay(f[i - 1], p, r)) /\ t = f[n]
  BY <1>2 DEF ReconcileSteps
<1>4. CASE n = 0
  <2>1. t = s
    BY <1>3, <1>4
  <2>2. \A q, x : Stays(s, s, q, x)
    BY StaysSame
  <2>3. Elsewhere(s, s, p, r) /\ Moves(s, s, p, r, 0, 0, 0, 0)
    BY <2>2 DEF Elsewhere, Stays
  <2>4. -n = 0
    BY <1>4
  <2> HIDE DEF t, n
  <2> QED
    BY <1>1, <2>1, <2>3, <2>4 DEF t, n
<1>5. CASE n = 1
  <2> DEFINE u == take_stray_release(s, p, r)
             v == release_entry(u, p, r)
  <2>1. /\ u \in Stores /\ u.ok = s.ok /\ Elsewhere(s, u, p, r)
        /\ Moves(s, u, p, r, 0, 0, -1, 0)
        /\ Known(u, p, r) <=> Known(s, p, r)
    BY <1>5, TakeStrayMoves
  <2>2. t = Replay(s, p, r)
    <3> HIDE DEF t, n
    <3>1. 1 \in 1 .. n /\ 1 - 1 = 0
      BY <1>5
    <3> QED
      BY <1>3, <1>5, <3>1
  <2>3. s.ok /\ t = v
    BY <2>2 DEF Replay
  <2>4. Live(u, p, r)
    <3>1. LiveCount(u, p, r) = LiveCount(s, p, r) + 0 /\ LiveCount(s, p, r) \in Nat
      BY <2>1, NumbersAre DEF Moves
    <3> HIDE DEF u
    <3>2. (Live(s, p, r) <=> LiveCount(s, p, r) # 0) /\ (Live(u, p, r) <=> LiveCount(u, p, r) # 0)
      BY <2>1, LiveIs
    <3> QED
      BY <3>1, <3>2
  <2>5. v.ok
    BY <2>3
  <2> HIDE DEF u
  <2>6. Elsewhere(u, v, p, r) /\ Moves(u, v, p, r, -1, 0, 0, 0) /\ (Known(v, p, r) <=> Known(u, p, r))
    BY <2>1, <2>3, <2>4, <2>5, ReleaseMoves
  <2> HIDE DEF v
  <2>7. Elsewhere(s, v, p, r)
    BY <2>1, <2>6, ElsewhereCompose
  <2>8. Moves(s, v, p, r, 0 + (-1), 0 + 0, (-1) + 0, 0 + 0)
    BY <2>1, <2>6, MovesCompose
  <2>9. -n = -1
    BY <1>5
  <2> HIDE DEF t, n
  <2>10. Moves(s, v, p, r, -n, 0, -n, 0)
    BY <2>8, <2>9
  <2> QED
    BY <1>1, <2>1, <2>3, <2>6, <2>7, <2>10 DEF t, n
<1> QED
  BY <1>4, <1>5

-----------------------------------------------------------------------------
(* What a fork record does: the child gets what is live in the parent, and *)
(* what it had released before the record came turns into a release.       *)

\* The child is new: all that may be known of it are provisional releases.
Unborn(s, child) ==
  \A x \in Fds : ~Known(s, child, x) /\ Count(s, "STRAY_RELEASE", child, x) \in {0, 1}

\* The first i entries of s were offered to the child, which left t.
Given(s, t, i, giver, child) ==
  /\ t \in Stores
  /\ t.ok =>
       /\ \A q \in Pids, x \in Resources : q # child => Stays(s, t, q, x)
       /\ \A x \in Resources :
            /\ Gives(s, i, giver, x) =>
                 LET n == Count(s, "STRAY_RELEASE", child, x)
                 IN  Moves(s, t, child, x, 1 - n, 0, -n, 0) /\ Known(t, child, x)
            /\ ~Gives(s, i, giver, x) => Stays(s, t, child, x)

LEMMA InheritMoves ==
  ASSUME NEW s \in Stores, NEW t \in Stores, NEW e \in Entry, NEW giver \in Pids,
         NEW child \in Pids, t.ok, Inherits(t, e, giver, child),
         Count(t, "STRAY_RELEASE", child, e.res) \in {0, 1},
         Inherit(t, e, giver, child).ok
  PROVE  LET u == Inherit(t, e, giver, child)
             n == Count(t, "STRAY_RELEASE", child, e.res)
         IN  /\ Elsewhere(t, u, child, e.res)
             /\ Moves(t, u, child, e.res, 1 - n, 0, -n, 0) /\ Known(u, child, e.res)
<1> DEFINE r == e.res
           u == Inherit(t, e, giver, child)
           v == add_entry(t, child, r)
           w == reconcile_stray_releases(v, child, r)
           n == Count(t, "STRAY_RELEASE", child, r)
<1>1. r \in Resources /\ ~Known(t, child, r)
  BY DEF Inherits, Resources
<1>2. u = IF v.ok THEN w ELSE v
  BY DEF Inherit
<1>3. u.ok /\ v.ok /\ u = w
  BY <1>2
<1> HIDE DEF v, u
<1>4. /\ v \in Stores /\ v.findings = t.findings
      /\ v.entries = Append(t.entries, NewEntry(child, r))
  BY <1>1, <1>3, AddEntryIs DEF v
<1> HIDE DEF r
<1>5. Elsewhere(t, v, child, r) /\ Moves(t, v, child, r, 1, 0, 0, 0) /\ Known(v, child, r)
  BY <1>1, <1>4, EntryMoves
<1>6. Count(v, "STRAY_RELEASE", child, r) = n /\ n \in {0, 1}
  <2>1. \A kind : Count(v, kind, child, r) = Count(t, kind, child, r)
    BY <1>4, FindingsDecide
  <2>2. n \in {0, 1}
    BY DEF r
  <2> QED
    BY <2>1, <2>2
<1>7. Live(v, child, r)
  <2>1. LiveCount(v, child, r) = LiveCount(t, child, r) + 1 /\ LiveCount(t, child, r) \in Nat
    BY <1>5, NumbersAre DEF Moves
  <2> QED
    BY <1>4, <2>1, LiveIs
<1>8. /\ Elsewhere(v, w, child, r) /\ Known(w, child, r)
      /\ Moves(v, w, child, r, -n, 0, -n, 0)
  <2>1. w.ok /\ Count(v, "STRAY_RELEASE", child, r) \in {0, 1}
    BY <1>3, <1>6
  <2> DEFINE m == Count(v, "STRAY_RELEASE", child, r)
  <2>2. Elsewhere(v, w, child, r) /\ Moves(v, w, child, r, -m, 0, -m, 0) /\ Known(w, child, r)
    BY <1>1, <1>4, <1>7, <2>1, ReconcileMoves
  <2> HIDE DEF m, n, w
  <2>3. m = n
    BY <1>6 DEF m
  <2> QED
    BY <2>2, <2>3
<1> HIDE DEF n, w
<1>9. Elsewhere(t, w, child, r)
  BY <1>5, <1>8, ElsewhereCompose
<1>10. Moves(t, w, child, r, 1 + (-n), 0 + 0, 0 + (-n), 0 + 0)
  BY <1>5, <1>6, <1>8, MovesCompose
<1>11. 1 + (-n) = 1 - n /\ 0 + (-n) = -n /\ 0 + 0 = 0
  BY <1>6
<1>12. Moves(t, w, child, r, 1 - n, 0, -n, 0)
  BY <1>10, <1>11
<1> QED
  BY <1>3, <1>8, <1>9, <1>12 DEF r, u, n

LEMMA GivenOnce ==
  ASSUME NEW s \in Stores, NEW t, NEW i \in 1 .. Len(s.entries),
         NEW giver \in Pids, NEW child \in Pids, Unborn(s, child),
         Given(s, t, i - 1, giver, child)
  PROVE  Given(s, Inherit(t, s.entries[i], giver, child), i, giver, child)
<1> DEFINE e == s.entries[i]
           u == Inherit(t, e, giver, child)
<1>1. t \in Stores /\ e \in Entry
  BY StoreSequences DEF Given
<1>2. u \in Stores /\ (~t.ok \/ ~Inherits(t, e, giver, child) => u = t)
  <2> HIDE DEF e
  <2> QED
    BY <1>1, InheritIs DEF Progress, Advances
<1>3. ASSUME NEW x
      PROVE  /\ Gives(s, i - 1, giver, x) => Gives(s, i, giver, x)
             /\ Gives(s, i, giver, x) => \/ Gives(s, i - 1, giver, x)
                                         \/ x \in Fds /\ e.pid = giver /\ e.res = x /\ e.live
             /\ x \in Fds /\ e.pid = giver /\ e.res = x /\ e.live => Gives(s, i, giver, x)
  <2>1. Len(s.entries) \in Nat
    BY StoreSequences
  <2>2. \A j : j \in 1 .. i <=> j \in 1 .. i - 1 \/ j = i
    BY <2>1
  <2> QED
    BY <2>2 DEF Gives
<1> HIDE DEF e, u
<1>4. CASE ~u.ok
  BY <1>2, <1>4 DEF Given, e, u
<1>5. CASE u.ok /\ ~(t.ok /\ Inherits(t, e, giver, child))
  <2>1. u = t /\ t.ok /\ ~Inherits(t, e, giver, child)
    BY <1>2, <1>5
  <2>2. ASSUME NEW x \in Resources PROVE Gives(s, i, giver, x) <=> Gives(s, i - 1, giver, x)
    <3>1. ASSUME x \in Fds, e.pid = giver, e.res = x, e.live, ~Gives(s, i - 1, giver, x) PROVE FALSE
      <4>1. Known(t, child, x)
        BY <2>1, <3>1 DEF Inherits
      <4>2. Stays(s, t, child, x)
        BY <2>1, <3>1 DEF Given
      <4>3. ~Known(s, child, x)
        BY <3>1 DEF Unborn
      <4> QED
        BY <4>1, <4>2, <4>3 DEF Stays
    <3> QED
      BY <1>3, <3>1
  <2>3. Given(s, t, i, giver, child)
    BY <2>2 DEF Given
  <2> QED
    BY <2>1, <2>3 DEF e, u
<1>6. CASE u.ok /\ t.ok /\ Inherits(t, e, giver, child)
  <2> DEFINE r == e.res
             n == Count(s, "STRAY_RELEASE", child, r)
  <2>1. r \in Fds /\ r \in Resources /\ ~Known(t, child, r) /\ e.pid = giver /\ e.live
    BY <1>6 DEF Inherits, Resources
  <2>2. ~Gives(s, i - 1, giver, r)
    BY <1>6, <2>1 DEF Given
  <2>3. Stays(s, t, child, r)
    BY <1>6, <2>1, <2>2 DEF Given
  <2>4. n \in {0, 1}
    BY <2>1 DEF Unborn
  <2>5. Count(t, "STRAY_RELEASE", child, r) = n
    BY <2>3, <2>4 DEF Stays, Moves
  <2>6. Elsewhere(t, u, child, r) /\ Moves(t, u, child, r, 1 - n, 0, -n, 0) /\ Known(u, child, r)
    <3>1. Count(t, "STRAY_RELEASE", child, e.res) \in {0, 1}
      BY <2>4, <2>5
    <3> DEFINE m == Count(t, "STRAY_RELEASE", child, e.res)
    <3>2. Inherit(t, e, giver, child).ok
      BY <1>6 DEF u
    <3>3. Elsewhere(t, u, child, r) /\ Moves(t, u, child, r, 1 - m, 0, -m, 0) /\ Known(u, child, r)
      BY <1>1, <1>6, <3>1, <3>2, InheritMoves DEF u
    <3>4. m = n
      BY <2>5
    <3> HIDE DEF m, n
    <3> QED
      BY <3>3, <3>4
  <2> HIDE DEF n
  <2>7. Moves(s, u, child, r, 1 - n, 0, -n, 0)
    <3>1. 1 - n \in Int /\ -n \in Int
      BY <2>4
    <3> QED
      BY <2>3, <2>6, <3>1, StaysMoves
  <2> HIDE DEF r
  <2>8. ASSUME NEW q \in Pids, NEW x \in Resources, q # child PROVE Stays(s, u, q, x)
    <3>1. Stays(s, t, q, x) /\ Stays(t, u, q, x)
      BY <1>6, <2>6, <2>8 DEF Given, Elsewhere
    <3> QED
      BY <3>1, StaysCompose
  <2>9. ASSUME NEW x \in Resources, ~Gives(s, i, giver, x) PROVE Stays(s, u, child, x)
    <3>1. x # r /\ ~Gives(s, i - 1, giver, x)
      BY <1>3, <2>1, <2>9 DEF r
    <3>2. Stays(s, t, child, x) /\ Stays(t, u, child, x)
      BY <1>6, <2>6, <3>1 DEF Given, Elsewhere
    <3> QED
      BY <3>2, StaysCompose
  <2>10. ASSUME NEW x \in Resources, Gives(s, i, giver, x), x # r
         PROVE  LET k == Count(s, "STRAY_RELEASE", child, x)
                IN  Moves(s, u, child, x, 1 - k, 0, -k, 0) /\ Known(u, child, x)
    <3> DEFINE k == Count(s, "STRAY_RELEASE", child, x)
    <3>1. Gives(s, i - 1, giver, x)
      BY <1>3, <2>10 DEF r
    <3>2. Moves(s, t, child, x, 1 - k, 0, -k, 0) /\ Known(t, child, x)
      BY <1>6, <3>1 DEF Given
    <3>3. Moves(t, u, child, x, 0, 0, 0, 0) /\ (Known(u, child, x) <=> Known(t, child, x))
      BY <2>6, <2>10 DEF Elsewhere, Stays
    <3>4. k \in Nat
      BY NumbersAre
    <3> HIDE DEF k
    <3>5. Moves(s, u, child, x, (1 - k) + 0, 0 + 0, (-k) + 0, 0 + 0)
      <4> DEFINE l == 1 - k
                 m == -k
      <4>1. l \in Int /\ m \in Int /\ 0 \in Int
        BY <3>4
      <4>2. Moves(s, t, child, x, l, 0, m, 0)
        BY <3>2
      <4> HIDE DEF l, m
      <4>3. Moves(s, u, child, x, l + 0, 0 + 0, m + 0, 0 + 0)
        BY <3>3, <4>1, <4>2, MovesCompose
      <4> QED
        BY <4>3 DEF l, m
    <3>6. (1 - k) + 0 = 1 - k /\ (-k) + 0 = -k /\ 0 + 0 = 0
      BY <3>4
    <3>7. Moves(s, u, child, x, 1 - k, 0, -k, 0)
      BY <3>5, <3>6
    <3> QED
      BY <3>2, <3>3, <3>7 DEF k
  <2>11. Given(s, u, i, giver, child)
    <3>1. ASSUME NEW x \in Resources, Gives(s, i, giver, x)
          PROVE  LET k == Count(s, "STRAY_RELEASE", child, x)
                 IN  Moves(s, u, child, x, 1 - k, 0, -k, 0) /\ Known(u, child, x)
      BY <2>6, <2>7, <2>10, <3>1 DEF n
    <3> QED
      BY <1>2, <2>8, <2>9, <3>1 DEF Given
  <2> QED
    BY <2>11 DEF e, u
<1> QED
  BY <1>4, <1>5, <1>6

LEMMA ForkMoves ==
  ASSUME NEW s \in Stores, s.ok, NEW giver \in Pids, NEW child \in Pids, giver # child,
         Unborn(s, child)
  PROVE  Given(s, Fork(s, giver, child), Len(s.entries), giver, child)
<1> DEFINE n == Len(s.entries)
<1>1. n \in Nat
  BY StoreSequences
<1>2. PICK f : ForkSteps(f, s, giver, child)
  BY ForkUnfolds
<1>3. /\ f[0] = s /\ Fork(s, giver, child) = f[n]
      /\ \A i \in 1 .. n : f[i] = Inherit(f[i - 1], s.entries[i], giver, child)
  BY <1>2 DEF ForkSteps
<1> DEFINE H == {i \in 0 .. n : Given(s, f[i], i, giver, child)}
<1>4. 0 \in H
  <2>1. \A q, x : Stays(s, s, q, x)
    BY StaysSame
  <2>2. \A x : ~Gives(s, 0, giver, x)
    BY DEF Gives
  <2>3. Given(s, s, 0, giver, child)
    BY <2>1, <2>2 DEF Given
  <2> HIDE DEF n
  <2> QED
    BY <1>1, <1>3, <2>3
<1>5. ASSUME NEW i \in 1 .. n, i - 1 \in H PROVE i \in H
  <2>1. Given(s, f[i - 1], i - 1, giver, child)
    BY <1>5
  <2>2. Given(s, Inherit(f[i - 1], s.entries[i], giver, child), i, giver, child)
    BY <2>1, GivenOnce
  <2> HIDE DEF n
  <2> QED
    BY <1>1, <1>3, <2>2
<1> HIDE DEF H
<1>6. \A i \in 0 .. n : i \in H
  BY <1>1, <1>4, <1>5, UpTo
<1>7. n \in H
  <2> HIDE DEF n
  <2> QED
    BY <1>1, <1>6
<1> HIDE DEF n
<1> QED
  BY <1>3, <1>7 DEF H, n

-----------------------------------------------------------------------------
(* What a failed exec gives back: everything its attempt had marked.       *)

\* Elements of two disjoint sets are counted one by one.
LEMMA MatchingUnion ==
  ASSUME NEW T, NEW seq \in Seq(T), NEW S, NEW R, S \cap R = {}
  PROVE  Matching(seq, S \cup R) = Matching(seq, S) + Matching(seq, R)
<1> DEFINE A == {i \in DOMAIN seq : seq[i] \in S}
           B == {i \in DOMAIN seq : seq[i] \in R}
           C == {i \in DOMAIN seq : seq[i] \in S \cup R}
<1>1. IsFiniteSet(A) /\ IsFiniteSet(B)
  BY MatchingIs
<1>2. C = A \cup B /\ A \cap B = {}
  OBVIOUS
<1> HIDE DEF A, B, C
<1>3. Cardinality(A \cup B) = Cardinality(A) + Cardinality(B) - Cardinality(A \cap B)
  BY <1>1, FS_Union
<1>4. Cardinality({}) = 0 /\ Cardinality(A) \in Nat /\ Cardinality(B) \in Nat
  BY <1>1, FS_EmptySet, FS_CardinalityType
<1>5. Cardinality(C) = Cardinality(A) + Cardinality(B)
  <2>1. Cardinality(A \cap B) = 0 /\ Cardinality(C) = Cardinality(A \cup B)
    BY <1>2, <1>4
  <2> QED
    BY <1>3, <1>4, <2>1
<1> QED
  BY <1>5 DEF Matching, A, B, C

LEMMA RollbackUnfolds ==
  ASSUME NEW s \in Stores, NEW p
  PROVE  LET t == rollback_exec(s, p)
         IN  /\ t \in Stores /\ Len(t.entries) = Len(s.entries)
             /\ \A i \in 1 .. Len(s.entries) :
                  t.entries[i] = IF Undone(s.entries[i], p)
                                 THEN [s.entries[i] EXCEPT !.live = TRUE, !.exec_pending = FALSE]
                                 ELSE s.entries[i]
             /\ \A S : Matching(t.findings, S)
                         = Matching(s.findings, S \cap {f \in Finding : ~Undone(f, p)})
<1> DEFINE Restored(e) == IF Undone(e, p) THEN [e EXCEPT !.live = TRUE, !.exec_pending = FALSE] ELSE e
           K == {f \in Finding : ~Undone(f, p)}
           a == s.entries
           fs == s.findings
           b == [i \in DOMAIN a |-> Restored(a[i])]
           t == rollback_exec(s, p)
<1>1. /\ s \in [entries : Seq(GoodEntry), findings : Seq(GoodFinding), ok : BOOLEAN, budget : Nat]
      /\ a \in Seq(GoodEntry) /\ fs \in Seq(GoodFinding)
  BY DEF Stores
<1>2. t = [s EXCEPT !.entries = b, !.findings = Kept(fs, K)]
  BY DEF rollback_exec
<1>3. t \in Stores
  BY RollbackIs
<1> HIDE DEF t, K
<1>4. t.entries = b /\ t.findings = Kept(fs, K)
  <2> HIDE DEF b
  <2> QED
    BY <1>1, <1>2
<1>5. ASSUME NEW S PROVE Matching(t.findings, S) = Matching(fs, S \cap K)
  <2> HIDE DEF fs
  <2>1. Matching(Kept(fs, K), S) = Matching(fs, S \cap K)
    BY <1>1, KeptIs
  <2> QED
    BY <1>4, <2>1
<1> HIDE DEF Restored
<1>6. Len(b) = Len(a) /\ \A i \in 1 .. Len(a) : b[i] = Restored(a[i])
  <2> HIDE DEF a
  <2>1. DOMAIN a = 1 .. Len(a) /\ Len(a) \in Nat
    BY <1>1
  <2>2. DOMAIN b = 1 .. Len(a) /\ b \in Seq({Restored(a[i]) : i \in DOMAIN a})
    BY <2>1
  <2> QED
    BY <2>1, <2>2
<1> HIDE DEF b
<1>7. Len(t.entries) = Len(s.entries) /\ \A i \in 1 .. Len(s.entries) : t.entries[i] = Restored(s.entries[i])
  BY <1>4, <1>6
<1> QED
  BY <1>3, <1>5, <1>7 DEF Restored, K, t

\* What is live of p again, and what is noted of it no more.
LEMMA RollbackMoves ==
  ASSUME NEW s \in Stores, NEW p \in Pids
  PROVE  LET t == rollback_exec(s, p)
         IN  /\ \A q, x : q # p => Stays(s, t, q, x)
             /\ \A x : /\ LiveCount(t, p, x) = LiveCount(s, p, x) + Marked(s, p, x)
                       /\ Marked(t, p, x) = 0
                       /\ Count(t, "EXEC_INHERIT", p, x) = Frozen(s, p, x)
                       /\ Count(t, "STRAY_RELEASE", p, x) = Count(s, "STRAY_RELEASE", p, x)
                       /\ \A kind \in Unexpected : Count(t, kind, p, x) = Count(s, kind, p, x)
                       /\ Frozen(t, p, x) = Frozen(s, p, x)
                       /\ Known(t, p, x) <=> Known(s, p, x)
<1> DEFINE t == rollback_exec(s, p)
           a == s.entries
           b == t.entries
           fs == s.findings
           K == {f \in Finding : ~Undone(f, p)}
           Restored(e) == IF Undone(e, p) THEN [e EXCEPT !.live = TRUE, !.exec_pending = FALSE] ELSE e
<1>1. t \in Stores /\ Len(b) = Len(a) /\ \A i \in 1 .. Len(a) : b[i] = Restored(a[i])
  BY RollbackUnfolds
<1>2. ASSUME NEW S PROVE Matching(t.findings, S) = Matching(fs, S \cap K)
  BY RollbackUnfolds
<1>3. /\ \A q, x : Known(t, q, x) <=> Known(s, q, x)
      /\ \A q, x : \A kind \in Kinds : kind # "EXEC_INHERIT" \/ q # p => Count(t, kind, q, x) = Count(s, kind, q, x)
  BY RollbackIs
<1>4. /\ a \in Seq(GoodEntry) /\ b \in Seq(GoodEntry) /\ fs \in Seq(GoodFinding)
      /\ \A i \in 1 .. Len(a) : a[i] \in GoodEntry
      /\ \A i \in 1 .. Len(fs) : fs[i] \in GoodFinding
  <2>1. a \in Seq(GoodEntry) /\ b \in Seq(GoodEntry) /\ fs \in Seq(GoodFinding)
    BY <1>1 DEF Stores
  <2> HIDE DEF a, b, fs
  <2> QED
    BY <2>1
<1> HIDE DEF t, K
<1>5. ASSUME NEW e \in GoodEntry, NEW q, NEW x
      PROVE  /\ Restored(e) \in LiveOf(q, x) <=> e \in LiveOf(q, x) \/ (q = p /\ e \in MarkedOf(q, x))
             /\ Restored(e) \in MarkedOf(q, x) <=> q # p /\ e \in MarkedOf(q, x)
  <2> DEFINE d == [e EXCEPT !.live = TRUE, !.exec_pending = FALSE]
  <2>0. e \in Entry /\ (e.exec_pending => ~e.live)
    BY DEF GoodEntry
  <2>1. /\ d \in Entry /\ d.pid = e.pid /\ d.res = e.res /\ d.live = TRUE /\ d.exec_pending = FALSE
    BY <2>0 DEF Entry
  <2>2. Restored(e) = IF e.pid = p /\ e.exec_pending THEN d ELSE e
    BY DEF Undone
  <2> HIDE DEF d, Restored
  <2>3. (e \in LiveOf(q, x) <=> e.pid = q /\ e.res = x /\ e.live)
         /\ (e \in MarkedOf(q, x) <=> e.pid = q /\ e.res = x /\ ~e.live /\ e.exec_pending)
    BY <2>0 DEF Entry, LiveOf, MarkedOf
  <2>4. (d \in LiveOf(q, x) <=> d.pid = q /\ d.res = x) /\ d \notin MarkedOf(q, x)
    BY <2>1 DEF Entry, LiveOf, MarkedOf
  <2>5. CASE e.pid = p /\ e.exec_pending
    BY <2>0, <2>1, <2>2, <2>3, <2>4, <2>5
  <2>6. CASE ~(e.pid = p /\ e.exec_pending)
    BY <2>0, <2>1, <2>2, <2>3, <2>4, <2>6
  <2> QED
    BY <2>5, <2>6
<1> HIDE DEF Restored
<1>6. ASSUME NEW q, NEW x
      PROVE  /\ LiveCount(s, q, x) \in Nat /\ Marked(s, q, x) \in Nat
             /\ \A k : Count(s, k, q, x) \in Nat
  BY NumbersAre
<1>7. ASSUME NEW q, NEW x
      PROVE  /\ LiveCount(t, q, x) = LiveCount(s, q, x) + (IF q = p THEN Marked(s, q, x) ELSE 0)
             /\ Marked(t, q, x) = IF q = p THEN 0 ELSE Marked(s, q, x)
  <2> DEFINE L == LiveOf(q, x)
             M == MarkedOf(q, x)
  <2>1. L \cap M = {}
    BY DEF LiveOf, MarkedOf
  <2>2. /\ LiveCount(t, q, x) = Matching(b, L) /\ LiveCount(s, q, x) = Matching(a, L)
        /\ Marked(t, q, x) = Matching(b, M) /\ Marked(s, q, x) = Matching(a, M)
    BY DEF LiveCount, Marked
  <2>3. ASSUME NEW i \in 1 .. Len(a)
        PROVE  /\ b[i] \in L <=> a[i] \in L \/ (q = p /\ a[i] \in M)
               /\ b[i] \in M <=> q # p /\ a[i] \in M
    <3>1. b[i] = Restored(a[i]) /\ a[i] \in GoodEntry
      BY <1>1, <1>4
    <3> DEFINE e == a[i]
    <3> HIDE DEF e
    <3>2. e \in GoodEntry
      BY <3>1 DEF e
    <3>3. /\ Restored(e) \in L <=> e \in L \/ (q = p /\ e \in M)
          /\ Restored(e) \in M <=> q # p /\ e \in M
      BY <1>5, <3>2
    <3> QED
      BY <3>1, <3>3 DEF e
  <2> HIDE DEF L, M, a, b
  <2>4. CASE q = p
    <3> DEFINE U == L \cup M
    <3>1. \A i \in 1 .. Len(a) : a[i] \in U <=> b[i] \in L
      BY <2>3, <2>4
    <3>2. Matching(a, U) = Matching(a, L) + Matching(a, M)
      BY <1>4, <2>1, MatchingUnion
    <3> HIDE DEF U
    <3>3. Matching(b, L) = Matching(a, U)
      BY <1>1, <1>4, <3>1, MatchingSame
    <3>4. \A i \in 1 .. Len(b) : b[i] \notin M
      BY <1>1, <2>3, <2>4
    <3>5. Matching(b, M) = 0
      BY <1>4, <3>4, MatchingIs
    <3> QED
      BY <2>2, <2>4, <3>2, <3>3, <3>5
  <2>5. CASE q # p
    <3>1. \A i \in 1 .. Len(a) : (a[i] \in L <=> b[i] \in L) /\ (a[i] \in M <=> b[i] \in M)
      BY <2>3, <2>5
    <3>2. Matching(b, L) = Matching(a, L) /\ Matching(b, M) = Matching(a, M)
      BY <1>1, <1>4, <3>1, MatchingSame
    <3> QED
      BY <1>6, <2>2, <2>5, <3>2
  <2> QED
    BY <2>4, <2>5
<1>8. ASSUME NEW f \in GoodFinding, NEW q, NEW x
      PROVE  /\ f \in FrozenOf(q, x) => f \in K
             /\ q = p => (f \in FindingsOf("EXEC_INHERIT", q, x) \cap K <=> f \in FrozenOf(q, x))
  <2>1. f \in Finding
    BY DEF GoodFinding
  <2>2. /\ f \in FrozenOf(q, x) <=> f.kind = "EXEC_INHERIT" /\ f.pid = q /\ f.res = x /\ ~f.exec_pending
        /\ f \in FindingsOf("EXEC_INHERIT", q, x) <=> f.kind = "EXEC_INHERIT" /\ f.pid = q /\ f.res = x
        /\ f \in K <=> ~(f.pid = p /\ f.exec_pending)
    BY <2>1 DEF Finding, FrozenOf, FindingsOf, Undone, K
  <2> QED
    BY <2>2
<1>9. ASSUME NEW q, NEW x PROVE Frozen(t, q, x) = Frozen(s, q, x)
  <2> DEFINE F == FrozenOf(q, x)
             G == F \cap K
  <2>1. \A i \in 1 .. Len(fs) : fs[i] \in F <=> fs[i] \in G
    BY <1>4, <1>8
  <2>2. Matching(t.findings, F) = Matching(fs, G)
    BY <1>2
  <2> HIDE DEF F, G, fs
  <2>3. Matching(fs, G) = Matching(fs, F)
    BY <1>4, <2>1, MatchingSame
  <2> QED
    BY <2>2, <2>3 DEF Frozen, F, fs
<1>10. ASSUME NEW x PROVE Count(t, "EXEC_INHERIT", p, x) = Frozen(s, p, x)
  <2> DEFINE F == FrozenOf(p, x)
             E == FindingsOf("EXEC_INHERIT", p, x)
             G == E \cap K
  <2>1. \A i \in 1 .. Len(fs) : fs[i] \in F <=> fs[i] \in G
    BY <1>4, <1>8
  <2>2. Matching(t.findings, E) = Matching(fs, G)
    BY <1>2
  <2> HIDE DEF E, F, G, fs
  <2>3. Matching(fs, G) = Matching(fs, F)
    BY <1>4, <2>1, MatchingSame
  <2> QED
    BY <2>2, <2>3 DEF Frozen, Count, E, F, fs
<1>11. \A kind \in Unexpected \cup {"STRAY_RELEASE"} : kind \in Kinds /\ kind # "EXEC_INHERIT"
  BY DEF Unexpected, Kinds
<1>12. ASSUME NEW q, NEW x, q # p PROVE Stays(s, t, q, x)
  <2>1. "EXEC_INHERIT" \in Kinds
    BY DEF Kinds
  <2>2. /\ Count(t, "EXEC_INHERIT", q, x) = Count(s, "EXEC_INHERIT", q, x)
        /\ \A kind \in Unexpected \cup {"STRAY_RELEASE"} : Count(t, kind, q, x) = Count(s, kind, q, x)
    BY <1>3, <1>11, <1>12, <2>1
  <2> QED
    BY <1>3, <1>6, <1>7, <1>9, <1>12, <2>2 DEF Stays, Moves
<1>13. ASSUME NEW x
       PROVE  /\ LiveCount(t, p, x) = LiveCount(s, p, x) + Marked(s, p, x)
              /\ Marked(t, p, x) = 0
              /\ Count(t, "STRAY_RELEASE", p, x) = Count(s, "STRAY_RELEASE", p, x)
              /\ \A kind \in Unexpected : Count(t, kind, p, x) = Count(s, kind, p, x)
  BY <1>3, <1>7, <1>11
<1> QED
  BY <1>3, <1>9, <1>10, <1>12, <1>13 DEF t

\* Two models that show the same of a process count the same findings of it.
Tells(ks, q, kind, x) ==
  \A i \in 1 .. Len(ks) :
    /\ ks[i] \in FindingsOf(kind, q, x) <=> ks[i].kind = kind /\ ks[i].res = x
    /\ FindingShown[ks[i]] = <<ks[i].kind, ks[i].res>>
LEMMA FoundIs ==
  ASSUME NEW s \in Stores, NEW q, NEW kind \in Kinds \ {"LEAK"}, NEW x
  PROVE  LET ks == Kept(s.findings, FoundOf(q))
         IN  /\ ks \in Seq(GoodFinding)
             /\ Count(s, kind, q, x) = Matching(ks, FindingsOf(kind, q, x))
             /\ Tells(ks, q, kind, x)
<1> DEFINE fs == s.findings
           F == FoundOf(q)
           S == FindingsOf(kind, q, x)
           G == S \cap F
           ks == Kept(fs, F)
<1>1. fs \in Seq(GoodFinding)
  BY DEF Stores
<1>2. \A i \in 1 .. Len(fs) : fs[i] \in S <=> fs[i] \in G
  <2> SUFFICES ASSUME NEW i \in 1 .. Len(fs) PROVE fs[i] \in S <=> fs[i] \in G
    OBVIOUS
  <2> DEFINE f == fs[i]
  <2>1. f \in GoodFinding
    <3> HIDE DEF fs
    <3> QED
      BY <1>1
  <2> HIDE DEF f
  <2>2. f \in S => f \in F
    BY <2>1 DEF GoodFinding, FindingsOf, FoundOf
  <2> QED
    BY <2>2 DEF f
<1>3. \A f \in F : (f \in S <=> f.kind = kind /\ f.res = x) /\ FindingShown[f] = <<f.kind, f.res>>
  BY DEF FoundOf, Finding, FindingsOf, FindingShown
<1> HIDE DEF fs, F, S, G
<1>4. /\ ks \in Seq(GoodFinding) /\ \A i \in 1 .. Len(ks) : ks[i] \in F
      /\ Matching(ks, S) = Matching(fs, S \cap F)
  <2>1. ks \in Seq(GoodFinding) /\ \A i \in 1 .. Len(ks) : ks[i] \in F
    BY <1>1, KeptIs
  <2>2. Matching(ks, S) = Matching(fs, S \cap F)
    BY <1>1, KeptIs
  <2> QED
    BY <2>1, <2>2
<1>5. Matching(fs, G) = Matching(fs, S)
  BY <1>1, <1>2, MatchingSame
<1>6. Count(s, kind, q, x) = Matching(ks, S)
  BY <1>4, <1>5 DEF Count, fs, S, G
<1> HIDE DEF ks
<1>7. \A i \in 1 .. Len(ks) : /\ ks[i] \in S <=> ks[i].kind = kind /\ ks[i].res = x
                              /\ FindingShown[ks[i]] = <<ks[i].kind, ks[i].res>>
  BY <1>3, <1>4
<1> QED
  BY <1>4, <1>6, <1>7 DEF ks, fs, F, S, Tells

LEMMA ViewDecides ==
  ASSUME NEW s \in Stores, NEW t \in Stores, NEW q, SameView(s, t, q),
         NEW kind \in Kinds \ {"LEAK"}, NEW x
  PROVE  Count(t, kind, q, x) = Count(s, kind, q, x)
<1> DEFINE F == FoundOf(q)
           S == FindingsOf(kind, q, x)
           k == Kept(s.findings, F)
           l == Kept(t.findings, F)
<1>1. /\ k \in Seq(GoodFinding) /\ l \in Seq(GoodFinding)
      /\ Count(s, kind, q, x) = Matching(k, S) /\ Count(t, kind, q, x) = Matching(l, S)
  BY FoundIs
<1>2. Tells(k, q, kind, x) /\ Tells(l, q, kind, x)
  BY FoundIs
<1> HIDE DEF k, l
<1>3. \A i \in 1 .. Len(k) : /\ k[i] \in S <=> k[i].kind = kind /\ k[i].res = x
                             /\ FindingShown[k[i]] = <<k[i].kind, k[i].res>>
  BY <1>2 DEF Tells
<1>4. \A i \in 1 .. Len(l) : /\ l[i] \in S <=> l[i].kind = kind /\ l[i].res = x
                             /\ FindingShown[l[i]] = <<l[i].kind, l[i].res>>
  BY <1>2 DEF Tells
<1>5. [i \in DOMAIN l |-> FindingShown[l[i]]] = [i \in DOMAIN k |-> FindingShown[k[i]]]
  BY DEF SameView, Shown, k, l
<1> HIDE DEF S
<1>6. DOMAIN l = DOMAIN k /\ \A i \in DOMAIN k : FindingShown[l[i]] = FindingShown[k[i]]
  <2> DEFINE g == [i \in DOMAIN l |-> FindingShown[l[i]]]
             h == [i \in DOMAIN k |-> FindingShown[k[i]]]
  <2>1. /\ DOMAIN g = DOMAIN l /\ \A i \in DOMAIN l : g[i] = FindingShown[l[i]]
        /\ DOMAIN h = DOMAIN k /\ \A i \in DOMAIN k : h[i] = FindingShown[k[i]]
    OBVIOUS
  <2>2. g = h
    BY <1>5
  <2> HIDE DEF g, h
  <2> QED
    BY <2>1, <2>2
<1>7. Len(l) = Len(k) /\ DOMAIN k = 1 .. Len(k)
  BY <1>1, <1>6
<1>8. ASSUME NEW i \in 1 .. Len(k) PROVE k[i] \in S <=> l[i] \in S
  <2>1. FindingShown[l[i]] = FindingShown[k[i]] /\ i \in 1 .. Len(l)
    BY <1>6, <1>7
  <2>2. <<l[i].kind, l[i].res>> = <<k[i].kind, k[i].res>>
    BY <1>3, <1>4, <2>1
  <2>3. l[i].kind = k[i].kind /\ l[i].res = k[i].res
    BY <2>2
  <2> QED
    BY <1>3, <1>4, <2>1, <2>3
<1>9. Matching(l, S) = Matching(k, S)
  BY <1>1, <1>7, <1>8, MatchingSame
<1> QED
  BY <1>1, <1>9

-----------------------------------------------------------------------------
(* The inductive invariant: while the replay has met no failure, what it   *)
(* has recorded of each descriptor is what the tables of the kernel and    *)
(* the calls in progress say.                                              *)

\* A step of the replay, as a change of its evidence.
LEMMA NowMoves ==
  ASSUME NEW s, NEW t, s.entries = entries, s.findings = findings,
         entries' = t.entries, findings' = t.findings, NEW q, NEW x
  PROVE  /\ \A l, m, n, i : Moves(s, t, q, x, l, m, n, i) => Moves(Now, Now', q, x, l, m, n, i)
         /\ Stays(s, t, q, x) => Stays(Now, Now', q, x)
         /\ Known(t, q, x) <=> Known(Now', q, x)
         /\ Known(s, q, x) <=> Known(Now, q, x)
         /\ Live(s, q, x) <=> Live(Now, q, x)
<1>1. /\ Now.entries = s.entries /\ Now.findings = s.findings
      /\ Now'.entries = t.entries /\ Now'.findings = t.findings
  BY DEF Now
<1>2. /\ LiveCount(Now, q, x) = LiveCount(s, q, x)
      /\ Marked(Now, q, x) = Marked(s, q, x)
      /\ Known(Now, q, x) <=> Known(s, q, x)
      /\ Frozen(Now, q, x) = Frozen(s, q, x)
      /\ \A kind : Count(Now, kind, q, x) = Count(s, kind, q, x)
  <2> DEFINE u == Now
  <2>1. u.entries = s.entries /\ u.findings = s.findings
    BY <1>1
  <2> HIDE DEF u
  <2>2. /\ LiveCount(u, q, x) = LiveCount(s, q, x) /\ Marked(u, q, x) = Marked(s, q, x)
        /\ Known(u, q, x) <=> Known(s, q, x)
    BY <2>1, EntriesDecide
  <2>3. Frozen(u, q, x) = Frozen(s, q, x) /\ \A kind : Count(u, kind, q, x) = Count(s, kind, q, x)
    BY <2>1, FindingsDecide
  <2> QED
    BY <2>2, <2>3 DEF u
<1>3. /\ LiveCount(Now', q, x) = LiveCount(t, q, x)
      /\ Marked(Now', q, x) = Marked(t, q, x)
      /\ Known(Now', q, x) <=> Known(t, q, x)
      /\ Frozen(Now', q, x) = Frozen(t, q, x)
      /\ \A kind : Count(Now', kind, q, x) = Count(t, kind, q, x)
  <2> DEFINE u == Now'
  <2>1. u.entries = t.entries /\ u.findings = t.findings
    BY <1>1
  <2> HIDE DEF u
  <2>2. /\ LiveCount(u, q, x) = LiveCount(t, q, x) /\ Marked(u, q, x) = Marked(t, q, x)
        /\ Known(u, q, x) <=> Known(t, q, x)
    BY <2>1, EntriesDecide
  <2>3. Frozen(u, q, x) = Frozen(t, q, x) /\ \A kind : Count(u, kind, q, x) = Count(t, kind, q, x)
    BY <2>1, FindingsDecide
  <2> QED
    BY <2>2, <2>3 DEF u
<1>4. ASSUME NEW l, NEW m, NEW n, NEW i, Moves(s, t, q, x, l, m, n, i)
      PROVE  Moves(Now, Now', q, x, l, m, n, i)
  BY <1>2, <1>3, <1>4 DEF Moves
<1>5. Stays(s, t, q, x) => Stays(Now, Now', q, x)
  BY <1>2, <1>3, <1>4 DEF Stays
<1>6. Live(s, q, x) <=> Live(Now, q, x)
  BY <1>1, SameEvidence
<1> QED
  BY <1>2, <1>3, <1>4, <1>5, <1>6

One(b) == IF b THEN 1 ELSE 0

\* The snapshot of f in the exec call that p is in has been replayed.
Taken(p, f) == Executing(p) /\ f \in open[p] \ snapshot[p]

\* The exec calls of p that left f open.
LeftOpen(p, f) == Matching(inherited[p], {kept \in SUBSET Fds : f \in kept})

Evidence(p, f) ==
  /\ LiveCount(Now, p, f)
       = One(p \notin unreported /\ f \in open[p] /\ ~(Taken(p, f) /\ f \in cloexec[p]))
  /\ Count(Now, "STRAY_RELEASE", p, f) = One(p \in unreported /\ f \in open[parent[p]] \ open[p])
  /\ Count(Now, "EXEC_INHERIT", p, f)
       = IF Executing(p) THEN One(Taken(p, f) /\ f \notin cloexec[p]) ELSE LeftOpen(p, f)
  /\ ~finished => /\ inherited[p] = <<>> => Marked(Now, p, f) = One(Taken(p, f) /\ f \in cloexec[p])
                  /\ Frozen(Now, p, f) = 0
                  /\ p \in unreported \/ ~Alive(p) => ~Known(Now, p, f)

\* Nothing else is recorded, leaks of a finished model aside.
Clean ==
  \A p \in Pids, x \in Resources :
    /\ \A kind \in Unexpected : Count(Now, kind, p, x) = 0
    /\ x \notin Fds => Count(Now, "STRAY_RELEASE", p, x) = 0

\* The tables of the kernel, and what each process may be in the middle of.
TablesAre ==
  /\ open \in [Pids -> SUBSET Fds] /\ cloexec \in [Pids -> SUBSET Fds]
  /\ parent \in [Pids -> Pids \cup {Null}]
  /\ unreported \subseteq Pids
  /\ snapshot \in [Pids -> (SUBSET Fds) \cup {Null}]
  /\ inherited \in [Pids -> Seq(SUBSET Fds)]
Coherent(p) ==
  /\ cloexec[p] \subseteq open[p]
  /\ Executing(p) => snapshot[p] \subseteq open[p] /\ inherited[p] = <<>> /\ p \notin unreported
  /\ ~Alive(p) => open[p] = {} /\ ~Executing(p) /\ inherited[p] = <<>>
Orphanless(c) ==
  /\ c # First /\ parent[c] \in Pids /\ parent[c] \notin unreported
  /\ Alive(parent[c]) /\ ~Executing(parent[c])
  /\ open[c] \subseteq open[parent[c]] /\ inherited[c] = <<>>
Tables ==
  /\ TablesAre
  /\ \A p \in Pids : Coherent(p)
  /\ \A c \in unreported : Orphanless(c)
  /\ finished => Settled

\* The kernel names the parent of every process whose record is due.
Kernel == TablesAre /\ \A c \in unreported : parent[c] \in Pids

Sound == Tables /\ Clean /\ \A p \in Pids, f \in Fds : Evidence(p, f)
WorldInv == TypeOK /\ Kernel /\ (status = 0 => Sound)

\* The client stops at the first failure, a process that replaced its image
\* does not do so again, and a child whose FORK record is not published does
\* no more than close.
Regular == Strict /\ ~Reexec /\ EarlyActs \subseteq {"close"}

\* A process and a descriptor that a step does not concern.
Unconcerned(q, x) ==
  /\ q \in unreported' <=> q \in unreported
  /\ x \in open'[q] <=> x \in open[q]
  /\ x \in cloexec'[q] <=> x \in cloexec[q]
  /\ Executing(q)' <=> Executing(q)
  /\ Executing(q) => (x \in snapshot'[q] <=> x \in snapshot[q])
  /\ q \in unreported => (x \in open'[parent'[q]] <=> x \in open[parent[q]])
  /\ inherited'[q] = inherited[q]
  /\ Alive(q)' <=> Alive(q)
  /\ finished => finished'

LEMMA EvidenceStays ==
  ASSUME TypeOK, NEW q \in Pids, NEW x \in Fds, Evidence(q, x), Stays(Now, Now', q, x), Unconcerned(q, x)
  PROVE  Evidence(q, x)'
<1>1. Taken(q, x)' <=> Taken(q, x)
  BY DEF Taken, Unconcerned
<1>2. LeftOpen(q, x)' = LeftOpen(q, x)
  BY DEF LeftOpen, Unconcerned
<1> DEFINE a == One(q \notin unreported /\ x \in open[q] /\ ~(Taken(q, x) /\ x \in cloexec[q]))
           b == One(q \in unreported /\ x \in open[parent[q]] \ open[q])
           c == One(Taken(q, x) /\ x \notin cloexec[q])
           d == One(Taken(q, x) /\ x \in cloexec[q])
<1>3. a' = a /\ b' = b /\ c' = c /\ d' = d
  BY <1>1 DEF Unconcerned, One
<1>4. a \in Nat /\ b \in Nat /\ c \in Nat /\ d \in Nat
  BY DEF One
<1> HIDE DEF a, b, c, d
<1>5. /\ LiveCount(Now, q, x) = a /\ Count(Now, "STRAY_RELEASE", q, x) = b
      /\ Count(Now, "EXEC_INHERIT", q, x) = IF Executing(q) THEN c ELSE LeftOpen(q, x)
      /\ ~finished => /\ inherited[q] = <<>> => Marked(Now, q, x) = d
                      /\ Frozen(Now, q, x) = 0
                      /\ q \in unreported \/ ~Alive(q) => ~Known(Now, q, x)
  BY DEF Evidence, a, b, c, d
<1>6. \A kind : Count(Now, kind, q, x) \in Nat
  BY NowCounts
<1>7. /\ LiveCount(Now', q, x) = LiveCount(Now, q, x)
      /\ \A kind \in {"STRAY_RELEASE", "EXEC_INHERIT"} : Count(Now', kind, q, x) = Count(Now, kind, q, x)
      /\ Marked(Now', q, x) = Marked(Now, q, x) + 0
      /\ Frozen(Now', q, x) = Frozen(Now, q, x)
      /\ Known(Now', q, x) <=> Known(Now, q, x)
  BY <1>4, <1>5, <1>6 DEF Stays, Moves
<1>8. /\ LiveCount(Now', q, x) = a' /\ Count(Now', "STRAY_RELEASE", q, x) = b'
      /\ Count(Now', "EXEC_INHERIT", q, x) = IF Executing(q)' THEN c' ELSE LeftOpen(q, x)'
  BY <1>2, <1>3, <1>5, <1>7 DEF Unconcerned
<1>9. ASSUME ~finished'
      PROVE  /\ inherited'[q] = <<>> => Marked(Now', q, x) = d'
             /\ Frozen(Now', q, x) = 0
             /\ q \in unreported' \/ ~Alive(q)' => ~Known(Now', q, x)
  BY <1>3, <1>4, <1>5, <1>7, <1>9 DEF Unconcerned
<1> QED
  BY <1>8, <1>9 DEF Evidence, a, b, c, d

-----------------------------------------------------------------------------
(* The tables stay coherent, whatever a process does next.                 *)

LEMMA NullIs ==
  /\ Null \notin Pids /\ \A S \in SUBSET Fds : S # Null
  /\ Runs # {} /\ TheRun \in Runs /\ Unlimited \in Budgets /\ Unlimited \in Nat
BY ProcessAssumption, LifecycleAssumption DEF TheRun, Unlimited, Budgets

LEMMA OpenTables ==
  ASSUME Regular, Tables, NEW p \in Pids, NEW f \in Fds, NEW closing \in BOOLEAN,
         Open(p, f, closing)
  PROVE  Tables' /\ p \notin unreported /\ f \notin open[p] /\ ~Executing(p) /\ ~Forking(p) /\ Alive(p)
<1>1. /\ p \notin unreported /\ f \notin open[p] /\ ~Executing(p) /\ ~Forking(p) /\ Alive(p)
  BY DEF Open, Ready, Regular
<1>2. /\ open' = [open EXCEPT ![p] = @ \cup {f}]
      /\ cloexec' = IF closing THEN [cloexec EXCEPT ![p] = @ \cup {f}] ELSE cloexec
      /\ parent' = parent /\ unreported' = unreported /\ snapshot' = snapshot /\ inherited' = inherited
      /\ finished' = FALSE
  BY DEF Open, IngestOpen, Ingested
<1>3. TablesAre'
  BY <1>2 DEF Tables, TablesAre
<1>4. ASSUME NEW q \in Pids PROVE Coherent(q)'
  BY <1>1, <1>2 DEF Tables, TablesAre, Coherent, Alive, Executing
<1>5. ASSUME NEW c \in unreported' PROVE Orphanless(c)'
  BY <1>1, <1>2 DEF Tables, TablesAre, Orphanless, Alive, Executing, Forking
<1> QED
  BY <1>1, <1>2, <1>3, <1>4, <1>5 DEF Tables

LEMMA CloseTables ==
  ASSUME Regular, Tables, NEW p \in Pids, NEW f \in Fds, Close(p, f)
  PROVE  Tables' /\ f \in open[p] /\ ~Executing(p) /\ ~Forking(p) /\ Alive(p)
<1>1. f \in open[p] /\ ~Executing(p) /\ ~Forking(p) /\ Alive(p)
  BY DEF Close, Ready, Regular
<1>2. /\ open' = [open EXCEPT ![p] = @ \ {f}] /\ cloexec' = [cloexec EXCEPT ![p] = @ \ {f}]
      /\ parent' = parent /\ unreported' = unreported /\ snapshot' = snapshot /\ inherited' = inherited
      /\ finished' = FALSE
  BY DEF Close, IngestClose, Ingested
<1>3. TablesAre'
  BY <1>2 DEF Tables, TablesAre
<1>4. ASSUME NEW q \in Pids PROVE Coherent(q)'
  BY <1>1, <1>2 DEF Tables, TablesAre, Coherent, Alive, Executing
<1>5. ASSUME NEW c \in unreported' PROVE Orphanless(c)'
  BY <1>1, <1>2 DEF Tables, TablesAre, Orphanless, Alive, Executing, Forking
<1> QED
  BY <1>1, <1>2, <1>3, <1>4, <1>5 DEF Tables

LEMMA ForkCallTables ==
  ASSUME Regular, Tables, NEW p \in Pids, NEW c \in Pids, ForkCall(p, c)
  PROVE  Tables' /\ p \notin unreported /\ Alive(p) /\ ~Alive(c) /\ p # c
<1>1. p \notin unreported /\ Alive(p) /\ ~Alive(c) /\ ~Executing(p) /\ ~finished
  BY DEF ForkCall, Ready, Regular
<1>2. /\ parent' = [parent EXCEPT ![c] = p]
      /\ open' = [open EXCEPT ![c] = open[p]] /\ cloexec' = [cloexec EXCEPT ![c] = cloexec[p]]
      /\ unreported' = unreported \cup {c} /\ snapshot' = snapshot /\ inherited' = inherited
      /\ finished' = finished
  BY DEF ForkCall, vars, lifecycle
<1>3. p # c /\ p # Null /\ c \notin unreported /\ c # First
  BY <1>1, NullIs DEF Tables, Orphanless, Alive
<1>4. TablesAre'
  BY <1>2 DEF Tables, TablesAre
<1>5. ASSUME NEW q \in Pids PROVE Coherent(q)'
  BY <1>1, <1>2, <1>3 DEF Tables, TablesAre, Coherent, Alive, Executing
<1>6. ASSUME NEW d \in unreported' PROVE Orphanless(d)'
  <2>1. CASE d = c
    BY <1>1, <1>2, <1>3, <2>1 DEF Tables, TablesAre, Coherent, Orphanless, Alive, Executing
  <2>2. CASE d # c
    <3>1. Orphanless(d)
      BY <1>2, <2>2 DEF Tables
    <3>2. parent[d] # c /\ d \in Pids
      BY <1>1, <1>2, <2>2, <3>1 DEF Orphanless, Tables, TablesAre
    <3> QED
      BY <1>2, <2>2, <3>1, <3>2 DEF Tables, TablesAre, Orphanless, Alive, Executing
  <2> QED
    BY <2>1, <2>2
<1> QED
  BY <1>1, <1>2, <1>3, <1>4, <1>5, <1>6 DEF Tables

LEMMA ForkReportTables ==
  ASSUME Regular, Tables, NEW c \in Pids, ForkReport(c)
  PROVE  Tables' /\ Orphanless(c)
<1>1. /\ c \in unreported /\ unreported' = unreported \ {c} /\ finished' = FALSE
      /\ open' = open /\ cloexec' = cloexec /\ parent' = parent
      /\ snapshot' = snapshot /\ inherited' = inherited
  BY DEF ForkReport, IngestFork, Ingested
<1>2. TablesAre'
  BY <1>1 DEF Tables, TablesAre
<1>3. ASSUME NEW q \in Pids PROVE Coherent(q)'
  BY <1>1 DEF Tables, TablesAre, Coherent, Alive, Executing
<1>4. ASSUME NEW d \in unreported' PROVE Orphanless(d)'
  BY <1>1 DEF Tables, TablesAre, Orphanless, Alive, Executing
<1> QED
  BY <1>1, <1>2, <1>3, <1>4 DEF Tables

LEMMA ExecCallTables ==
  ASSUME Regular, Tables, NEW p \in Pids, ExecCall(p)
  PROVE  Tables' /\ ~Executing(p) /\ inherited[p] = <<>>
<1>1. /\ p \notin unreported /\ Alive(p) /\ ~Executing(p) /\ ~Forking(p) /\ ~finished
      /\ inherited[p] = <<>>
  BY DEF ExecCall, Ready, Regular
<1>2. /\ snapshot' = [snapshot EXCEPT ![p] = open[p]] /\ finished' = finished
      /\ open' = open /\ cloexec' = cloexec /\ parent' = parent
      /\ unreported' = unreported /\ inherited' = inherited
  BY DEF ExecCall, vars, lifecycle
<1>3. TablesAre'
  BY <1>2 DEF Tables, TablesAre
<1>4. ASSUME NEW q \in Pids PROVE Coherent(q)'
  BY <1>1, <1>2 DEF Tables, TablesAre, Coherent, Alive, Executing
<1>5. ASSUME NEW d \in unreported' PROVE Orphanless(d)'
  <2>1. Orphanless(d) /\ parent[d] # p /\ d \in Pids
    BY <1>1, <1>2 DEF Tables, TablesAre, Forking
  <2> QED
    BY <1>1, <1>2, <2>1 DEF Tables, TablesAre, Orphanless, Alive, Executing
<1> QED
  BY <1>1, <1>2, <1>3, <1>4, <1>5 DEF Tables

LEMMA ExecSnapshotTables ==
  ASSUME Regular, Tables, NEW p \in Pids, NEW f \in Fds, ExecSnapshot(p, f)
  PROVE  /\ Tables' /\ Executing(p) /\ Executing(p)' /\ f \in snapshot[p] /\ f \in open[p]
         /\ p \notin unreported /\ inherited[p] = <<>>
<1>1. /\ Executing(p) /\ f \in snapshot[p] /\ snapshot[p] \subseteq open[p]
      /\ inherited[p] = <<>> /\ p \notin unreported
  BY DEF ExecSnapshot, Tables, Coherent
<1>2. /\ snapshot' = [snapshot EXCEPT ![p] = @ \ {f}] /\ finished' = FALSE
      /\ open' = open /\ cloexec' = cloexec /\ parent' = parent
      /\ unreported' = unreported /\ inherited' = inherited
  BY DEF ExecSnapshot, IngestExec, Ingested
<1>3. open[p] \subseteq Fds
  BY DEF Tables, TablesAre
<1>4. snapshot'[p] = snapshot[p] \ {f} /\ snapshot'[p] \subseteq Fds
  BY <1>1, <1>2, <1>3 DEF Tables, TablesAre
<1>5. Executing(p)'
  BY <1>4, NullIs DEF Executing
<1>6. TablesAre'
  BY <1>2, <1>4 DEF Tables, TablesAre
<1>7. ASSUME NEW q \in Pids PROVE Coherent(q)'
  BY <1>1, <1>2, <1>4 DEF Tables, TablesAre, Coherent, Alive, Executing
<1>8. ASSUME NEW d \in unreported' PROVE Orphanless(d)'
  <2>1. Orphanless(d) /\ parent[d] # p /\ d \in Pids
    BY <1>1, <1>2 DEF Tables, TablesAre, Orphanless
  <2> QED
    BY <1>1, <1>2, <2>1 DEF Tables, TablesAre, Orphanless, Alive, Executing
<1> QED
  BY <1>1, <1>2, <1>5, <1>6, <1>7, <1>8 DEF Tables

\* The exec call of p returned: it published all it had to.
LEMMA ExecReturns ==
  ASSUME Tables, NEW p \in Pids, snapshot[p] = {}
  PROVE  /\ Executing(p) /\ inherited[p] = <<>> /\ p \notin unreported /\ ~Forking(p)
         /\ Alive(p) /\ ~finished
<1>1. Executing(p)
  BY NullIs DEF Executing
<1>2. ASSUME NEW c \in unreported PROVE parent[c] # p
  BY <1>1 DEF Tables, Orphanless
<1> QED
  BY <1>1, <1>2 DEF Tables, Coherent, Settled, Forking

LEMMA ExecSucceedsTables ==
  ASSUME Regular, Tables, NEW p \in Pids, ExecSucceeds(p)
  PROVE  Tables'
<1>1. /\ Executing(p) /\ inherited[p] = <<>> /\ p \notin unreported /\ ~Forking(p)
      /\ Alive(p) /\ ~finished
  BY ExecReturns DEF ExecSucceeds
<1>2. /\ snapshot' = [snapshot EXCEPT ![p] = Null] /\ finished' = finished
      /\ open' = [open EXCEPT ![p] = @ \ cloexec[p]] /\ cloexec' = [cloexec EXCEPT ![p] = {}]
      /\ inherited' = [inherited EXCEPT ![p] = Append(@, open[p] \ cloexec[p])]
      /\ parent' = parent /\ unreported' = unreported
  BY DEF ExecSucceeds, vars, lifecycle
<1>3. TablesAre'
  BY <1>2 DEF Tables, TablesAre
<1>4. ASSUME NEW q \in Pids PROVE Coherent(q)'
  BY <1>1, <1>2 DEF Tables, TablesAre, Coherent, Alive, Executing
<1>5. ASSUME NEW d \in unreported' PROVE Orphanless(d)'
  <2>1. Orphanless(d) /\ parent[d] # p /\ d \in Pids /\ d # p
    BY <1>1, <1>2 DEF Tables, TablesAre, Forking
  <2> QED
    BY <1>1, <1>2, <2>1 DEF Tables, TablesAre, Orphanless, Alive, Executing
<1> QED
  BY <1>1, <1>2, <1>3, <1>4, <1>5 DEF Tables

LEMMA ExecFailsTables ==
  ASSUME Regular, Tables, NEW p \in Pids, ExecFails(p)
  PROVE  Tables'
<1>1. /\ Executing(p) /\ inherited[p] = <<>> /\ p \notin unreported /\ ~Forking(p)
      /\ Alive(p) /\ ~finished
  BY ExecReturns DEF ExecFails
<1>2. /\ snapshot' = [snapshot EXCEPT ![p] = Null] /\ finished' = FALSE
      /\ open' = open /\ cloexec' = cloexec /\ inherited' = inherited
      /\ parent' = parent /\ unreported' = unreported
  BY DEF ExecFails, IngestExecFail, Ingested
<1>3. TablesAre'
  BY <1>2 DEF Tables, TablesAre
<1>4. ASSUME NEW q \in Pids PROVE Coherent(q)'
  BY <1>1, <1>2 DEF Tables, TablesAre, Coherent, Alive, Executing
<1>5. ASSUME NEW d \in unreported' PROVE Orphanless(d)'
  <2>1. Orphanless(d) /\ parent[d] # p /\ d \in Pids
    BY <1>1, <1>2 DEF Tables, TablesAre, Forking
  <2> QED
    BY <1>1, <1>2, <2>1 DEF Tables, TablesAre, Orphanless, Alive, Executing
<1> QED
  BY <1>1, <1>2, <1>3, <1>4, <1>5 DEF Tables

LEMMA EndRunTables ==
  ASSUME Tables, EndRun
  PROVE  Tables'
<1>1. /\ open' = open /\ cloexec' = cloexec /\ inherited' = inherited /\ snapshot' = snapshot
      /\ parent' = parent /\ unreported' = unreported /\ Settled
  BY DEF EndRun, kernel
<1>2. TablesAre' /\ Settled'
  BY <1>1 DEF Tables, TablesAre, Settled, Executing
<1>3. ASSUME NEW q \in Pids PROVE Coherent(q)'
  BY <1>1 DEF Tables, Coherent, Alive, Executing
<1>4. ASSUME NEW d \in unreported' PROVE Orphanless(d)'
  BY <1>1 DEF Tables, Orphanless, Alive, Executing
<1> QED
  BY <1>2, <1>3, <1>4 DEF Tables

-----------------------------------------------------------------------------
(* The evidence follows the tables.                                        *)

LEMMA CleanStep ==
  ASSUME Clean, NEW p, NEW l, NEW m, NEW n, NEW i, NEW f \in Fds,
         Elsewhere(Now, Now', p, f), Moves(Now, Now', p, f, l, m, n, i)
  PROVE  Clean'
<1> SUFFICES ASSUME NEW q \in Pids, NEW x \in Resources
             PROVE  /\ \A kind \in Unexpected : Count(Now', kind, q, x) = 0
                    /\ x \notin Fds => Count(Now', "STRAY_RELEASE", q, x) = 0
  BY DEF Clean
<1>1. CASE q = p /\ x = f
  BY <1>1 DEF Clean, Moves
<1>2. CASE q # p \/ x # f
  <2>1. Stays(Now, Now', q, x)
    BY <1>2 DEF Elsewhere
  <2>2. x \notin Fds => Count(Now', "STRAY_RELEASE", q, x) = 0 + 0
    BY <2>1 DEF Clean, Stays, Moves
  <2> QED
    BY <2>1, <2>2 DEF Clean, Stays, Moves
<1> QED
  BY <1>1, <1>2

LEMMA CleanStays ==
  ASSUME Clean, \A q \in Pids, x \in Resources : Stays(Now, Now', q, x)
  PROVE  Clean'
<1> SUFFICES ASSUME NEW q \in Pids, NEW x \in Resources
             PROVE  /\ \A kind \in Unexpected : Count(Now', kind, q, x) = 0
                    /\ x \notin Fds => Count(Now', "STRAY_RELEASE", q, x) = 0
  BY DEF Clean
<1>1. Stays(Now, Now', q, x)
  OBVIOUS
<1>2. x \notin Fds => Count(Now', "STRAY_RELEASE", q, x) = 0 + 0
  BY <1>1 DEF Clean, Stays, Moves
<1> QED
  BY <1>1, <1>2 DEF Clean, Stays, Moves

\* A record that met no failure.
LEMMA RecordIs ==
  ASSUME TypeOK, Strict, NEW kind, NEW id, Admits(kind, id), NEW s \in Stores,
         NEW p, NEW rs, Ingested(id, s, p, rs), status' = 0
  PROVE  /\ s.ok /\ entries' = s.entries /\ findings' = s.findings
         /\ finished' = FALSE /\ ~finished /\ status = 0
BY StrictGate DEF Ingested, Stores

\* Nothing recorded, nothing changed.
LEMMA NowStays ==
  ASSUME TypeOK, entries' = entries, findings' = findings, NEW q, NEW x
  PROVE  Stays(Now, Now', q, x)
<1> DEFINE s == Store(0)
<1>1. s \in Stores /\ s.entries = entries /\ s.findings = findings
  BY StoreIs
<1> HIDE DEF s
<1>2. Stays(s, s, q, x)
  BY <1>1, StaysSame
<1>3. entries' = s.entries /\ findings' = s.findings
  BY <1>1
<1> QED
  BY <1>1, <1>2, <1>3, NowMoves

\* In numbers, with what is known of p and f before.
LEMMA LiveNow ==
  ASSUME TypeOK, NEW s \in Stores, s.entries = entries, s.findings = findings, NEW p, NEW f
  PROVE  /\ Live(s, p, f) <=> LiveCount(Now, p, f) # 0
         /\ Known(s, p, f) <=> Known(Now, p, f)
         /\ \A kind : Count(s, kind, p, f) = Count(Now, kind, p, f)
         /\ LiveCount(s, p, f) = LiveCount(Now, p, f)
         /\ Marked(s, p, f) = Marked(Now, p, f)
         /\ Frozen(s, p, f) = Frozen(Now, p, f)
<1> DEFINE u == Now
<1>1. u.entries = s.entries /\ u.findings = s.findings
  BY DEF Now
<1> HIDE DEF u
<1>2. /\ LiveCount(u, p, f) = LiveCount(s, p, f) /\ Marked(u, p, f) = Marked(s, p, f)
      /\ Known(u, p, f) <=> Known(s, p, f)
  BY <1>1, EntriesDecide
<1>3. Frozen(u, p, f) = Frozen(s, p, f) /\ \A kind : Count(u, kind, p, f) = Count(s, kind, p, f)
  BY <1>1, FindingsDecide
<1>4. Live(s, p, f) <=> LiveCount(s, p, f) # 0
  BY LiveIs
<1> QED
  BY <1>2, <1>3, <1>4 DEF u

LEMMA OpenEvidence ==
  ASSUME Regular, TypeOK, Sound, NEW p \in Pids, NEW f \in Fds, NEW closing \in BOOLEAN,
         Open(p, f, closing), status' = 0
  PROVE  Clean' /\ \A q \in Pids, x \in Fds : Evidence(q, x)'
<1> DEFINE s == Store(Unlimited)
           t == Acquire(s, p, f)
<1>1. /\ p \notin unreported /\ f \notin open[p] /\ ~Executing(p) /\ ~Forking(p) /\ Alive(p)
  BY OpenTables DEF Sound
<1>2. /\ open' = [open EXCEPT ![p] = @ \cup {f}]
      /\ cloexec' = IF closing THEN [cloexec EXCEPT ![p] = @ \cup {f}] ELSE cloexec
      /\ parent' = parent /\ unreported' = unreported /\ snapshot' = snapshot /\ inherited' = inherited
      /\ Admits("FD", TheRun) /\ Ingested(TheRun, t, p, {})
  BY DEF Open, IngestOpen
<1>3. s \in Stores /\ s.ok /\ s.entries = entries /\ s.findings = findings
  BY StoreIs, NullIs
<1>4. f \in Resources /\ Strict
  BY DEF Resources, Regular
<1>5. /\ Evidence(p, f) /\ open \in [Pids -> SUBSET Fds] /\ cloexec \in [Pids -> SUBSET Fds]
      /\ \A q \in unreported : q \in Pids
  BY DEF Sound, Tables, TablesAre
<1> HIDE DEF s
<1>6. ~Live(s, p, f)
  <2>1. LiveCount(Now, p, f) = 0
    BY <1>1, <1>5 DEF Evidence, One
  <2> QED
    BY <1>3, <2>1, LiveNow
<1>7. t \in Stores
  BY <1>3, <1>4, AcquireProgress DEF Progress, Advances
<1>8. /\ t.ok /\ entries' = t.entries /\ findings' = t.findings
      /\ finished' = FALSE /\ ~finished
  BY <1>2, <1>4, <1>7, RecordIs
<1>9. Elsewhere(s, t, p, f) /\ Moves(s, t, p, f, 1, 0, 0, 0)
  BY <1>3, <1>4, <1>6, <1>8, AcquireMoves
<1> HIDE DEF t
<1>10. Elsewhere(Now, Now', p, f) /\ Moves(Now, Now', p, f, 1, 0, 0, 0)
  BY <1>3, <1>8, <1>9, NowMoves DEF Elsewhere
<1>11. Clean'
  BY <1>10, CleanStep DEF Sound
<1>12. ASSUME NEW q \in Pids, NEW x \in Fds, q # p \/ x # f PROVE Evidence(q, x)'
  <2>1. Stays(Now, Now', q, x) /\ Evidence(q, x)
    BY <1>10, <1>12 DEF Elsewhere, Resources, Sound
  <2>2. q \in unreported => parent[q] \in Pids /\ parent[q] # p
    BY <1>1 DEF Sound, Tables, Orphanless, Forking
  <2>3. Unconcerned(q, x)
    BY <1>2, <1>5, <1>8, <1>12, <2>2 DEF Unconcerned, Executing, Alive
  <2> QED
    BY <2>1, <2>3, EvidenceStays
<1>13. Evidence(p, f)'
  <2>1. p \notin unreported' /\ f \in open'[p] /\ ~Executing(p)' /\ ~Taken(p, f)' /\ Alive(p)'
    BY <1>1, <1>2, <1>5 DEF Executing, Taken, Alive
  <2>2. ~Taken(p, f) /\ LeftOpen(p, f)' = LeftOpen(p, f) /\ inherited'[p] = inherited[p]
    BY <1>1, <1>2 DEF Taken, LeftOpen
  <2>3. /\ LiveCount(Now, p, f) = 0 /\ Count(Now, "STRAY_RELEASE", p, f) = 0
        /\ Count(Now, "EXEC_INHERIT", p, f) = LeftOpen(p, f)
        /\ inherited[p] = <<>> => Marked(Now, p, f) = 0
        /\ Frozen(Now, p, f) = 0
    BY <1>1, <1>5, <1>8, <2>2 DEF Evidence, One
  <2>4. Count(Now, "EXEC_INHERIT", p, f) \in Nat
    BY NowCounts
  <2>5. /\ LiveCount(Now', p, f) = 1 /\ Count(Now', "STRAY_RELEASE", p, f) = 0
        /\ Count(Now', "EXEC_INHERIT", p, f) = LeftOpen(p, f)
        /\ inherited[p] = <<>> => Marked(Now', p, f) = 0
        /\ Frozen(Now', p, f) = 0
    BY <1>10, <2>3, <2>4 DEF Moves
  <2> QED
    BY <2>1, <2>2, <2>5 DEF Evidence, One
<1> QED
  BY <1>11, <1>12, <1>13

LEMMA CloseEvidence ==
  ASSUME Regular, TypeOK, Sound, NEW p \in Pids, NEW f \in Fds, Close(p, f), status' = 0
  PROVE  Clean' /\ \A q \in Pids, x \in Fds : Evidence(q, x)'
<1> DEFINE s == Store(Unlimited)
           t == release_entry(s, p, f)
           l == IF p \in unreported THEN 0 ELSE -1
           n == IF p \in unreported THEN 1 ELSE 0
<1>1. f \in open[p] /\ ~Executing(p) /\ ~Forking(p) /\ Alive(p)
  BY CloseTables DEF Sound
<1>2. /\ open' = [open EXCEPT ![p] = @ \ {f}] /\ cloexec' = [cloexec EXCEPT ![p] = @ \ {f}]
      /\ parent' = parent /\ unreported' = unreported /\ snapshot' = snapshot /\ inherited' = inherited
      /\ Admits("FD", TheRun) /\ Ingested(TheRun, t, p, {f})
  BY DEF Close, IngestClose
<1>3. s \in Stores /\ s.ok /\ s.entries = entries /\ s.findings = findings
  BY StoreIs, NullIs
<1>4. f \in Resources /\ Strict
  BY DEF Resources, Regular
<1>5. /\ Evidence(p, f) /\ open \in [Pids -> SUBSET Fds] /\ cloexec \in [Pids -> SUBSET Fds]
      /\ \A q \in unreported : q \in Pids /\ parent[q] \in Pids /\ parent[q] # p
  <2>1. \A q \in unreported : parent[q] # p
    BY <1>1 DEF Forking
  <2> QED
    BY <2>1 DEF Sound, Tables, TablesAre, Orphanless
<1> HIDE DEF s
<1>6. t \in Stores
  BY <1>3, <1>4, ReleaseProgress DEF Progress, Advances
<1>7. /\ t.ok /\ entries' = t.entries /\ findings' = t.findings
      /\ finished' = FALSE /\ ~finished
  BY <1>2, <1>4, <1>6, RecordIs
<1>8. Elsewhere(s, t, p, f) /\ Moves(s, t, p, f, l, 0, n, 0) /\ (Known(t, p, f) <=> Known(s, p, f))
  <2>1. CASE p \in unreported
    <3>1. ~Known(Now, p, f)
      BY <1>5, <1>7, <2>1 DEF Evidence
    <3>2. ~Known(s, p, f)
      BY <1>3, <3>1, LiveNow
    <3>3. l = 0 /\ n = 1
      BY <2>1
    <3>4. /\ Elsewhere(s, t, p, f) /\ Moves(s, t, p, f, 0, 0, 1, 0)
          /\ Known(t, p, f) <=> Known(s, p, f)
      BY <1>3, <1>4, <1>7, <3>2, ReleaseMoves
    <3> HIDE DEF l, n
    <3> QED
      BY <3>3, <3>4
  <2>2. CASE p \notin unreported
    <3>1. LiveCount(Now, p, f) = 1
      BY <1>1, <1>5, <2>2 DEF Evidence, One, Taken
    <3>2. Live(s, p, f)
      BY <1>3, <3>1, LiveNow
    <3>3. l = -1 /\ n = 0
      BY <2>2
    <3>4. /\ Elsewhere(s, t, p, f) /\ Moves(s, t, p, f, -1, 0, 0, 0)
          /\ Known(t, p, f) <=> Known(s, p, f)
      BY <1>3, <1>4, <1>7, <3>2, ReleaseMoves
    <3> HIDE DEF l, n
    <3> QED
      BY <3>3, <3>4
  <2> QED
    BY <2>1, <2>2
<1> HIDE DEF t, l, n
<1>9. /\ Elsewhere(Now, Now', p, f) /\ Moves(Now, Now', p, f, l, 0, n, 0)
      /\ Known(Now', p, f) <=> Known(Now, p, f)
  <2>1. \A q, x : Stays(s, t, q, x) => Stays(Now, Now', q, x)
    BY <1>3, <1>7, NowMoves
  <2>2. Moves(Now, Now', p, f, l, 0, n, 0)
    BY <1>3, <1>7, <1>8, NowMoves
  <2>3. (Known(t, p, f) <=> Known(Now', p, f)) /\ (Known(s, p, f) <=> Known(Now, p, f))
    BY <1>3, <1>7, NowMoves
  <2> QED
    BY <1>8, <2>1, <2>2, <2>3 DEF Elsewhere
<1>10. Clean'
  BY <1>9, CleanStep DEF Sound
<1>11. ASSUME NEW q \in Pids, NEW x \in Fds, q # p \/ x # f PROVE Evidence(q, x)'
  <2>1. Stays(Now, Now', q, x) /\ Evidence(q, x)
    BY <1>9, <1>11 DEF Elsewhere, Resources, Sound
  <2>2. Unconcerned(q, x)
    BY <1>2, <1>5, <1>7, <1>11 DEF Unconcerned, Executing, Alive
  <2> QED
    BY <2>1, <2>2, EvidenceStays
<1>12. Evidence(p, f)'
  <2>1. /\ (p \in unreported' <=> p \in unreported) /\ f \notin open'[p] /\ ~Executing(p)' /\ ~Taken(p, f)'
        /\ Alive(p)' /\ Alive(p)
    BY <1>1, <1>2, <1>5 DEF Executing, Taken, Alive
  <2>2. ~Taken(p, f) /\ LeftOpen(p, f)' = LeftOpen(p, f) /\ inherited'[p] = inherited[p]
    BY <1>1, <1>2 DEF Taken, LeftOpen
  <2>3. /\ LiveCount(Now, p, f) = One(p \notin unreported) /\ Count(Now, "STRAY_RELEASE", p, f) = 0
        /\ Count(Now, "EXEC_INHERIT", p, f) = LeftOpen(p, f)
        /\ inherited[p] = <<>> => Marked(Now, p, f) = 0
        /\ Frozen(Now, p, f) = 0
        /\ p \in unreported => ~Known(Now, p, f)
    BY <1>1, <1>5, <1>7, <2>2 DEF Evidence, One
  <2>4. Count(Now, "EXEC_INHERIT", p, f) \in Nat
    BY NowCounts
  <2>5. /\ LiveCount(Now', p, f) = 0 /\ Count(Now', "STRAY_RELEASE", p, f) = One(p \in unreported)
        /\ Count(Now', "EXEC_INHERIT", p, f) = LeftOpen(p, f)
        /\ inherited[p] = <<>> => Marked(Now', p, f) = 0
        /\ Frozen(Now', p, f) = 0
        /\ p \in unreported => ~Known(Now', p, f)
    BY <1>9, <2>3, <2>4 DEF Moves, l, n, One
  <2>6. p \in unreported => f \in open'[parent'[p]]
    <3>1. ASSUME p \in unreported PROVE f \in open[parent[p]] /\ parent[p] # p /\ parent[p] \in Pids
      BY <1>1, <1>5, <3>1 DEF Sound, Tables, Orphanless
    <3> QED
      BY <1>2, <1>5, <3>1
  <2>7. /\ LiveCount(Now', p, f)
             = One(p \notin unreported' /\ f \in open'[p] /\ ~(Taken(p, f)' /\ f \in cloexec'[p]))
        /\ Count(Now', "STRAY_RELEASE", p, f) = One(p \in unreported' /\ f \in open'[parent'[p]] \ open'[p])
    BY <2>1, <2>5, <2>6 DEF One
  <2> QED
    BY <2>1, <2>2, <2>5, <2>7 DEF Evidence, One
<1> QED
  BY <1>10, <1>11, <1>12

\* The child is born with what its parent has open, none of it reported.
LEMMA ForkCallEvidence ==
  ASSUME Regular, TypeOK, Sound, NEW p \in Pids, NEW c \in Pids, ForkCall(p, c)
  PROVE  Clean' /\ \A q \in Pids, x \in Fds : Evidence(q, x)'
<1>1. p \notin unreported /\ Alive(p) /\ ~Alive(c) /\ p # c /\ p # Null
  BY ForkCallTables, NullIs DEF Sound
<1>2. /\ parent' = [parent EXCEPT ![c] = p]
      /\ open' = [open EXCEPT ![c] = open[p]] /\ cloexec' = [cloexec EXCEPT ![c] = cloexec[p]]
      /\ unreported' = unreported \cup {c} /\ snapshot' = snapshot /\ inherited' = inherited
      /\ entries' = entries /\ findings' = findings /\ finished' = finished /\ ~finished
  BY DEF ForkCall, vars, lifecycle
<1>3. \A q, x : Stays(Now, Now', q, x)
  BY <1>2, NowStays
<1>4. Clean'
  BY <1>3, CleanStays DEF Sound
<1>5. /\ open \in [Pids -> SUBSET Fds] /\ cloexec \in [Pids -> SUBSET Fds] /\ parent \in [Pids -> Pids \cup {Null}]
      /\ \A q \in unreported : q \in Pids /\ parent[q] \in Pids /\ parent[q] # c
      /\ c \notin unreported /\ ~Executing(c) /\ inherited[c] = <<>> /\ open[c] = {}
  BY <1>1, NullIs DEF Sound, Tables, TablesAre, Orphanless, Coherent, Alive
<1>6. ASSUME NEW q \in Pids, NEW x \in Fds, q # c PROVE Evidence(q, x)'
  <2>1. Unconcerned(q, x)
    BY <1>2, <1>5, <1>6 DEF Unconcerned, Executing, Alive
  <2>2. Evidence(q, x) /\ Stays(Now, Now', q, x)
    BY <1>3 DEF Sound
  <2> QED
    BY <2>1, <2>2, EvidenceStays
<1>7. ASSUME NEW x \in Fds PROVE Evidence(c, x)'
  <2>1. /\ c \in unreported' /\ open'[c] = open[p] /\ parent'[c] = p /\ open'[p] = open[p]
        /\ ~Executing(c)' /\ inherited'[c] = inherited[c] /\ ~Taken(c, x)'
    BY <1>1, <1>2, <1>5 DEF Executing, Taken
  <2>2. ~Taken(c, x) /\ LeftOpen(c, x)' = LeftOpen(c, x)
    BY <1>5, <2>1 DEF Taken, LeftOpen
  <2>3. Evidence(c, x) /\ Moves(Now, Now', c, x, 0, 0, 0, 0) /\ (Known(Now', c, x) <=> Known(Now, c, x))
    BY <1>3 DEF Sound, Stays
  <2>4. /\ LiveCount(Now, c, x) = 0 /\ Count(Now, "STRAY_RELEASE", c, x) = 0
        /\ Count(Now, "EXEC_INHERIT", c, x) = LeftOpen(c, x)
        /\ Marked(Now, c, x) = 0 /\ Frozen(Now, c, x) = 0 /\ ~Known(Now, c, x)
    BY <1>1, <1>2, <1>5, <2>2, <2>3 DEF Evidence, One
  <2>5. Count(Now, "EXEC_INHERIT", c, x) \in Nat
    BY NowCounts
  <2>6. /\ LiveCount(Now', c, x) = 0 /\ Count(Now', "STRAY_RELEASE", c, x) = 0
        /\ Count(Now', "EXEC_INHERIT", c, x) = LeftOpen(c, x)
        /\ Marked(Now', c, x) = 0 /\ Frozen(Now', c, x) = 0 /\ ~Known(Now', c, x)
    BY <2>3, <2>4, <2>5 DEF Moves
  <2> QED
    BY <2>1, <2>2, <2>6 DEF Evidence, One
<1> QED
  BY <1>4, <1>6, <1>7

LEMMA LeftOpenNone ==
  ASSUME NEW p, NEW f, inherited[p] = <<>>
  PROVE  LeftOpen(p, f) = 0
BY MatchingEmpty DEF LeftOpen

\* The record of the fork arrived: what the child closed is released, what it
\* has open is live, and no stray release is left.
LEMMA ForkReportEvidence ==
  ASSUME Regular, TypeOK, Sound, NEW c \in Pids, ForkReport(c), status' = 0
  PROVE  Clean' /\ \A q \in Pids, x \in Fds : Evidence(q, x)'
<1> DEFINE g == parent[c]
           s == Store(Unlimited)
           t == Fork(s, g, c)
           n == Len(s.entries)
<1>1. /\ c \in unreported /\ c # g /\ g \in Pids /\ g \notin unreported /\ ~Executing(g) /\ Alive(g)
      /\ open[c] \subseteq open[g] /\ inherited[c] = <<>> /\ ~Executing(c)
  BY DEF ForkReport, Sound, Tables, Orphanless, Coherent
<1>2. /\ unreported' = unreported \ {c} /\ open' = open /\ cloexec' = cloexec /\ parent' = parent
      /\ snapshot' = snapshot /\ inherited' = inherited
      /\ Admits("FORK", TheRun) /\ Ingested(TheRun, t, g, {})
  BY DEF ForkReport, IngestFork
<1>3. s \in Stores /\ s.ok /\ s.entries = entries /\ s.findings = findings
  BY StoreIs, NullIs
<1>4. Strict
  BY DEF Regular
<1> HIDE DEF s
<1>5. ASSUME NEW q, NEW x
      PROVE  /\ Live(s, q, x) <=> LiveCount(Now, q, x) # 0
             /\ Known(s, q, x) <=> Known(Now, q, x)
             /\ Count(s, "STRAY_RELEASE", q, x) = Count(Now, "STRAY_RELEASE", q, x)
  BY <1>3, LiveNow
<1> HIDE DEF g
<1>6. t \in Stores
  BY <1>1, <1>3, ForkIs DEF Progress, Advances
<1>7. /\ t.ok /\ entries' = t.entries /\ findings' = t.findings
      /\ finished' = FALSE /\ ~finished
  BY <1>2, <1>4, <1>6, RecordIs
<1>8. ASSUME NEW x \in Fds
      PROVE  /\ Count(s, "STRAY_RELEASE", c, x) = One(x \in open[g] \ open[c])
             /\ ~Known(s, c, x)
             /\ Gives(s, n, g, x) <=> x \in open[g]
  <2>1. Evidence(c, x) /\ Evidence(g, x)
    BY <1>1 DEF Sound
  <2>2. Count(Now, "STRAY_RELEASE", c, x) = One(x \in open[g] \ open[c]) /\ ~Known(Now, c, x)
    BY <1>1, <1>7, <2>1 DEF Evidence, One, g
  <2>3. LiveCount(Now, g, x) = One(x \in open[g])
    BY <1>1, <2>1 DEF Evidence, One, Taken
  <2>4. Live(s, g, x) <=> x \in open[g]
    BY <1>5, <2>3 DEF One
  <2>5. Gives(s, n, g, x) <=> HasLive(s.entries, g, x)
    BY DEF Gives, HasLive
  <2>6. Live(s, g, x) <=> HasLive(s.entries, g, x)
    BY <1>3, KnownIs
  <2> QED
    BY <1>5, <2>2, <2>4, <2>5, <2>6
<1>9. Unborn(s, c)
  BY <1>8 DEF Unborn, One
<1>10. Given(s, t, n, g, c)
  BY <1>1, <1>3, <1>9, ForkMoves
<1> HIDE DEF t, n
<1>11. ASSUME NEW q \in Pids, NEW x \in Resources, q # c PROVE Stays(Now, Now', q, x)
  <2>1. Stays(s, t, q, x)
    BY <1>7, <1>10, <1>11 DEF Given
  <2> QED
    BY <1>3, <1>7, <2>1, NowMoves
<1>12. ASSUME NEW x \in Resources, x \notin Fds \/ x \notin open[g] PROVE Stays(Now, Now', c, x)
  <2>1. ~Gives(s, n, g, x)
    BY <1>8, <1>12 DEF Gives
  <2>2. Stays(s, t, c, x)
    BY <1>7, <1>10, <2>1 DEF Given
  <2> QED
    BY <1>3, <1>7, <2>2, NowMoves
<1>13. ASSUME NEW x \in Fds, x \in open[g]
       PROVE  LET k == One(x \notin open[c])
              IN  Moves(Now, Now', c, x, 1 - k, 0, -k, 0) /\ Count(Now, "STRAY_RELEASE", c, x) = k
  <2> DEFINE k == One(x \notin open[c])
             m == Count(s, "STRAY_RELEASE", c, x)
  <2>1. m = k
    BY <1>8, <1>13 DEF One
  <2>2. Moves(s, t, c, x, 1 - m, 0, -m, 0)
    BY <1>7, <1>8, <1>10, <1>13 DEF Given, Resources
  <2>3. Count(Now, "STRAY_RELEASE", c, x) = k
    BY <1>5, <2>1
  <2> HIDE DEF m, k
  <2>4. Moves(s, t, c, x, 1 - k, 0, -k, 0)
    BY <2>1, <2>2
  <2>5. Moves(Now, Now', c, x, 1 - k, 0, -k, 0)
    BY <1>3, <1>7, <2>4, NowMoves
  <2> QED
    BY <2>3, <2>5 DEF k
<1>14. Clean'
  <2> SUFFICES ASSUME NEW q \in Pids, NEW x \in Resources
               PROVE  /\ \A kind \in Unexpected : Count(Now', kind, q, x) = 0
                      /\ x \notin Fds => Count(Now', "STRAY_RELEASE", q, x) = 0
    BY DEF Clean
  <2>1. /\ \A kind \in Unexpected : Count(Now, kind, q, x) = 0
        /\ x \notin Fds => Count(Now, "STRAY_RELEASE", q, x) = 0
    BY DEF Sound, Clean
  <2>2. CASE q # c \/ x \notin Fds \/ x \notin open[g]
    <3>1. Moves(Now, Now', q, x, 0, 0, 0, 0)
      BY <1>11, <1>12, <2>2 DEF Stays
    <3> QED
      BY <2>1, <3>1 DEF Moves
  <2>3. CASE q = c /\ x \in Fds /\ x \in open[g]
    BY <1>13, <2>1, <2>3 DEF Moves
  <2> QED
    BY <2>2, <2>3
<1>15. ASSUME NEW q \in Pids, NEW x \in Fds, q # c PROVE Evidence(q, x)'
  <2>1. Unconcerned(q, x)
    BY <1>2, <1>7, <1>15 DEF Unconcerned, Executing, Alive
  <2>2. Evidence(q, x) /\ Stays(Now, Now', q, x)
    BY <1>11, <1>15 DEF Sound, Resources
  <2> QED
    BY <2>1, <2>2, EvidenceStays
<1>16. ASSUME NEW x \in Fds PROVE Evidence(c, x)'
  <2>1. Alive(c)
    <3>1. parent[c] # Null
      BY <1>1, NullIs DEF g
    <3> QED
      BY <3>1 DEF Alive
  <2>2. /\ c \notin unreported' /\ ~Executing(c)' /\ ~Taken(c, x)' /\ ~Taken(c, x) /\ Alive(c)'
        /\ inherited'[c] = <<>> /\ LeftOpen(c, x) = 0 /\ LeftOpen(c, x)' = 0
    BY <1>1, <1>2, <2>1, LeftOpenNone DEF Executing, Taken, Alive, LeftOpen
  <2>3. Evidence(c, x)
    BY DEF Sound
  <2>4. /\ LiveCount(Now, c, x) = 0 /\ Count(Now, "EXEC_INHERIT", c, x) = 0
        /\ Marked(Now, c, x) = 0 /\ Frozen(Now, c, x) = 0
    BY <1>1, <1>7, <2>2, <2>3 DEF Evidence, One
  <2>5. Count(Now, "STRAY_RELEASE", c, x) = One(x \in open[g] \ open[c])
    BY <1>5, <1>8
  <2>6. /\ LiveCount(Now', c, x) = One(x \in open[c]) /\ Count(Now', "EXEC_INHERIT", c, x) = 0
        /\ Marked(Now', c, x) = 0 /\ Frozen(Now', c, x) = 0
        /\ Count(Now', "STRAY_RELEASE", c, x) = 0
    <3>1. CASE x \in open[g]
      <4> DEFINE k == One(x \notin open[c])
      <4>1. Moves(Now, Now', c, x, 1 - k, 0, -k, 0) /\ Count(Now, "STRAY_RELEASE", c, x) = k
        BY <1>13, <3>1
      <4>2. k \in {0, 1} /\ 1 - k = One(x \in open[c])
        BY DEF One
      <4> HIDE DEF k
      <4> QED
        BY <2>4, <4>1, <4>2 DEF Moves
    <3>2. CASE x \notin open[g]
      <4>1. Moves(Now, Now', c, x, 0, 0, 0, 0)
        BY <1>12, <3>2 DEF Stays, Resources
      <4>2. x \notin open[c]
        BY <1>1, <3>2
      <4> QED
        BY <2>4, <2>5, <3>2, <4>1, <4>2 DEF Moves, One
    <3> QED
      BY <3>1, <3>2
  <2> QED
    BY <1>2, <2>2, <2>6 DEF Evidence, One
<1> QED
  BY <1>14, <1>15, <1>16

LEMMA ExecCallEvidence ==
  ASSUME Regular, TypeOK, Sound, NEW p \in Pids, ExecCall(p)
  PROVE  Clean' /\ \A q \in Pids, x \in Fds : Evidence(q, x)'
<1>1. ~Executing(p) /\ inherited[p] = <<>>
  BY ExecCallTables DEF Sound
<1>2. /\ snapshot' = [snapshot EXCEPT ![p] = open[p]] /\ open' = open /\ cloexec' = cloexec
      /\ parent' = parent /\ unreported' = unreported /\ inherited' = inherited
      /\ entries' = entries /\ findings' = findings /\ finished' = finished /\ ~finished
  BY DEF ExecCall, vars, lifecycle
<1>3. \A q, x : Stays(Now, Now', q, x)
  BY <1>2, NowStays
<1>4. Clean'
  BY <1>3, CleanStays DEF Sound
<1>5. open[p] \subseteq Fds /\ snapshot'[p] = open[p] /\ \A q \in Pids : q # p => snapshot'[q] = snapshot[q]
  BY <1>2 DEF Sound, Tables, TablesAre
<1>6. ASSUME NEW q \in Pids, NEW x \in Fds, q # p PROVE Evidence(q, x)'
  <2>1. Unconcerned(q, x)
    BY <1>2, <1>5, <1>6 DEF Unconcerned, Executing, Alive
  <2>2. Evidence(q, x) /\ Stays(Now, Now', q, x)
    BY <1>3 DEF Sound
  <2> QED
    BY <2>1, <2>2, EvidenceStays
<1>7. ASSUME NEW x \in Fds PROVE Evidence(p, x)'
  <2>1. ~Taken(p, x)' /\ ~Taken(p, x) /\ LeftOpen(p, x) = 0 /\ Executing(p)' /\ (Alive(p)' <=> Alive(p))
    BY <1>1, <1>2, <1>5, LeftOpenNone, NullIs DEF Taken, Executing, Alive
  <2>2. Evidence(p, x) /\ Moves(Now, Now', p, x, 0, 0, 0, 0) /\ (Known(Now', p, x) <=> Known(Now, p, x))
    BY <1>3 DEF Sound, Stays
  <2> DEFINE a == One(p \notin unreported /\ x \in open[p])
             b == One(p \in unreported /\ x \in open[parent[p]] \ open[p])
  <2>3. /\ LiveCount(Now, p, x) = a /\ Count(Now, "STRAY_RELEASE", p, x) = b
        /\ Count(Now, "EXEC_INHERIT", p, x) = 0
        /\ Marked(Now, p, x) = 0 /\ Frozen(Now, p, x) = 0
        /\ p \in unreported \/ ~Alive(p) => ~Known(Now, p, x)
    BY <1>1, <1>2, <2>1, <2>2 DEF Evidence, One
  <2>4. a \in Nat /\ b \in Nat
    BY DEF One
  <2> HIDE DEF a, b
  <2>5. /\ LiveCount(Now', p, x) = a /\ Count(Now', "STRAY_RELEASE", p, x) = b
        /\ Count(Now', "EXEC_INHERIT", p, x) = 0
        /\ Marked(Now', p, x) = 0 /\ Frozen(Now', p, x) = 0
    BY <2>2, <2>3, <2>4 DEF Moves
  <2> QED
    BY <1>2, <2>1, <2>2, <2>3, <2>5 DEF Evidence, One, a, b
<1> QED
  BY <1>4, <1>6, <1>7

LEMMA ExecSnapshotEvidence ==
  ASSUME Regular, TypeOK, Sound, NEW p \in Pids, NEW f \in Fds, ExecSnapshot(p, f), status' = 0
  PROVE  Clean' /\ \A q \in Pids, x \in Fds : Evidence(q, x)'
<1> DEFINE closing == f \in cloexec[p]
           s == Store(Unlimited)
           t == Exec(s, p, f, closing)
           l == IF closing THEN -1 ELSE 0
           m == IF closing THEN 1 ELSE 0
           n == IF closing THEN 0 ELSE 1
<1>1. /\ Executing(p) /\ Executing(p)' /\ f \in snapshot[p] /\ f \in open[p]
      /\ p \notin unreported /\ inherited[p] = <<>>
  BY ExecSnapshotTables DEF Sound
<1>2. /\ snapshot' = [snapshot EXCEPT ![p] = @ \ {f}] /\ open' = open /\ cloexec' = cloexec
      /\ parent' = parent /\ unreported' = unreported /\ inherited' = inherited
      /\ Admits("EXEC", TheRun) /\ Ingested(TheRun, t, p, {})
  BY DEF ExecSnapshot, IngestExec
<1>3. s \in Stores /\ s.ok /\ s.entries = entries /\ s.findings = findings
  BY StoreIs, NullIs
<1>4. f \in Resources /\ Strict /\ closing \in BOOLEAN
  BY DEF Resources, Regular
<1>5. /\ snapshot'[p] = snapshot[p] \ {f} /\ \A q \in Pids : q # p => snapshot'[q] = snapshot[q]
  BY <1>2 DEF Sound, Tables, TablesAre
<1>6. Evidence(p, f) /\ ~Taken(p, f) /\ Taken(p, f)'
  BY <1>1, <1>2, <1>5 DEF Sound, Taken
<1> HIDE DEF s, closing
<1>7. Live(s, p, f)
  <2>1. LiveCount(Now, p, f) = 1
    BY <1>1, <1>6 DEF Evidence, One
  <2> QED
    BY <1>3, <2>1, LiveNow
<1>8. t \in Stores
  BY <1>3, <1>4, ExecProgress DEF Progress, Advances
<1>9. /\ t.ok /\ entries' = t.entries /\ findings' = t.findings
      /\ finished' = FALSE /\ ~finished
  BY <1>2, <1>4, <1>8, RecordIs
<1>10. Elsewhere(s, t, p, f) /\ Moves(s, t, p, f, l, m, 0, n) /\ (Known(t, p, f) <=> Known(s, p, f))
  BY <1>3, <1>4, <1>7, <1>9, ExecMoves
<1> HIDE DEF t, l, m, n
<1>11. Elsewhere(Now, Now', p, f) /\ Moves(Now, Now', p, f, l, m, 0, n)
  <2>1. \A q, x : Stays(s, t, q, x) => Stays(Now, Now', q, x)
    BY <1>3, <1>9, NowMoves
  <2>2. Moves(Now, Now', p, f, l, m, 0, n)
    BY <1>3, <1>9, <1>10, NowMoves
  <2> QED
    BY <1>10, <2>1, <2>2 DEF Elsewhere
<1>12. Clean'
  BY <1>11, CleanStep DEF Sound
<1>13. ASSUME NEW q \in Pids, NEW x \in Fds, q # p \/ x # f PROVE Evidence(q, x)'
  <2>1. Stays(Now, Now', q, x) /\ Evidence(q, x)
    BY <1>11, <1>13 DEF Elsewhere, Resources, Sound
  <2>2. CASE q # p
    <3>1. Unconcerned(q, x)
      BY <1>2, <1>5, <1>9, <2>2 DEF Unconcerned, Executing, Alive
    <3> QED
      BY <2>1, <3>1, EvidenceStays
  <2>3. CASE q = p
    <3>1. Unconcerned(q, x)
      BY <1>1, <1>2, <1>5, <1>9, <1>13, <2>3 DEF Unconcerned, Alive
    <3> QED
      BY <2>1, <3>1, EvidenceStays
  <2> QED
    BY <2>2, <2>3
<1>14. Evidence(p, f)'
  <2>1. /\ LiveCount(Now, p, f) = 1 /\ Count(Now, "STRAY_RELEASE", p, f) = 0
        /\ Count(Now, "EXEC_INHERIT", p, f) = 0
        /\ Marked(Now, p, f) = 0 /\ Frozen(Now, p, f) = 0
    BY <1>1, <1>6, <1>9 DEF Evidence, One
  <2>2. /\ LiveCount(Now', p, f) = One(~closing) /\ Count(Now', "STRAY_RELEASE", p, f) = 0
        /\ Count(Now', "EXEC_INHERIT", p, f) = One(~closing)
        /\ Marked(Now', p, f) = One(closing) /\ Frozen(Now', p, f) = 0
    <3>1. CASE closing
      BY <1>11, <2>1, <3>1 DEF Moves, One, l, m, n
    <3>2. CASE ~closing
      BY <1>11, <2>1, <3>2 DEF Moves, One, l, m, n
    <3> QED
      BY <3>1, <3>2
  <2>3. (closing <=> f \in cloexec'[p]) /\ Alive(p)' /\ p \notin unreported' /\ f \in open'[p]
    BY <1>1, <1>2 DEF closing, Alive, Sound, Tables, Coherent
  <2> QED
    BY <1>1, <1>6, <2>2, <2>3 DEF Evidence, One
<1> QED
  BY <1>12, <1>13, <1>14

\* The image was replaced: what the replay had released early is closed now.
LEMMA ExecSucceedsEvidence ==
  ASSUME Regular, TypeOK, Sound, NEW p \in Pids, ExecSucceeds(p)
  PROVE  Clean' /\ \A q \in Pids, x \in Fds : Evidence(q, x)'
<1>1. /\ Executing(p) /\ inherited[p] = <<>> /\ p \notin unreported /\ ~Forking(p)
      /\ Alive(p) /\ ~finished /\ snapshot[p] = {}
  BY ExecReturns DEF ExecSucceeds, Sound
<1>2. /\ snapshot' = [snapshot EXCEPT ![p] = Null]
      /\ open' = [open EXCEPT ![p] = @ \ cloexec[p]] /\ cloexec' = [cloexec EXCEPT ![p] = {}]
      /\ inherited' = [inherited EXCEPT ![p] = Append(@, open[p] \ cloexec[p])]
      /\ parent' = parent /\ unreported' = unreported
      /\ entries' = entries /\ findings' = findings /\ finished' = finished
  BY DEF ExecSucceeds, vars, lifecycle
<1>3. \A q, x : Stays(Now, Now', q, x)
  BY <1>2, NowStays
<1>4. Clean'
  BY <1>3, CleanStays DEF Sound
<1>5. /\ open \in [Pids -> SUBSET Fds] /\ cloexec \in [Pids -> SUBSET Fds]
      /\ snapshot'[p] = Null /\ (\A q \in Pids : q # p => snapshot'[q] = snapshot[q])
      /\ inherited'[p] = Append(<<>>, open[p] \ cloexec[p])
      /\ (\A q \in Pids : q # p => inherited'[q] = inherited[q])
      /\ \A q \in unreported : q \in Pids /\ parent[q] \in Pids /\ parent[q] # p
  <2>1. \A q \in unreported : parent[q] # p
    BY <1>1 DEF Forking
  <2> QED
    BY <1>1, <1>2, <2>1 DEF Sound, Tables, TablesAre, Orphanless
<1>6. ASSUME NEW q \in Pids, NEW x \in Fds, q # p PROVE Evidence(q, x)'
  <2>1. Unconcerned(q, x)
    BY <1>2, <1>5, <1>6 DEF Unconcerned, Executing, Alive
  <2>2. Evidence(q, x) /\ Stays(Now, Now', q, x)
    BY <1>3 DEF Sound
  <2> QED
    BY <2>1, <2>2, EvidenceStays
<1>7. ASSUME NEW x \in Fds PROVE Evidence(p, x)'
  <2> DEFINE a == One(x \in open[p] /\ x \notin cloexec[p])
             rest == open[p] \ cloexec[p]
             S == {kept \in SUBSET Fds : x \in kept}
  <2>1. ~Executing(p)' /\ ~Taken(p, x)' /\ Alive(p)' /\ p \notin unreported'
    BY <1>1, <1>2, <1>5 DEF Taken, Executing, Alive
  <2>2. Taken(p, x) <=> x \in open[p]
    BY <1>1 DEF Taken
  <2>3. LeftOpen(p, x)' = a
    <3>1. rest \in SUBSET Fds /\ <<>> \in Seq(SUBSET Fds)
      BY <1>5
    <3>2. rest \in S <=> x \in open[p] /\ x \notin cloexec[p]
      BY <3>1
    <3>3. LeftOpen(p, x)' = Matching(Append(<<>>, rest), S)
      BY <1>5 DEF LeftOpen
    <3> DEFINE T == SUBSET Fds
               none == <<>>
    <3> HIDE DEF rest, S, a
    <3>4. Matching(Append(<<>>, rest), S) = Matching(<<>>, S) + (IF rest \in S THEN 1 ELSE 0)
      <4>1. rest \in T /\ none \in Seq(T)
        BY <3>1
      <4> HIDE DEF T, none
      <4>2. Matching(Append(none, rest), S) = Matching(none, S) + (IF rest \in S THEN 1 ELSE 0)
        BY <4>1, MatchingAppend
      <4> QED
        BY <4>2 DEF none
    <3>5. Matching(<<>>, S) = 0
      BY MatchingEmpty
    <3> QED
      BY <3>2, <3>3, <3>4, <3>5 DEF a, One
  <2>4. Evidence(p, x) /\ Moves(Now, Now', p, x, 0, 0, 0, 0)
    BY <1>3 DEF Sound, Stays
  <2>5. /\ LiveCount(Now, p, x) = a /\ Count(Now, "STRAY_RELEASE", p, x) = 0
        /\ Count(Now, "EXEC_INHERIT", p, x) = a /\ Frozen(Now, p, x) = 0
    BY <1>1, <2>2, <2>4 DEF Evidence, One
  <2>6. a \in Nat /\ a = One(x \in open'[p])
    BY <1>2, <1>5 DEF One
  <2>7. inherited'[p] # <<>>
    BY <1>5
  <2> HIDE DEF a
  <2>8. /\ LiveCount(Now', p, x) = a /\ Count(Now', "STRAY_RELEASE", p, x) = 0
        /\ Count(Now', "EXEC_INHERIT", p, x) = a /\ Frozen(Now', p, x) = 0
    BY <2>4, <2>5, <2>6 DEF Moves
  <2> QED
    BY <2>1, <2>3, <2>6, <2>7, <2>8 DEF Evidence, One
<1> QED
  BY <1>4, <1>6, <1>7

\* The call failed: what the replay had released early is live again.
LEMMA ExecFailsEvidence ==
  ASSUME Regular, TypeOK, Sound, NEW p \in Pids, ExecFails(p), status' = 0
  PROVE  Clean' /\ \A q \in Pids, x \in Fds : Evidence(q, x)'
<1> DEFINE s == Store(0)
           t == rollback_exec(s, p)
<1>1. /\ Executing(p) /\ inherited[p] = <<>> /\ p \notin unreported /\ ~Forking(p)
      /\ Alive(p) /\ ~finished /\ snapshot[p] = {}
  BY ExecReturns DEF ExecFails, Sound
<1>2. /\ snapshot' = [snapshot EXCEPT ![p] = Null] /\ open' = open /\ cloexec' = cloexec
      /\ inherited' = inherited /\ parent' = parent /\ unreported' = unreported
      /\ entries' = t.entries /\ findings' = t.findings /\ finished' = FALSE
  BY DEF ExecFails, IngestExecFail, Ingested
<1>3. s \in Stores /\ s.entries = entries /\ s.findings = findings
  BY StoreIs
<1>4. /\ snapshot'[p] = Null /\ (\A q \in Pids : q # p => snapshot'[q] = snapshot[q])
  BY <1>2 DEF Sound, Tables, TablesAre
<1> HIDE DEF s
<1>5. ASSUME NEW q, NEW x, q # p PROVE Stays(Now, Now', q, x)
  <2>1. Stays(s, t, q, x)
    BY <1>3, <1>5, RollbackMoves
  <2> QED
    BY <1>2, <1>3, <2>1, NowMoves
<1>6. ASSUME NEW x
      PROVE  /\ LiveCount(Now', p, x) = LiveCount(Now, p, x) + Marked(Now, p, x)
             /\ Marked(Now', p, x) = 0
             /\ Count(Now', "EXEC_INHERIT", p, x) = Frozen(Now, p, x)
             /\ Count(Now', "STRAY_RELEASE", p, x) = Count(Now, "STRAY_RELEASE", p, x)
             /\ \A kind \in Unexpected : Count(Now', kind, p, x) = Count(Now, kind, p, x)
             /\ Frozen(Now', p, x) = Frozen(Now, p, x)
             /\ Known(Now', p, x) <=> Known(Now, p, x)
  <2>1. /\ LiveCount(t, p, x) = LiveCount(s, p, x) + Marked(s, p, x)
        /\ Marked(t, p, x) = 0
        /\ Count(t, "EXEC_INHERIT", p, x) = Frozen(s, p, x)
        /\ Count(t, "STRAY_RELEASE", p, x) = Count(s, "STRAY_RELEASE", p, x)
        /\ \A kind \in Unexpected : Count(t, kind, p, x) = Count(s, kind, p, x)
        /\ Frozen(t, p, x) = Frozen(s, p, x)
        /\ Known(t, p, x) <=> Known(s, p, x)
    BY <1>3, RollbackMoves
  <2>2. /\ Known(s, p, x) <=> Known(Now, p, x)
        /\ \A kind : Count(s, kind, p, x) = Count(Now, kind, p, x)
        /\ LiveCount(s, p, x) = LiveCount(Now, p, x)
        /\ Marked(s, p, x) = Marked(Now, p, x)
        /\ Frozen(s, p, x) = Frozen(Now, p, x)
    BY <1>3, LiveNow
  <2>3. Now'.entries = t.entries /\ Now'.findings = t.findings
    BY <1>2 DEF Now
  <2> DEFINE u == Now'
  <2> HIDE DEF t, u
  <2>4. /\ LiveCount(u, p, x) = LiveCount(t, p, x) /\ Marked(u, p, x) = Marked(t, p, x)
        /\ Known(u, p, x) <=> Known(t, p, x)
    BY <2>3, EntriesDecide DEF u
  <2>5. Frozen(u, p, x) = Frozen(t, p, x) /\ \A kind : Count(u, kind, p, x) = Count(t, kind, p, x)
    BY <2>3, FindingsDecide DEF u
  <2> QED
    BY <2>1, <2>2, <2>4, <2>5 DEF u
<1> HIDE DEF t
<1>7. Clean'
  <2> SUFFICES ASSUME NEW q \in Pids, NEW x \in Resources
               PROVE  /\ \A kind \in Unexpected : Count(Now', kind, q, x) = 0
                      /\ x \notin Fds => Count(Now', "STRAY_RELEASE", q, x) = 0
    BY DEF Clean
  <2>1. /\ \A kind \in Unexpected : Count(Now, kind, q, x) = 0
        /\ x \notin Fds => Count(Now, "STRAY_RELEASE", q, x) = 0
    BY DEF Sound, Clean
  <2>2. CASE q = p
    BY <1>6, <2>1, <2>2
  <2>3. CASE q # p
    <3>1. Moves(Now, Now', q, x, 0, 0, 0, 0)
      BY <1>5, <2>3 DEF Stays
    <3> QED
      BY <2>1, <3>1 DEF Moves
  <2> QED
    BY <2>2, <2>3
<1>8. ASSUME NEW q \in Pids, NEW x \in Fds, q # p PROVE Evidence(q, x)'
  <2>1. Unconcerned(q, x)
    BY <1>1, <1>2, <1>4, <1>8 DEF Unconcerned, Executing, Alive
  <2>2. Evidence(q, x) /\ Stays(Now, Now', q, x)
    BY <1>5, <1>8 DEF Sound
  <2> QED
    BY <2>1, <2>2, EvidenceStays
<1>9. ASSUME NEW x \in Fds PROVE Evidence(p, x)'
  <2>1. /\ ~Executing(p)' /\ ~Taken(p, x)' /\ Alive(p)' /\ p \notin unreported' /\ inherited'[p] = <<>>
        /\ LeftOpen(p, x)' = 0
    BY <1>1, <1>2, <1>4, LeftOpenNone DEF Taken, Executing, Alive, LeftOpen
  <2>2. Taken(p, x) <=> x \in open[p]
    BY <1>1 DEF Taken
  <2>3. Evidence(p, x)
    BY DEF Sound
  <2>4. /\ LiveCount(Now, p, x) = One(x \in open[p] /\ x \notin cloexec[p])
        /\ Marked(Now, p, x) = One(x \in open[p] /\ x \in cloexec[p])
        /\ Count(Now, "STRAY_RELEASE", p, x) = 0 /\ Frozen(Now, p, x) = 0
    BY <1>1, <2>2, <2>3 DEF Evidence, One
  <2>5. LiveCount(Now', p, x) = One(x \in open[p])
    BY <1>6, <2>4 DEF One
  <2> QED
    BY <1>2, <1>6, <2>1, <2>4, <2>5 DEF Evidence, One
<1> QED
  BY <1>7, <1>8, <1>9

\* Finishing adds the leaks of the live entries and touches nothing else.
LEMMA EndRunEvidence ==
  ASSUME Regular, TypeOK, Sound, EndRun, status' = 0
  PROVE  Clean' /\ \A q \in Pids, x \in Fds : Evidence(q, x)'
<1> DEFINE s == Store(Unlimited)
           t == Sealed(Unlimited)
<1>1. s \in Stores /\ s.entries = entries /\ s.findings = findings
  BY NullIs, StoreIs
<1>2. /\ t.ok /\ finished' = TRUE /\ entries' = t.entries /\ findings' = t.findings
      /\ Settled /\ kernel' = kernel
  <2>1. Finish(Unlimited) /\ Settled /\ UNCHANGED kernel
    BY DEF EndRun
  <2>2. status' = IF t.ok THEN 0 ELSE -1
    BY <2>1 DEF Finish
  <2>3. t.ok
    BY <2>2
  <2>4. finished' = (finished \/ t.ok) /\ entries' = t.entries /\ findings' = t.findings
    BY <2>1 DEF Finish
  <2> HIDE DEF t
  <2> QED
    BY <2>1, <2>3, <2>4
<1>3. /\ t \in Stores
      /\ finished => t.entries = entries
      /\ ~finished /\ t.ok => \A q, x : LiveCount(t, q, x) = LiveCount(Now, q, x)
      /\ \A q : SameView(Now, t, q)
  BY NullIs, SealedIs
<1> HIDE DEF s, t
<1> DEFINE u == Now'
<1>4. u.entries = t.entries /\ u.findings = t.findings
  BY <1>2 DEF Now
<1> HIDE DEF u
<1>5. ASSUME NEW q, NEW x
      PROVE  /\ LiveCount(u, q, x) = LiveCount(Now, q, x)
             /\ \A kind \in Kinds \ {"LEAK"} : Count(u, kind, q, x) = Count(Now, kind, q, x)
  <2>1. LiveCount(u, q, x) = LiveCount(t, q, x)
    BY <1>4, EntriesDecide
  <2>2. \A kind : Count(u, kind, q, x) = Count(t, kind, q, x)
    BY <1>4, FindingsDecide
  <2>3. LiveCount(t, q, x) = LiveCount(Now, q, x)
    <3>1. CASE finished
      BY <1>3, <3>1, EntriesDecide DEF Now
    <3>2. CASE ~finished
      BY <1>2, <1>3, <3>2
    <3> QED
      BY <3>1, <3>2
  <2>4. ASSUME NEW kind \in Kinds \ {"LEAK"} PROVE Count(t, kind, q, x) = Count(Now, kind, q, x)
    <3>1. SameView(s, t, q)
      BY <1>1, <1>3 DEF SameView, Now
    <3>2. Count(t, kind, q, x) = Count(s, kind, q, x)
      BY <1>1, <1>3, <3>1, ViewDecides
    <3>3. Count(s, kind, q, x) = Count(Now, kind, q, x)
      BY <1>1 DEF Count, Now
    <3> QED
      BY <3>2, <3>3
  <2> QED
    BY <2>1, <2>2, <2>3, <2>4
<1>6. /\ Unexpected \subseteq Kinds \ {"LEAK"}
      /\ "STRAY_RELEASE" \in Kinds \ {"LEAK"} /\ "EXEC_INHERIT" \in Kinds \ {"LEAK"}
  BY DEF Unexpected, Kinds
<1>7. Clean'
  <2>1. \A p \in Pids, x \in Resources :
          /\ \A kind \in Unexpected : Count(u, kind, p, x) = 0
          /\ x \notin Fds => Count(u, "STRAY_RELEASE", p, x) = 0
    BY <1>5, <1>6 DEF Sound, Clean
  <2> QED
    BY <2>1 DEF Clean, u
<1>8. ASSUME NEW q \in Pids, NEW x \in Fds PROVE Evidence(q, x)'
  <2>1. /\ open' = open /\ cloexec' = cloexec /\ parent' = parent /\ unreported' = unreported
        /\ snapshot' = snapshot /\ inherited' = inherited
    BY <1>2 DEF kernel
  <2>2. Evidence(q, x)
    BY DEF Sound
  <2>3. /\ LiveCount(Now', q, x) = LiveCount(Now, q, x)
        /\ Count(Now', "STRAY_RELEASE", q, x) = Count(Now, "STRAY_RELEASE", q, x)
        /\ Count(Now', "EXEC_INHERIT", q, x) = Count(Now, "EXEC_INHERIT", q, x)
    BY <1>5, <1>6 DEF u
  <2>4. Taken(q, x)' = Taken(q, x) /\ Executing(q)' = Executing(q) /\ LeftOpen(q, x)' = LeftOpen(q, x)
    BY <2>1 DEF Taken, Executing, LeftOpen
  <2> QED
    BY <1>2, <2>1, <2>2, <2>3, <2>4 DEF Evidence
<1> QED
  BY <1>7, <1>8

-----------------------------------------------------------------------------
(* The world drives the replay: what it does to it, the replay can do.     *)

LEMMA KernelInit ==
  ASSUME WorldInit PROVE Kernel
BY DEF WorldInit, Kernel, TablesAre

LEMMA KernelStep ==
  ASSUME Kernel, [WorldNext]_world
  PROVE  Kernel'
<1>1. ASSUME NEW p \in Pids, NEW f \in Fds, NEW closing \in BOOLEAN, Open(p, f, closing)
      PROVE  Kernel'
  BY <1>1 DEF Open, Kernel, TablesAre
<1>2. ASSUME NEW p \in Pids, NEW f \in Fds, Close(p, f) PROVE Kernel'
  BY <1>2 DEF Close, Kernel, TablesAre
<1>3. ASSUME NEW p \in Pids, NEW f \in Fds, ExecSnapshot(p, f) PROVE Kernel'
  <2>1. snapshot[p] \in SUBSET Fds
    BY <1>3 DEF ExecSnapshot, Executing, Kernel, TablesAre
  <2>2. /\ snapshot' = [snapshot EXCEPT ![p] = @ \ {f}]
        /\ UNCHANGED <<open, cloexec, parent, unreported, inherited>>
    BY <1>3 DEF ExecSnapshot
  <2> QED
    BY <2>1, <2>2 DEF Kernel, TablesAre
<1>4. ASSUME NEW p \in Pids, NEW c \in Pids, ForkCall(p, c) PROVE Kernel'
  BY <1>4 DEF ForkCall, Kernel, TablesAre
<1>5. ASSUME NEW c \in Pids, ForkReport(c) PROVE Kernel'
  BY <1>5 DEF ForkReport, Kernel, TablesAre
<1>6. ASSUME NEW p \in Pids, ExecCall(p) PROVE Kernel'
  BY <1>6 DEF ExecCall, Kernel, TablesAre
<1>7. ASSUME NEW p \in Pids, ExecSucceeds(p) PROVE Kernel'
  <2>1. /\ open[p] \ cloexec[p] \in SUBSET Fds /\ inherited[p] \in Seq(SUBSET Fds)
    BY DEF Kernel, TablesAre
  <2>2. Append(inherited[p], open[p] \ cloexec[p]) \in Seq(SUBSET Fds)
    BY <2>1
  <2>3. /\ snapshot' = [snapshot EXCEPT ![p] = Null]
        /\ open' = [open EXCEPT ![p] = open[p] \ cloexec[p]]
        /\ cloexec' = [cloexec EXCEPT ![p] = {}]
        /\ inherited' = [inherited EXCEPT ![p] = Append(inherited[p], open[p] \ cloexec[p])]
        /\ UNCHANGED <<parent, unreported>>
    BY <1>7 DEF ExecSucceeds
  <2> QED
    BY <2>1, <2>2, <2>3 DEF Kernel, TablesAre
<1>8. ASSUME NEW p \in Pids, ExecFails(p) PROVE Kernel'
  BY <1>8 DEF ExecFails, Kernel, TablesAre
<1>9. CASE EndRun
  BY <1>9 DEF EndRun, kernel, Kernel, TablesAre
<1>10. CASE UNCHANGED world
  BY <1>10 DEF world, kernel, Kernel, TablesAre
<1> QED
  BY <1>1, <1>2, <1>3, <1>4, <1>5, <1>6, <1>7, <1>8, <1>9, <1>10 DEF WorldNext

\* Each action of a process is a record that the replay ingests, or nothing
\* that it sees.
LEMMA WorldStep ==
  ASSUME Kernel, [WorldNext]_world
  PROVE  [Next]_vars
<1> USE NullIs
<1>1. ASSUME NEW p \in Pids, NEW f \in Fds, NEW closing \in BOOLEAN, Open(p, f, closing)
      PROVE  Next
  <2>1. IngestOpen(TheRun, p, f, Unlimited)
    BY <1>1 DEF Open
  <2> QED
    BY <2>1 DEF Next
<1>2. ASSUME NEW p \in Pids, NEW f \in Fds, Close(p, f) PROVE Next
  <2>1. IngestClose(TheRun, p, f, Unlimited)
    BY <1>2 DEF Close
  <2> QED
    BY <2>1 DEF Next
<1>3. ASSUME NEW p \in Pids, NEW f \in Fds, ExecSnapshot(p, f) PROVE Next
  <2>1. IngestExec(TheRun, p, f, f \in cloexec[p], Unlimited) /\ (f \in cloexec[p]) \in BOOLEAN
    BY <1>3 DEF ExecSnapshot
  <2> QED
    BY <2>1 DEF Next
<1>4. ASSUME NEW p \in Pids, NEW c \in Pids, ForkCall(p, c) PROVE UNCHANGED vars
  BY <1>4 DEF ForkCall
<1>5. ASSUME NEW c \in Pids, ForkReport(c) PROVE Next
  <2>1. IngestFork(TheRun, parent[c], c, Unlimited) /\ parent[c] \in Pids
    BY <1>5 DEF ForkReport, Kernel
  <2> QED
    BY <2>1 DEF Next
<1>6. ASSUME NEW p \in Pids, ExecCall(p) PROVE UNCHANGED vars
  BY <1>6 DEF ExecCall
<1>7. ASSUME NEW p \in Pids, ExecSucceeds(p) PROVE UNCHANGED vars
  BY <1>7 DEF ExecSucceeds
<1>8. ASSUME NEW p \in Pids, ExecFails(p) PROVE Next
  <2>1. IngestExecFail(TheRun, p)
    BY <1>8 DEF ExecFails
  <2> QED
    BY <2>1 DEF Next
<1>9. CASE EndRun
  <2>1. Finish(Unlimited)
    BY <1>9 DEF EndRun
  <2> QED
    BY <2>1 DEF Next
<1>10. CASE UNCHANGED world
  BY <1>10 DEF world
<1> QED
  BY <1>1, <1>2, <1>3, <1>4, <1>5, <1>6, <1>7, <1>8, <1>9, <1>10 DEF WorldNext

\* Whatever the programs do, the replay they feed is the replay of Lifecycle:
\* every theorem about it holds of a replay fed by processes.
THEOREM WorldFeedsReplay == WorldSpec => Spec
<1>1. WorldInit => Init /\ Kernel
  BY KernelInit DEF WorldInit
<1>2. Kernel /\ [WorldNext]_world => Kernel'
  BY KernelStep
<1>3. Kernel /\ [WorldNext]_world => [Next]_vars
  BY WorldStep
<1> QED
  BY <1>1, <1>2, <1>3, PTL DEF WorldSpec, Spec

-----------------------------------------------------------------------------
(* The invariant of the world.                                             *)

LEMMA SoundInit ==
  ASSUME WorldInit PROVE Sound
<1>1. /\ Init /\ unreported = {} /\ finished = FALSE
      /\ entries = <<>> /\ findings = <<>>
      /\ open = [p \in Pids |-> {}] /\ cloexec = [p \in Pids |-> {}]
      /\ parent = [p \in Pids |-> Null] /\ snapshot = [p \in Pids |-> Null]
      /\ inherited = [p \in Pids |-> <<>>]
  BY DEF WorldInit, Init
<1>2. \A p \in Pids : ~Executing(p)
  BY <1>1 DEF Executing
<1>3. TablesAre
  BY KernelInit DEF Kernel
<1>4. Tables
  BY <1>1, <1>2, <1>3 DEF Tables, Coherent
<1>5. Now.entries = <<>> /\ Now.findings = <<>>
  BY <1>1 DEF Now
<1>6. ASSUME NEW p, NEW x
      PROVE  /\ LiveCount(Now, p, x) = 0 /\ Marked(Now, p, x) = 0 /\ Frozen(Now, p, x) = 0
             /\ \A kind : Count(Now, kind, p, x) = 0
             /\ ~Known(Now, p, x)
  <2>1. \A S : Matching(Now.entries, S) = 0 /\ Matching(Now.findings, S) = 0
    BY <1>5, MatchingEmpty
  <2>2. LiveCount(Now, p, x) = 0 /\ Marked(Now, p, x) = 0 /\ Frozen(Now, p, x) = 0
    BY <2>1 DEF LiveCount, Marked, Frozen
  <2>3. \A kind : Count(Now, kind, p, x) = 0
    BY <2>1 DEF Count
  <2>4. ~Known(Now, p, x)
    <3>1. TypeOK
      BY <1>1, TypeInit
    <3>2. /\ Store(0) \in Stores /\ Store(0).entries = entries /\ Store(0).findings = findings
      BY <3>1, StoreIs
    <3>3. Known(Store(0), p, x) <=> Known(Now, p, x)
      BY <3>1, <3>2, LiveNow
    <3>4. Known(Store(0), p, x) <=> HasEntry(Store(0).entries, p, x)
      BY <3>2, KnownIs
    <3> QED
      BY <1>1, <3>2, <3>3, <3>4 DEF HasEntry
  <2> QED
    BY <2>2, <2>3, <2>4
<1>7. Clean
  BY <1>6 DEF Clean
<1>8. ASSUME NEW p \in Pids, NEW x \in Fds PROVE Evidence(p, x)
  <2>1. /\ open[p] = {} /\ p \notin unreported /\ ~Executing(p) /\ inherited[p] = <<>>
        /\ ~Taken(p, x)
    BY <1>1, <1>2 DEF Taken
  <2>2. LeftOpen(p, x) = 0
    BY <2>1, LeftOpenNone
  <2> QED
    BY <1>6, <2>1, <2>2 DEF Evidence, One
<1> QED
  BY <1>4, <1>7, <1>8 DEF Sound

\* A client that stops at the first failure leaves the failed model alone.
LEMMA StatusStep ==
  ASSUME Strict, [WorldNext]_world, status' = 0
  PROVE  status = 0
<1>1. \A kind, id : Admits(kind, id) => status = 0
  BY StrictGate
<1>2. \A b : Finish(b) => status = 0
  BY StrictGate
<1> QED
  BY <1>1, <1>2 DEF WorldNext, world, vars, lifecycle, Open, Close, ForkCall, ForkReport, ExecCall,
     ExecSnapshot, ExecSucceeds, ExecFails, EndRun, IngestOpen, IngestClose, IngestFork,
     IngestExec, IngestExecFail

LEMMA SoundStep ==
  ASSUME Regular, TypeOK, Sound, [WorldNext]_world, status' = 0
  PROVE  Sound'
<1> SUFFICES Tables' /\ Clean' /\ \A q \in Pids, x \in Fds : Evidence(q, x)'
  BY DEF Sound
<1> USE DEF Sound
<1>1. ASSUME NEW p \in Pids, NEW f \in Fds, NEW closing \in BOOLEAN, Open(p, f, closing)
      PROVE  Tables' /\ Clean' /\ \A q \in Pids, x \in Fds : Evidence(q, x)'
  BY <1>1, OpenTables, OpenEvidence
<1>2. ASSUME NEW p \in Pids, NEW f \in Fds, Close(p, f)
      PROVE  Tables' /\ Clean' /\ \A q \in Pids, x \in Fds : Evidence(q, x)'
  BY <1>2, CloseTables, CloseEvidence
<1>3. ASSUME NEW p \in Pids, NEW f \in Fds, ExecSnapshot(p, f)
      PROVE  Tables' /\ Clean' /\ \A q \in Pids, x \in Fds : Evidence(q, x)'
  BY <1>3, ExecSnapshotTables, ExecSnapshotEvidence
<1>4. ASSUME NEW p \in Pids, NEW c \in Pids, ForkCall(p, c)
      PROVE  Tables' /\ Clean' /\ \A q \in Pids, x \in Fds : Evidence(q, x)'
  BY <1>4, ForkCallTables, ForkCallEvidence
<1>5. ASSUME NEW c \in Pids, ForkReport(c)
      PROVE  Tables' /\ Clean' /\ \A q \in Pids, x \in Fds : Evidence(q, x)'
  BY <1>5, ForkReportTables, ForkReportEvidence
<1>6. ASSUME NEW p \in Pids, ExecCall(p)
      PROVE  Tables' /\ Clean' /\ \A q \in Pids, x \in Fds : Evidence(q, x)'
  BY <1>6, ExecCallTables, ExecCallEvidence
<1>7. ASSUME NEW p \in Pids, ExecSucceeds(p)
      PROVE  Tables' /\ Clean' /\ \A q \in Pids, x \in Fds : Evidence(q, x)'
  BY <1>7, ExecSucceedsTables, ExecSucceedsEvidence
<1>8. ASSUME NEW p \in Pids, ExecFails(p)
      PROVE  Tables' /\ Clean' /\ \A q \in Pids, x \in Fds : Evidence(q, x)'
  BY <1>8, ExecFailsTables, ExecFailsEvidence
<1>9. CASE EndRun
  BY <1>9, EndRunTables, EndRunEvidence
<1>10. CASE UNCHANGED world
  <2>1. /\ open' = open /\ cloexec' = cloexec /\ parent' = parent /\ unreported' = unreported
        /\ snapshot' = snapshot /\ inherited' = inherited /\ finished' = finished
        /\ entries' = entries /\ findings' = findings
    BY <1>10 DEF world, kernel, vars, lifecycle
  <2>2. Tables'
    BY <2>1 DEF Tables, TablesAre, Coherent, Orphanless, Executing, Alive, Settled
  <2>3. \A q \in Pids, x \in Resources : Stays(Now, Now', q, x)
    BY <2>1, NowStays
  <2>4. Clean'
    BY <2>3, CleanStays
  <2>5. ASSUME NEW q \in Pids, NEW x \in Fds PROVE Evidence(q, x)'
    <3>1. Unconcerned(q, x)
      BY <2>1 DEF Unconcerned, Executing, Alive
    <3>2. Stays(Now, Now', q, x)
      BY <2>3 DEF Resources
    <3> QED
      BY <3>1, <3>2, EvidenceStays
  <2> QED
    BY <2>2, <2>4, <2>5
<1> QED
  BY <1>1, <1>2, <1>3, <1>4, <1>5, <1>6, <1>7, <1>8, <1>9, <1>10 DEF WorldNext

LEMMA WorldInvInit ==
  ASSUME WorldInit PROVE WorldInv
BY TypeInit, KernelInit, SoundInit DEF WorldInv, WorldInit

LEMMA WorldInvStep ==
  ASSUME Regular, WorldInv, [WorldNext]_world
  PROVE  WorldInv'
<1>1. Kernel' /\ TypeOK'
  BY KernelStep, WorldStep, TypeStep DEF WorldInv
<1>2. ASSUME status' = 0 PROVE Sound'
  <2>1. status = 0
    BY <1>2, StatusStep DEF Regular
  <2> QED
    BY <1>2, <2>1, SoundStep DEF WorldInv
<1> QED
  BY <1>1, <1>2 DEF WorldInv

\* The numbers give the three properties.
LEMMA SoundAgrees ==
  ASSUME Sound PROVE Agreement
<1> SUFFICES ASSUME Settled, NEW p \in Pids, NEW f \in Fds
             PROVE  LiveCount(Now, p, f) = IF f \in open[p] THEN 1 ELSE 0
  BY DEF Agreement
<1>1. p \notin unreported /\ ~Taken(p, f)
  BY DEF Settled, Taken
<1> QED
  BY <1>1 DEF Sound, Evidence, One

LEMMA SoundCounts ==
  ASSUME Sound PROVE InheritExact
<1> SUFFICES ASSUME Settled, NEW p \in Pids, NEW f \in Fds
             PROVE  Count(Now, "EXEC_INHERIT", p, f) = LeftOpen(p, f)
  BY DEF InheritExact, LeftOpen
<1> QED
  BY DEF Settled, Sound, Evidence

LEMMA SoundAccusesNone ==
  ASSUME TypeOK, Sound PROVE NoFalseAlarm
<1> SUFFICES ASSUME NEW i \in DOMAIN findings
             PROVE  /\ findings[i].kind \in {"LEAK", "EXEC_INHERIT", "STRAY_RELEASE"}
                    /\ findings[i].kind = "STRAY_RELEASE" => ~Settled
  BY DEF NoFalseAlarm
<1> DEFINE e == findings[i]
           S == FindingsOf(e.kind, e.pid, e.res)
<1>1. findings \in Seq(Finding) /\ i \in 1 .. Len(findings) /\ e \in Finding
  BY DEF TypeOK
<1>2. e.kind \in Kinds /\ e.pid \in Pids /\ e.res \in Resources /\ e \in S
  BY <1>1 DEF Finding, FindingsOf
<1>3. Matching(findings, S) # 0
  <2>1. Matching(findings, S) = 0 <=> \A j \in 1 .. Len(findings) : findings[j] \notin S
    BY <1>1, MatchingIs
  <2> QED
    BY <1>1, <1>2, <2>1
<1>4. Count(Now, e.kind, e.pid, e.res) # 0
  BY <1>3 DEF Count, Now
<1> HIDE DEF e, S
<1>5. e.kind \notin Unexpected
  BY <1>2, <1>4 DEF Sound, Clean
<1>6. ASSUME e.kind = "STRAY_RELEASE", Settled PROVE FALSE
  <2>1. Count(Now, "STRAY_RELEASE", e.pid, e.res) # 0
    BY <1>4, <1>6
  <2>2. e.res \in Fds
    BY <1>2, <2>1 DEF Sound, Clean
  <2>3. Evidence(e.pid, e.res)
    BY <1>2, <2>2 DEF Sound
  <2>4. e.pid \notin unreported
    BY <1>6 DEF Settled
  <2> QED
    BY <2>1, <2>3, <2>4 DEF Evidence, One
<1> QED
  BY <1>2, <1>5, <1>6 DEF Unexpected, e

\* As long as the replay has room and the client feeds it in the regular way,
\* what it holds about each descriptor of each process is a function of the
\* kernel's tables: alive once if open and reported, and so on for the marks
\* and findings of an exec under way (ingest_fork, ingest_exec, rollback_exec,
\* release_entry).  Every other theorem about the world rests on it.
THEOREM WorldIsKnown ==
  ASSUME Strict, ~Reexec, EarlyActs \subseteq {"close"}
  PROVE  WorldSpec => []WorldInv
<1>1. Regular
  BY DEF Regular
<1>2. WorldInit => WorldInv
  BY WorldInvInit
<1>3. WorldInv /\ [WorldNext]_world => WorldInv'
  BY <1>1, WorldInvStep
<1> QED
  BY <1>2, <1>3, PTL DEF WorldSpec

\* Whenever no record is outstanding, the live descriptors of the replay are
\* the open descriptors of the kernel, each live once: for any number of
\* processes, and any interleaving of opens, closes, forks whose record comes
\* late, and execs that succeed or fail, until the replay first fails
\* (ingest_fork, ingest_exec, rollback_exec, release_entry).
THEOREM ReplayAgrees ==
  ASSUME Strict, ~Reexec, EarlyActs \subseteq {"close"}
  PROVE  WorldSpec => [](status = 0 => Agreement)
<1>1. WorldSpec => []WorldInv
  BY WorldIsKnown
<1>2. WorldInv => (status = 0 => Agreement)
  BY SoundAgrees DEF WorldInv
<1> QED
  BY <1>1, <1>2, PTL

\* Programs that close only what they have open are never accused: no double
\* release, use, duplicate or replacement finding at any moment, and no stray
\* release once every FORK record has arrived (reconcile_stray_releases).
THEOREM NoProgramAccused ==
  ASSUME Strict, ~Reexec, EarlyActs \subseteq {"close"}
  PROVE  WorldSpec => [](status = 0 => NoFalseAlarm)
<1>1. WorldSpec => []WorldInv
  BY WorldIsKnown
<1>2. WorldInv => (status = 0 => NoFalseAlarm)
  BY SoundAccusesNone DEF WorldInv
<1> QED
  BY <1>1, <1>2, PTL

\* Whenever no record is outstanding, the exec-inherit findings of a descriptor
\* count the successful execs that left it open; a failed exec leaves none, in
\* whatever order other processes interleave (ingest_exec, rollback_exec).
THEOREM InheritsCounted ==
  ASSUME Strict, ~Reexec, EarlyActs \subseteq {"close"}
  PROVE  WorldSpec => [](status = 0 => InheritExact)
<1>1. WorldSpec => []WorldInv
  BY WorldIsKnown
<1>2. WorldInv => (status = 0 => InheritExact)
  BY SoundCounts DEF WorldInv
<1> QED
  BY <1>1, <1>2, PTL
=============================================================================
