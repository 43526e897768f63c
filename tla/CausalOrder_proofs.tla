------------------------- MODULE CausalOrder_proofs -------------------------
(***************************************************************************)
(* Proofs about CausalModel, CausalOrder and TracePolicy, for any records, *)
(* names, objects and bounds.  A model holds one run, and its edges are    *)
(* there all at once or not at all, however often memory ran out in        *)
(* between.  The heap and its counters place the least ready node, so that *)
(* the order implements LeastOrder; the order keeps every edge, and        *)
(* trouble means a circle of forks.  The trace policy, which walks that    *)
(* order, keeps stacks that end, and has room for the contexts it meets.   *)
(***************************************************************************)
EXTENDS TracePolicy, DataLemmas, FiniteSetTheorems

-----------------------------------------------------------------------------
(* The model. *)

\* The records of a run carry its name.
LEMMA RecordRun == ASSUME NEW rec \in Records PROVE rec.run \in Runs
  BY DEF Records

\* A model that has a node has a run, which is the run of every node; the run
\* is kept before the node is, so the two may only differ in this direction.
RunInv ==
  /\ model_run \in Runs \cup {None}
  /\ nodes \in Seq(Records)
  /\ model_run = None => nodes = <<>>
  /\ ModelOfOneRun

\* Admitting a record, or failing to, keeps the model to one run.
LEMMA IngestOneRun ==
  ASSUME RunInv, NEW rec \in Records, Ingest(rec) \/ IngestFails(rec)
  PROVE  RunInv'
<1>1. rec.run \in Runs /\ rec.run # None
  BY RecordRun, ModelAssumption
<1>2. model_run' \in {model_run, rec.run} /\ (model_run # None => model_run' = model_run)
  BY <1>1 DEF Ingest, IngestFails, OfThisRun
<1>3. \A i \in 1 .. Len(nodes) : nodes[i].run = model_run'
  BY <1>1, <1>2 DEF RunInv, ModelOfOneRun
<1>4. model_run' \in Runs \cup {None}
  BY <1>1, <1>2 DEF RunInv
<1>5. CASE nodes' = nodes
  <2>1. model_run' = None => nodes' = <<>>
    BY <1>2, <1>5, <1>1 DEF RunInv
  <2> QED
    BY <1>3, <1>4, <1>5, <2>1 DEF RunInv, ModelOfOneRun
<1>6. CASE nodes' = Append(nodes, rec) /\ Ingest(rec)
  <2>1. model_run' = rec.run
    BY <1>6 DEF Ingest, OfThisRun
  <2>2. nodes' \in Seq(Records) /\ Len(nodes') = Len(nodes) + 1 /\ Len(nodes) \in Nat
        /\ nodes'[Len(nodes) + 1] = rec
        /\ \A i \in 1 .. Len(nodes) : nodes'[i] = nodes[i]
    BY <1>6 DEF RunInv
  <2>3. \A i \in 1 .. Len(nodes') : nodes'[i].run = model_run'
    BY <1>3, <2>1, <2>2
  <2> QED
    BY <1>1, <1>4, <2>1, <2>2, <2>3 DEF RunInv, ModelOfOneRun
<1> QED
  BY <1>5, <1>6 DEF Ingest, IngestFails

\* One model, one run, also when the first record of a run was refused for
\* want of memory (p101_tool_model_ingest).
THEOREM OneRunCorrect == Spec => []ModelOfOneRun
<1>1. Init => RunInv
  BY DEF Init, RunInv, ModelOfOneRun
<1>2. RunInv /\ [Next]_model => RunInv'
  <2> SUFFICES ASSUME RunInv, [Next]_model PROVE RunInv'
    OBVIOUS
  <2>1. CASE \E rec \in Records : Admissible(rec) /\ (Ingest(rec) \/ IngestFails(rec))
    BY <2>1, IngestOneRun
  <2>2. CASE UNCHANGED <<model_run, nodes>>
    BY <2>2 DEF RunInv, ModelOfOneRun
  <2>3. Finish => UNCHANGED <<model_run, nodes>>
    BY DEF Finish
  <2>4. FinishFails => UNCHANGED <<model_run, nodes>>
    BY DEF FinishFails
  <2> QED
    BY <2>1, <2>2, <2>3, <2>4 DEF Next, model
<1>3. RunInv => ModelOfOneRun
  BY DEF RunInv
<1> QED
  BY <1>1, <1>2, <1>3, PTL DEF Spec

\* The edges and the replay of a model are those of its nodes once it is
\* finished, and there are none before, whatever attempts failed and wherever
\* they stopped (p101_tool_model_finish); a finished model keeps them.
THEOREM FinishAllOrNothing == Spec => []AllOrNothing
<1>1. Init => AllOrNothing
  BY DEF Init, AllOrNothing
<1>2. AllOrNothing /\ [Next]_model => AllOrNothing'
  <2> SUFFICES ASSUME AllOrNothing, [Next]_model PROVE AllOrNothing'
    OBVIOUS
  <2>1. ASSUME NEW rec \in Records, Ingest(rec) \/ IngestFails(rec) PROVE AllOrNothing'
    <3>1. ~finished /\ ~finished' /\ edges' = edges /\ lifecycle' = lifecycle
      BY <2>1 DEF Ingest, IngestFails
    <3> QED
      BY <3>1 DEF AllOrNothing
  <2>2. CASE Finish
    <3>1. edges' = <<>> \o AllEdges(nodes) /\ lifecycle' = Replayed(nodes) /\ nodes' = nodes /\ finished'
      BY <2>2 DEF Finish, Restarted
    <3>2. AllEdges(nodes)' = AllEdges(nodes)
      BY <3>1
    <3> QED
      BY <3>1, <3>2 DEF AllOrNothing
  <2>3. CASE FinishFails
    BY <2>3 DEF FinishFails, Abandoned, AllOrNothing
  <2>4. CASE UNCHANGED model
    BY <2>4 DEF model, AllOrNothing
  <2> QED
    BY <2>1, <2>2, <2>3, <2>4 DEF Next
<1> QED
  BY <1>1, <1>2, PTL DEF Spec

-----------------------------------------------------------------------------
(* What the searches of finish return. *)

EdgeKinds == {"CALL_PARENT", "CALL_RETURN", "CALL_CAUSED_EVENT",
              "RESOURCE_LIFETIME", "PROCESS_CHILD_EVENT"}
EdgesUpto(n) == [kind : EdgeKinds, from : 1 .. n, to : 1 .. n]

\* Sequence numbers are positive and bounded.
LEMMA RecordSeq == ASSUME NEW rec \in Records PROVE rec.seq \in 1 .. MaxSeq
  BY DEF Records

\* find_active_enter returns none, or an unmatched ENTER of the context before
\* the node, of its name where that is asked for.
LEMMA ActiveEnterIs ==
  ASSUME NEW ns, NEW matched, NEW i \in Nat, NEW named \in BOOLEAN,
         NEW enter, enter = ActiveEnter(ns, matched, i, named), enter # 0
  PROVE  /\ enter \in 1 .. i - 1 /\ ns[enter].kind = "ENTER"
         /\ enter \notin DOMAIN matched /\ SameContext(ns[enter], ns[i])
         /\ named => ns[enter].name = ns[i].name
<1> DEFINE active == {j \in 1 .. i - 1 : /\ ns[j].kind = "ENTER"
                                         /\ j \notin DOMAIN matched
                                         /\ SameContext(ns[j], ns[i])
                                         /\ named => ns[j].name = ns[i].name}
<1>1. enter = IF active = {} THEN 0 ELSE Max(active)
  BY DEF ActiveEnter
<1>2. active # {}
  BY <1>1
<1>3. active \in SUBSET Nat /\ \A j \in active : j <= i
  OBVIOUS
<1>4. Max(active) \in active
  <2> HIDE DEF active
  <2> QED
    BY <1>2, <1>3, MaxIs
<1> QED
  BY <1>1, <1>2, <1>4

\* find_enclosing_call returns none, or an ENTER of the context that is no later.
LEMMA EnclosingCallIs ==
  ASSUME NEW ns \in Seq(Records), NEW matched, NEW i \in 1 .. Len(ns),
         EnclosingCall(ns, matched, i) # 0
  PROVE  /\ EnclosingCall(ns, matched, i) \in 1 .. Len(ns)
         /\ ns[EnclosingCall(ns, matched, i)].kind = "ENTER"
         /\ SameContext(ns[EnclosingCall(ns, matched, i)], ns[i])
         /\ ns[EnclosingCall(ns, matched, i)].seq <= ns[i].seq
<1> DEFINE around == {j \in 1 .. Len(ns) :
                        /\ ns[j].kind = "ENTER" /\ SameContext(ns[j], ns[i])
                        /\ ns[j].seq <= ns[i].seq
                        /\ j \in DOMAIN matched => ns[matched[j]].seq >= ns[i].seq}
           seqs == {ns[j].seq : j \in around}
           Latest(j) == \A k \in around : ns[k].seq <= ns[j].seq
<1>1. EnclosingCall(ns, matched, i) = IF around = {} THEN 0 ELSE CHOOSE j \in around : Latest(j)
  BY DEF EnclosingCall
<1>2. around # {}
  BY <1>1
<1>3. \A j \in 1 .. Len(ns) : ns[j].seq \in 1 .. MaxSeq
  BY RecordSeq
<1>4. \A j \in around : ns[j].seq \in 1 .. MaxSeq
  BY <1>3
<1>5. /\ around \subseteq 1 .. Len(ns)
      /\ \A j \in around : /\ ns[j].kind = "ENTER" /\ SameContext(ns[j], ns[i])
                           /\ ns[j].seq <= ns[i].seq
  OBVIOUS
<1> HIDE DEF around
<1>6. seqs \in SUBSET Nat /\ seqs # {} /\ \A x \in seqs : x <= MaxSeq
  <2>1. PICK j \in around : TRUE
    BY <1>2
  <2>2. ns[j].seq \in seqs
    BY <2>1
  <2>3. MaxSeq \in Nat
    BY ModelAssumption
  <2> QED
    BY <1>4, <2>2, <2>3
<1>7. PICK x \in seqs : \A y \in seqs : y <= x
  <2> HIDE DEF seqs
  <2>1. MaxSeq \in Nat
    BY ModelAssumption
  <2> QED
    BY <1>6, <2>1, GreatestNatural
<1>8. \E j \in around : Latest(j)
  BY <1>7
<1>9. (CHOOSE j \in around : Latest(j)) \in around
  <2> HIDE DEF Latest
  <2> QED
    BY <1>8
<1> QED
  BY <1>1, <1>2, <1>5, <1>9

\* find_lifetime_end returns none, or the first death of the object after its
\* birth: no other comes before it.
LEMMA LifetimeEndIs ==
  ASSUME NEW ns \in Seq(Records), NEW i \in 1 .. Len(ns), LifetimeEnd(ns, i) # 0
  PROVE  /\ LifetimeEnd(ns, i) \in 1 .. Len(ns)
         /\ Ends(ns[LifetimeEnd(ns, i)], ns[i])
         /\ ns[LifetimeEnd(ns, i)].seq > ns[i].seq
         /\ \A k \in 1 .. Len(ns) :
              Ends(ns[k], ns[i]) /\ ns[k].seq > ns[i].seq => ns[LifetimeEnd(ns, i)].seq <= ns[k].seq
<1> DEFINE later == {j \in 1 .. Len(ns) : Ends(ns[j], ns[i]) /\ ns[j].seq > ns[i].seq}
           seqs == {ns[j].seq : j \in later}
           first == {j \in later : \A k \in later : ns[j].seq <= ns[k].seq}
<1>1. LifetimeEnd(ns, i) = IF later = {} THEN 0 ELSE Min(first)
  BY DEF LifetimeEnd
<1>2. later # {}
  BY <1>1
<1>3. \A j \in 1 .. Len(ns) : ns[j].seq \in 1 .. MaxSeq
  BY RecordSeq
<1>4. later \subseteq 1 .. Len(ns) /\ \A j \in later : ns[j].seq \in Nat
  BY <1>3
<1>5. seqs \in SUBSET Nat /\ seqs # {}
  <2>1. PICK j \in later : TRUE
    BY <1>2
  <2>2. ns[j].seq \in seqs
    BY <2>1
  <2> HIDE DEF later
  <2> QED
    BY <1>4, <2>2
<1>6. PICK x \in seqs : \A y \in seqs : x <= y
  <2> HIDE DEF seqs
  <2> QED
    BY <1>5, LeastNatural
<1>7. first # {} /\ first \in SUBSET Nat
  <2> HIDE DEF later
  <2>1. PICK j \in later : ns[j].seq = x
    BY <1>6
  <2>2. \A k \in later : ns[j].seq <= ns[k].seq
    BY <1>6, <2>1
  <2>3. j \in first
    BY <2>1, <2>2
  <2>4. first \subseteq later /\ Len(ns) \in Nat
    OBVIOUS
  <2> HIDE DEF first
  <2> QED
    BY <2>3, <2>4, <1>4
<1>8. Min(first) \in first
  <2> HIDE DEF first
  <2> QED
    BY <1>7, MinIs
<1> QED
  BY <1>1, <1>2, <1>8

\* matched_exit, from node to node: an EXIT that finds its ENTER is noted, and
\* nothing else changes it.
Noted(ns, matched, i) ==
  LET enter == ActiveEnter(ns, matched, i, TRUE)
  IN  IF ns[i].kind = "EXIT" /\ enter # 0
      THEN [j \in DOMAIN matched \cup {enter} |-> IF j = enter THEN i ELSE matched[j]]
      ELSE matched
LEMMA MatchedExitIs ==
  ASSUME NEW ns \in Seq(Records), NEW M, M = MatchedExit(ns)
  PROVE  /\ M[0] = <<>>
         /\ \A i \in 1 .. Len(ns) : M[i] = Noted(ns, M[i - 1], i)
<1> DEFINE n == Len(ns)
           Body(f, i) == IF i = 0 THEN <<>> ELSE Noted(ns, f[i - 1], i)
           Solves(f, k) == \A i \in 0 .. k : f[i] = Body(f, i)
           bad == {k \in 0 .. n : ~\E f : Solves(f, k)}
<1>1. M = CHOOSE f : f = [i \in 0 .. n |-> Body(f, i)]
  BY DEF MatchedExit, Noted
<1>2. n \in Nat
  OBVIOUS
<1>3. bad = {}
  <2> SUFFICES ASSUME bad # {} PROVE FALSE
    OBVIOUS
  <2>1. bad \in SUBSET Nat
    BY <1>2
  <2>2. PICK k \in bad : \A y \in bad : k <= y
    <3> HIDE DEF bad
    <3> QED
      BY <2>1, LeastNatural
  <2>3. CASE k = 0
    <3> DEFINE f == [i \in 0 .. 0 |-> <<>>]
    <3>1. \A i \in 0 .. 0 : i = 0 /\ f[i] = <<>>
      OBVIOUS
    <3>2. Solves(f, 0)
      <4> HIDE DEF f
      <4> QED
        BY <3>1
    <3> QED
      BY <2>2, <2>3, <3>2
  <2>4. CASE k # 0
    <3>1. k - 1 \in 0 .. n /\ ~(k <= k - 1) /\ k \in 0 .. n
      BY <1>2, <2>2, <2>4
    <3>2. PICK g : Solves(g, k - 1)
      BY <2>2, <3>1
    <3> DEFINE f == [i \in 0 .. k |-> IF i = k THEN Noted(ns, g[k - 1], k) ELSE g[i]]
    <3>3. ASSUME NEW i \in 0 .. k PROVE f[i] = Body(f, i)
      <4>1. CASE i = k
        <5>1. i # 0 /\ i - 1 = k - 1 /\ k - 1 \in 0 .. k /\ k - 1 # k /\ k \in 0 .. k
          BY <3>1, <4>1, <2>4
        <5>2. f[k - 1] = g[k - 1] /\ f[k] = Noted(ns, g[k - 1], k)
          BY <5>1
        <5> HIDE DEF f
        <5> QED
          BY <4>1, <5>1, <5>2
      <4>2. CASE i # k
        <5>1. i \in 0 .. k - 1 /\ (i # 0 => i - 1 \in 0 .. k /\ i - 1 # k)
          BY <3>1, <4>2
        <5>2. f[i] = g[i] /\ (i # 0 => f[i - 1] = g[i - 1])
          BY <5>1, <4>2
        <5> HIDE DEF f
        <5> QED
          BY <5>1, <5>2, <3>2
      <4> QED
        BY <4>1, <4>2
    <3>4. Solves(f, k)
      <4> HIDE DEF f
      <4> QED
        BY <3>3
    <3> QED
      BY <2>2, <3>4
  <2> QED
    BY <2>3, <2>4
<1>4. PICK g : Solves(g, n)
  <2>1. n \in 0 .. n
    BY <1>2
  <2>2. \A k \in 0 .. n : \E f : Solves(f, k)
    BY <1>3
  <2> HIDE DEF Solves
  <2> QED
    BY <2>1, <2>2
<1> DEFINE f == [i \in 0 .. n |-> g[i]]
<1>5. \A i \in 0 .. n : f[i] = Body(f, i)
  <2> SUFFICES ASSUME NEW i \in 0 .. n PROVE f[i] = Body(f, i)
    OBVIOUS
  <2>1. f[i] = g[i] /\ g[i] = Body(g, i)
    BY <1>4
  <2>2. i # 0 => i - 1 \in 0 .. n
    BY <1>2
  <2>3. i # 0 => f[i - 1] = g[i - 1]
    BY <2>2
  <2> HIDE DEF f
  <2> QED
    BY <2>1, <2>3
<1>6. f = [i \in 0 .. n |-> Body(f, i)]
  <2>1. f = [i \in 0 .. n |-> f[i]]
    OBVIOUS
  <2> HIDE DEF f, Body
  <2> QED
    BY <1>5, <2>1
<1>7. M = [i \in 0 .. n |-> Body(M, i)]
  <2> HIDE DEF f, Body
  <2> QED
    BY <1>1, <1>6
<1>8. M[0] = <<>>
  <2>1. 0 \in 0 .. n
    BY <1>2
  <2> QED
    BY <2>1, <1>7
<1>9. ASSUME NEW i \in 1 .. n PROVE M[i] = Noted(ns, M[i - 1], i)
  <2>1. i \in 0 .. n /\ i # 0
    BY <1>2
  <2> QED
    BY <2>1, <1>7
<1> QED
  BY <1>8, <1>9

\* A match once made is kept.
LEMMA MatchesGrow ==
  ASSUME NEW ns \in Seq(Records), NEW M, M = MatchedExit(ns),
         NEW i \in 0 .. Len(ns), NEW j \in 0 .. Len(ns), i <= j
  PROVE  DOMAIN M[i] \subseteq DOMAIN M[j]
<1> DEFINE bad == {k \in i .. Len(ns) : ~(DOMAIN M[i] \subseteq DOMAIN M[k])}
<1>1. bad = {}
  <2> SUFFICES ASSUME bad # {} PROVE FALSE
    OBVIOUS
  <2>1. bad \in SUBSET Nat
    OBVIOUS
  <2>2. PICK k \in bad : \A y \in bad : k <= y
    <3> HIDE DEF bad
    <3> QED
      BY <2>1, LeastNatural
  <2>3. k # i
    BY <2>2
  <2>4. k - 1 \in i .. Len(ns) /\ ~(k <= k - 1) /\ k \in 1 .. Len(ns)
    BY <2>2, <2>3
  <2>5. DOMAIN M[i] \subseteq DOMAIN M[k - 1]
    BY <2>2, <2>4
  <2>6. DOMAIN M[k - 1] \subseteq DOMAIN M[k]
    <3>1. M[k] = Noted(ns, M[k - 1], k)
      BY <2>4, MatchedExitIs
    <3> DEFINE enter == ActiveEnter(ns, M[k - 1], k, TRUE)
    <3>2. M[k] = IF ns[k].kind = "EXIT" /\ enter # 0
                 THEN [e \in DOMAIN M[k - 1] \cup {enter} |-> IF e = enter THEN k ELSE M[k - 1][e]]
                 ELSE M[k - 1]
      BY <3>1 DEF Noted
    <3> HIDE DEF enter
    <3> QED
      BY <3>2
  <2> QED
    BY <2>2, <2>5, <2>6
<1>2. j \in i .. Len(ns)
  OBVIOUS
<1> QED
  BY <1>1, <1>2

\* No ENTER is returned from twice.
LEMMA ReturnedOnce ==
  ASSUME NEW ns \in Seq(Records), NEW M, M = MatchedExit(ns),
         NEW i \in 1 .. Len(ns), NEW j \in 1 .. Len(ns), i < j, ns[i].kind = "EXIT",
         ActiveEnter(ns, M[i - 1], i, TRUE) # 0, ActiveEnter(ns, M[j - 1], j, TRUE) # 0
  PROVE  ActiveEnter(ns, M[i - 1], i, TRUE) # ActiveEnter(ns, M[j - 1], j, TRUE)
<1> DEFINE enter == ActiveEnter(ns, M[i - 1], i, TRUE)
<1>1. enter \in DOMAIN M[i]
  <2>1. M[i] = [e \in DOMAIN M[i - 1] \cup {enter} |-> IF e = enter THEN i ELSE M[i - 1][e]]
    <3>1. M[i] = Noted(ns, M[i - 1], i)
      BY MatchedExitIs
    <3> QED
      BY <3>1 DEF Noted
  <2> HIDE DEF enter
  <2> QED
    BY <2>1
<1>2. DOMAIN M[i] \subseteq DOMAIN M[j - 1]
  <2>1. i \in 0 .. Len(ns) /\ j - 1 \in 0 .. Len(ns) /\ i <= j - 1
    OBVIOUS
  <2> QED
    BY <2>1, MatchesGrow
<1>3. ActiveEnter(ns, M[j - 1], j, TRUE) \notin DOMAIN M[j - 1]
  <2> DEFINE found == ActiveEnter(ns, M[j - 1], j, TRUE)
  <2>1. j \in Nat /\ TRUE \in BOOLEAN
    OBVIOUS
  <2>2. found # 0
    OBVIOUS
  <2> QED
    BY <2>1, <2>2, ActiveEnterIs
<1> QED
  BY <1>1, <1>2, <1>3

-----------------------------------------------------------------------------
(* The edges of a model: what they join, and that none is there twice. *)

LEMMA EdgeIfIs ==
  ASSUME NEW S, NEW kind, NEW from, NEW to, from # 0 /\ to # 0 => Edge(kind, from, to) \in S
  PROVE  /\ EdgeIf(kind, from, to) \in Seq(S) /\ Once(EdgeIf(kind, from, to))
         /\ \A e \in ToSet(EdgeIf(kind, from, to)) : from # 0 /\ to # 0 /\ e = Edge(kind, from, to)
<1>1. CASE from = 0 \/ to = 0
  BY <1>1 DEF EdgeIf, ToSet, Once
<1>2. CASE from # 0 /\ to # 0
  <2> DEFINE e == Edge(kind, from, to)
  <2>1. EdgeIf(kind, from, to) = <<e>> /\ e \in S
    BY <1>2 DEF EdgeIf
  <2> HIDE DEF e
  <2>2. <<e>> \in Seq(S) /\ Len(<<e>>) = 1 /\ <<e>>[1] = e /\ DOMAIN <<e>> = {1}
    BY <2>1
  <2>3. Once(<<e>>)
    BY <2>2 DEF Once
  <2>4. \A x \in ToSet(<<e>>) : x = e
    BY <2>2 DEF ToSet
  <2> QED
    BY <1>2, <2>1, <2>2, <2>3, <2>4 DEF e
<1> QED
  BY <1>1, <1>2

\* What one node adds to the call edges.
CallPiece(ns, i) ==
  CASE ns[i].kind = "ENTER" ->
         EdgeIf("CALL_PARENT", ActiveEnter(ns, MatchedExit(ns)[i - 1], i, FALSE), i)
    [] ns[i].kind = "EXIT" ->
         EdgeIf("CALL_RETURN", ActiveEnter(ns, MatchedExit(ns)[i - 1], i, TRUE), i)
    [] OTHER -> <<>>
Returns(ns, e) ==
  /\ e.to \in 1 .. Len(ns) /\ ns[e.to].kind = "EXIT" /\ e.from # 0
  /\ e.from = ActiveEnter(ns, MatchedExit(ns)[e.to - 1], e.to, TRUE)

\* A call edge leads from an ENTER to a later call record of its context.
Called(ns, e) ==
  /\ e.to \in 1 .. Len(ns) /\ e.from \in 1 .. e.to - 1
  /\ ns[e.from].kind = "ENTER" /\ ns[e.to].kind \in CallKinds
  /\ SameContext(ns[e.from], ns[e.to])

LEMMA CallPieceIs ==
  ASSUME NEW ns \in Seq(Records), NEW i \in 1 .. Len(ns)
  PROVE  /\ CallPiece(ns, i) \in Seq(EdgesUpto(Len(ns))) /\ Once(CallPiece(ns, i))
         /\ \A e \in ToSet(CallPiece(ns, i)) :
              /\ e.to = i /\ e.kind \in {"CALL_PARENT", "CALL_RETURN"}
              /\ Called(ns, e)
              /\ e.kind = "CALL_RETURN" => Returns(ns, e)
<1> DEFINE S == EdgesUpto(Len(ns))
           parent == ActiveEnter(ns, MatchedExit(ns)[i - 1], i, FALSE)
           enter == ActiveEnter(ns, MatchedExit(ns)[i - 1], i, TRUE)
<1>1. i \in Nat /\ i # 0 /\ TRUE \in BOOLEAN /\ FALSE \in BOOLEAN
      /\ \A j \in 1 .. i - 1 : j \in 1 .. Len(ns)
  OBVIOUS
<1> DEFINE Opens(j) == /\ j \in 1 .. i - 1 /\ j \in 1 .. Len(ns)
                       /\ ns[j].kind = "ENTER" /\ SameContext(ns[j], ns[i])
<1>2. parent # 0 => Opens(parent)
  BY <1>1, ActiveEnterIs
<1>3. enter # 0 => Opens(enter)
  BY <1>1, ActiveEnterIs
<1>4. ASSUME ns[i].kind \in CallKinds, NEW kind, NEW j, Opens(j), NEW e, e = Edge(kind, j, i)
      PROVE  Called(ns, e)
  <2>1. e.from = j /\ e.to = i
    BY <1>4 DEF Edge
  <2> QED
    BY <1>4, <2>1 DEF Called
<1> HIDE DEF Opens
<1>5. CASE ns[i].kind = "ENTER"
  <2>1. CallPiece(ns, i) = EdgeIf("CALL_PARENT", parent, i)
    BY <1>5 DEF CallPiece
  <2> HIDE DEF parent
  <2>2. parent # 0 => Edge("CALL_PARENT", parent, i) \in S
    BY <1>2 DEF Edge, EdgesUpto, EdgeKinds, Opens
  <2> HIDE DEF S
  <2>3. /\ EdgeIf("CALL_PARENT", parent, i) \in Seq(S) /\ Once(EdgeIf("CALL_PARENT", parent, i))
        /\ \A e \in ToSet(EdgeIf("CALL_PARENT", parent, i)) :
             parent # 0 /\ e = Edge("CALL_PARENT", parent, i)
    BY <2>2, EdgeIfIs
  <2>5. ASSUME NEW e, parent # 0, e = Edge("CALL_PARENT", parent, i) PROVE Called(ns, e)
    BY <1>2, <1>5, <1>4, <2>5 DEF CallKinds
  <2>4. Edge("CALL_PARENT", parent, i).to = i /\ Edge("CALL_PARENT", parent, i).kind = "CALL_PARENT"
    BY DEF Edge
  <2> QED
    BY <2>1, <2>3, <2>4, <2>5 DEF S
<1>6. CASE ns[i].kind = "EXIT"
  <2>1. CallPiece(ns, i) = EdgeIf("CALL_RETURN", enter, i)
    BY <1>6 DEF CallPiece
  <2>2. \A e : e = Edge("CALL_RETURN", enter, i) /\ enter # 0 => Returns(ns, e)
    <3> SUFFICES ASSUME NEW e, e = Edge("CALL_RETURN", enter, i), enter # 0 PROVE Returns(ns, e)
      OBVIOUS
    <3>1. e.from = enter /\ e.to = i
      <4> HIDE DEF enter
      <4> QED
        BY DEF Edge
    <3>2. e.from = ActiveEnter(ns, MatchedExit(ns)[e.to - 1], e.to, TRUE)
      BY <3>1
    <3> QED
      BY <1>6, <3>1, <3>2 DEF Returns
  <2> HIDE DEF enter
  <2>3. enter # 0 => Edge("CALL_RETURN", enter, i) \in S
    BY <1>3 DEF Edge, EdgesUpto, EdgeKinds, Opens
  <2> HIDE DEF S
  <2>4. /\ EdgeIf("CALL_RETURN", enter, i) \in Seq(S) /\ Once(EdgeIf("CALL_RETURN", enter, i))
        /\ \A e \in ToSet(EdgeIf("CALL_RETURN", enter, i)) :
             enter # 0 /\ e = Edge("CALL_RETURN", enter, i)
    BY <2>3, EdgeIfIs
  <2>5. Edge("CALL_RETURN", enter, i).to = i /\ Edge("CALL_RETURN", enter, i).kind = "CALL_RETURN"
    BY DEF Edge
  <2>6. ASSUME NEW e, enter # 0, e = Edge("CALL_RETURN", enter, i) PROVE Called(ns, e)
    BY <1>3, <1>6, <1>4, <2>6 DEF CallKinds
  <2> QED
    BY <2>1, <2>2, <2>4, <2>5, <2>6 DEF S
<1>7. CASE ~(ns[i].kind \in {"ENTER", "EXIT"})
  <2>1. CallPiece(ns, i) = <<>>
    BY <1>7 DEF CallPiece
  <2> QED
    BY <2>1 DEF ToSet, Once
<1> QED
  BY <1>5, <1>6, <1>7

LEMMA CallEdgesAre ==
  ASSUME NEW ns \in Seq(Records)
  PROVE  /\ CallEdges(ns) \in Seq(EdgesUpto(Len(ns))) /\ Once(CallEdges(ns))
         /\ \A e \in ToSet(CallEdges(ns)) :
              /\ e.kind \in {"CALL_PARENT", "CALL_RETURN"} /\ Called(ns, e)
              /\ e.kind = "CALL_RETURN" => Returns(ns, e)
<1> DEFINE S == EdgesUpto(Len(ns))
           pieces == [i \in 1 .. Len(ns) |-> CallPiece(ns, i)]
<1>1. CallEdges(ns) = FlattenSeq(pieces)
  BY DEF CallEdges, CallPiece
<1>2. Len(ns) \in Nat /\ \A i \in 1 .. Len(ns) : CallPiece(ns, i) \in Seq(S)
  BY CallPieceIs
<1> HIDE DEF S
<1>3. pieces \in Seq(Seq(S)) /\ Len(pieces) = Len(ns)
      /\ \A i \in 1 .. Len(ns) : pieces[i] = CallPiece(ns, i)
  BY <1>2
<1> HIDE DEF pieces
<1>4. \A i \in 1 .. Len(pieces) : Once(pieces[i])
  BY <1>3, CallPieceIs
<1>5. \A i, j \in 1 .. Len(pieces) : i # j => ToSet(pieces[i]) \cap ToSet(pieces[j]) = {}
  <2> SUFFICES ASSUME NEW i \in 1 .. Len(ns), NEW j \in 1 .. Len(ns), i # j,
                      NEW e \in ToSet(CallPiece(ns, i)), e \in ToSet(CallPiece(ns, j))
               PROVE  FALSE
    BY <1>3
  <2> QED
    BY CallPieceIs
<1>6. /\ FlattenSeq(pieces) \in Seq(S)
      /\ ToSet(FlattenSeq(pieces)) = UNION {ToSet(pieces[i]) : i \in 1 .. Len(pieces)}
      /\ Once(FlattenSeq(pieces))
  BY <1>3, <1>4, <1>5, FlattenIs
<1>7. ASSUME NEW e \in ToSet(CallEdges(ns)) PROVE \E i \in 1 .. Len(ns) : e \in ToSet(CallPiece(ns, i))
  BY <1>1, <1>3, <1>6
<1> QED
  BY <1>1, <1>6, <1>7, CallPieceIs DEF S

\* The edges of a fork lead to the nodes of its child, each once, and to all
\* of them.
LEMMA ChildEdgesAre ==
  ASSUME NEW ns \in Seq(Records), NEW i \in 1 .. Len(ns)
  PROVE  /\ ChildEdges(ns, i) \in Seq(EdgesUpto(Len(ns))) /\ Once(ChildEdges(ns, i))
         /\ \A e \in ToSet(ChildEdges(ns, i)) :
              /\ e.kind = "PROCESS_CHILD_EVENT" /\ e.from = i
              /\ ns[i].kind \in ForkKinds /\ e.to \in 1 .. Len(ns) /\ ns[e.to].pid = ns[i].child
         /\ \A j \in 1 .. Len(ns) :
              ns[i].kind \in ForkKinds /\ ns[j].pid = ns[i].child
                => Edge("PROCESS_CHILD_EVENT", i, j) \in ToSet(ChildEdges(ns, i))
<1> DEFINE S == EdgesUpto(Len(ns))
           Piece(j) == IF ns[j].pid = ns[i].child THEN <<Edge("PROCESS_CHILD_EVENT", i, j)>> ELSE <<>>
           pieces == [j \in 1 .. Len(ns) |-> Piece(j)]
<1>1. CASE ns[i].kind \notin ForkKinds
  BY <1>1 DEF ChildEdges, ToSet, Once
<1>2. CASE ns[i].kind \in ForkKinds
  <2>1. ChildEdges(ns, i) = FlattenSeq(pieces)
    BY <1>2 DEF ChildEdges
  <2>2. ASSUME NEW j \in 1 .. Len(ns)
        PROVE  /\ Piece(j) \in Seq(S) /\ Once(Piece(j))
               /\ \A e \in ToSet(Piece(j)) : /\ e = Edge("PROCESS_CHILD_EVENT", i, j)
                                              /\ ns[j].pid = ns[i].child
               /\ ns[j].pid = ns[i].child => Edge("PROCESS_CHILD_EVENT", i, j) \in ToSet(Piece(j))
    <3>1. Edge("PROCESS_CHILD_EVENT", i, j) \in S
      BY DEF Edge, EdgesUpto, EdgeKinds
    <3> DEFINE e == Edge("PROCESS_CHILD_EVENT", i, j)
    <3>2. Piece(j) = IF ns[j].pid = ns[i].child THEN <<e>> ELSE <<>>
      OBVIOUS
    <3> HIDE DEF e, S, Piece
    <3>3. <<e>> \in Seq(S) /\ Len(<<e>>) = 1 /\ <<e>>[1] = e /\ DOMAIN <<e>> = {1}
      BY <3>1 DEF e
    <3>4. Once(<<e>>) /\ ToSet(<<e>>) = {e}
      BY <3>3 DEF Once, ToSet
    <3>5. <<>> \in Seq(S) /\ Once(<<>>) /\ ToSet(<<>>) = {}
      BY DEF Once, ToSet
    <3> QED
      BY <3>2, <3>3, <3>4, <3>5 DEF e
  <2>3. \A j \in 1 .. Len(ns) : Edge("PROCESS_CHILD_EVENT", i, j).to = j
                               /\ Edge("PROCESS_CHILD_EVENT", i, j).from = i
                               /\ Edge("PROCESS_CHILD_EVENT", i, j).kind = "PROCESS_CHILD_EVENT"
    BY DEF Edge
  <2> HIDE DEF S, Piece
  <2>4. pieces \in Seq(Seq(S)) /\ Len(pieces) = Len(ns)
        /\ \A j \in 1 .. Len(ns) : pieces[j] = Piece(j)
    BY <2>2
  <2> HIDE DEF pieces
  <2>5. \A j \in 1 .. Len(pieces) : Once(pieces[j])
    BY <2>2, <2>4
  <2>6. \A j, k \in 1 .. Len(pieces) : j # k => ToSet(pieces[j]) \cap ToSet(pieces[k]) = {}
    <3> SUFFICES ASSUME NEW j \in 1 .. Len(ns), NEW k \in 1 .. Len(ns), j # k,
                        NEW e \in ToSet(Piece(j)), e \in ToSet(Piece(k))
                 PROVE  FALSE
      BY <2>4
    <3> QED
      BY <2>2, <2>3
  <2>7. /\ FlattenSeq(pieces) \in Seq(S)
        /\ ToSet(FlattenSeq(pieces)) = UNION {ToSet(pieces[j]) : j \in 1 .. Len(pieces)}
        /\ Once(FlattenSeq(pieces))
    BY <2>4, <2>5, <2>6, FlattenIs
  <2>8. ASSUME NEW e \in ToSet(ChildEdges(ns, i)) PROVE \E j \in 1 .. Len(ns) : e \in ToSet(Piece(j))
    BY <2>1, <2>4, <2>7
  <2>9. ASSUME NEW e \in ToSet(ChildEdges(ns, i))
        PROVE  /\ e.kind = "PROCESS_CHILD_EVENT" /\ e.from = i
               /\ e.to \in 1 .. Len(ns) /\ ns[e.to].pid = ns[i].child
    BY <2>2, <2>3, <2>8
  <2>10. ASSUME NEW j \in 1 .. Len(ns), ns[j].pid = ns[i].child
         PROVE  Edge("PROCESS_CHILD_EVENT", i, j) \in ToSet(ChildEdges(ns, i))
    <3>1. Edge("PROCESS_CHILD_EVENT", i, j) \in ToSet(pieces[j]) /\ j \in 1 .. Len(pieces)
      BY <2>2, <2>4, <2>10
    <3> QED
      BY <2>1, <2>7, <3>1
  <2> QED
    BY <1>2, <2>1, <2>7, <2>9, <2>10 DEF S
<1> QED
  BY <1>1, <1>2

\* What one node adds to the resource edges.
ResourcePiece(ns, i) ==
  IF Call(ns[i]) THEN <<>>
  ELSE EdgeIf("CALL_CAUSED_EVENT", EnclosingCall(ns, MatchedExit(ns)[Len(ns)], i), i)
       \o EdgeIf("RESOURCE_LIFETIME", i, LifetimeEnd(ns, i))
       \o ChildEdges(ns, i)
\* The edges a node adds are of three kinds, and each names the node.
Causes(ns, i, e) ==
  \/ /\ e.kind = "CALL_CAUSED_EVENT" /\ e.to = i /\ ~Call(ns[i])
     /\ e.from = EnclosingCall(ns, MatchedExit(ns)[Len(ns)], i) /\ e.from # 0
  \/ /\ e.kind = "RESOURCE_LIFETIME" /\ e.from = i
     /\ e.to = LifetimeEnd(ns, i) /\ e.to # 0
  \/ /\ e.kind = "PROCESS_CHILD_EVENT" /\ e.from = i /\ ns[i].kind \in ForkKinds
     /\ e.to \in 1 .. Len(ns) /\ ns[e.to].pid = ns[i].child

LEMMA ResourcePieceIs ==
  ASSUME NEW ns \in Seq(Records), NEW i \in 1 .. Len(ns)
  PROVE  /\ ResourcePiece(ns, i) \in Seq(EdgesUpto(Len(ns))) /\ Once(ResourcePiece(ns, i))
         /\ \A e \in ToSet(ResourcePiece(ns, i)) : Causes(ns, i, e)
         /\ ~Call(ns[i]) => ToSet(ChildEdges(ns, i)) \subseteq ToSet(ResourcePiece(ns, i))
<1> DEFINE S == EdgesUpto(Len(ns))
           call == EnclosingCall(ns, MatchedExit(ns)[Len(ns)], i)
           end == LifetimeEnd(ns, i)
           caused == EdgeIf("CALL_CAUSED_EVENT", call, i)
           lifetime == EdgeIf("RESOURCE_LIFETIME", i, end)
           children == ChildEdges(ns, i)
<1>1. CASE Call(ns[i])
  BY <1>1 DEF ResourcePiece, ToSet, Once
<1>2. CASE ~Call(ns[i])
  <2>1. ResourcePiece(ns, i) = (caused \o lifetime) \o children
    BY <1>2 DEF ResourcePiece
  <2>2. caused \in Seq(S) /\ Once(caused)
        /\ \A e \in ToSet(caused) :
             e.kind = "CALL_CAUSED_EVENT" /\ e.to = i /\ e.from = call /\ call # 0
    <3>1. call # 0 => call \in 1 .. Len(ns)
      BY EnclosingCallIs
    <3> HIDE DEF call
    <3>2. call # 0 => Edge("CALL_CAUSED_EVENT", call, i) \in S
      BY <3>1 DEF Edge, EdgesUpto, EdgeKinds
    <3> HIDE DEF S
    <3>3. /\ caused \in Seq(S) /\ Once(caused)
          /\ \A e \in ToSet(caused) : call # 0 /\ e = Edge("CALL_CAUSED_EVENT", call, i)
      BY <3>2, EdgeIfIs
    <3> HIDE DEF caused
    <3> QED
      BY <3>3 DEF Edge
  <2>3. lifetime \in Seq(S) /\ Once(lifetime)
        /\ \A e \in ToSet(lifetime) : e.kind = "RESOURCE_LIFETIME" /\ e.from = i /\ e.to = end /\ end # 0
    <3>1. end # 0 => end \in 1 .. Len(ns)
      BY LifetimeEndIs
    <3> HIDE DEF end
    <3>2. end # 0 => Edge("RESOURCE_LIFETIME", i, end) \in S
      BY <3>1 DEF Edge, EdgesUpto, EdgeKinds
    <3> HIDE DEF S
    <3>3. /\ lifetime \in Seq(S) /\ Once(lifetime)
          /\ \A e \in ToSet(lifetime) : end # 0 /\ e = Edge("RESOURCE_LIFETIME", i, end)
      BY <3>2, EdgeIfIs
    <3> HIDE DEF lifetime
    <3> QED
      BY <3>3 DEF Edge
  <2>4. children \in Seq(S) /\ Once(children)
        /\ \A e \in ToSet(children) :
             /\ e.kind = "PROCESS_CHILD_EVENT" /\ e.from = i
             /\ ns[i].kind \in ForkKinds /\ e.to \in 1 .. Len(ns) /\ ns[e.to].pid = ns[i].child
    BY ChildEdgesAre
  <2> DEFINE two == caused \o lifetime
  <2> HIDE DEF S, call, caused, lifetime, children
  <2>5. ToSet(caused) \cap ToSet(lifetime) = {}
    BY <2>2, <2>3
  <2>6. two \in Seq(S) /\ Once(two) /\ ToSet(two) = ToSet(caused) \cup ToSet(lifetime)
    BY <2>2, <2>3, <2>5, ConcatIs
  <2> HIDE DEF two
  <2>7. ToSet(two) \cap ToSet(children) = {}
    BY <2>2, <2>3, <2>4, <2>6
  <2>8. /\ two \o children \in Seq(S) /\ Once(two \o children)
        /\ ToSet(two \o children) = ToSet(two) \cup ToSet(children)
    BY <2>4, <2>6, <2>7, ConcatIs
  <2>9. ResourcePiece(ns, i) = two \o children
    BY <2>1 DEF two
  <2>10. ASSUME NEW e \in ToSet(ResourcePiece(ns, i)) PROVE Causes(ns, i, e)
    <3>1. CASE e \in ToSet(caused)
      BY <1>2, <2>2, <3>1 DEF Causes, call
    <3>2. CASE e \in ToSet(lifetime)
      BY <2>3, <3>2 DEF Causes
    <3>3. CASE e \in ToSet(children)
      BY <2>4, <3>3 DEF Causes
    <3> QED
      BY <2>6, <2>8, <2>9, <3>1, <3>2, <3>3
  <2>11. ToSet(ChildEdges(ns, i)) \subseteq ToSet(ResourcePiece(ns, i))
    BY <2>8, <2>9 DEF children
  <2> QED
    BY <2>8, <2>9, <2>10, <2>11 DEF S
<1> QED
  BY <1>1, <1>2

LEMMA ResourceEdgesAre ==
  ASSUME NEW ns \in Seq(Records)
  PROVE  /\ ResourceEdges(ns) \in Seq(EdgesUpto(Len(ns))) /\ Once(ResourceEdges(ns))
         /\ \A e \in ToSet(ResourceEdges(ns)) : \E i \in 1 .. Len(ns) : Causes(ns, i, e)
         /\ \A i, j \in 1 .. Len(ns) :
              ns[i].kind \in ForkKinds /\ ns[j].pid = ns[i].child
                => Edge("PROCESS_CHILD_EVENT", i, j) \in ToSet(ResourceEdges(ns))
<1> DEFINE S == EdgesUpto(Len(ns))
           pieces == [i \in 1 .. Len(ns) |-> ResourcePiece(ns, i)]
<1>1. ResourceEdges(ns) = FlattenSeq(pieces)
  BY DEF ResourceEdges, ResourcePiece
<1>2. Len(ns) \in Nat /\ \A i \in 1 .. Len(ns) : ResourcePiece(ns, i) \in Seq(S)
  BY ResourcePieceIs
<1> HIDE DEF S
<1>3. pieces \in Seq(Seq(S)) /\ Len(pieces) = Len(ns)
      /\ \A i \in 1 .. Len(ns) : pieces[i] = ResourcePiece(ns, i)
  BY <1>2
<1> HIDE DEF pieces
<1>4. \A i \in 1 .. Len(pieces) : Once(pieces[i])
  BY <1>3, ResourcePieceIs
<1>5. \A i, j \in 1 .. Len(pieces) : i # j => ToSet(pieces[i]) \cap ToSet(pieces[j]) = {}
  <2> SUFFICES ASSUME NEW i \in 1 .. Len(ns), NEW j \in 1 .. Len(ns), i # j,
                      NEW e \in ToSet(ResourcePiece(ns, i)), e \in ToSet(ResourcePiece(ns, j))
               PROVE  FALSE
    BY <1>3
  <2>1. Causes(ns, i, e) /\ Causes(ns, j, e)
    BY ResourcePieceIs
  <2> QED
    BY <2>1 DEF Causes
<1>6. /\ FlattenSeq(pieces) \in Seq(S)
      /\ ToSet(FlattenSeq(pieces)) = UNION {ToSet(pieces[i]) : i \in 1 .. Len(pieces)}
      /\ Once(FlattenSeq(pieces))
  BY <1>3, <1>4, <1>5, FlattenIs
<1>7. ASSUME NEW e \in ToSet(ResourceEdges(ns)) PROVE \E i \in 1 .. Len(ns) : e \in ToSet(ResourcePiece(ns, i))
  BY <1>1, <1>3, <1>6
<1>8. ASSUME NEW e \in ToSet(ResourceEdges(ns)) PROVE \E i \in 1 .. Len(ns) : Causes(ns, i, e)
  BY <1>7, ResourcePieceIs
<1>9. ASSUME NEW i \in 1 .. Len(ns), NEW j \in 1 .. Len(ns),
             ns[i].kind \in ForkKinds, ns[j].pid = ns[i].child
      PROVE  Edge("PROCESS_CHILD_EVENT", i, j) \in ToSet(ResourceEdges(ns))
  <2>1. ~Call(ns[i])
    BY <1>9 DEF Call, CallKinds, ForkKinds
  <2>2. Edge("PROCESS_CHILD_EVENT", i, j) \in ToSet(ResourcePiece(ns, i))
    BY <1>9, <2>1, ChildEdgesAre, ResourcePieceIs
  <2> QED
    BY <1>1, <1>3, <1>6, <2>2
<1> QED
  BY <1>1, <1>6, <1>8, <1>9 DEF S

\* All of them together: kinds keep the two halves apart.
LEMMA AllEdgesAre ==
  ASSUME NEW ns \in Seq(Records)
  PROVE  /\ AllEdges(ns) \in Seq(EdgesUpto(Len(ns))) /\ Once(AllEdges(ns))
         /\ \A e \in ToSet(AllEdges(ns)) :
              /\ e \in EdgesUpto(Len(ns))
              /\ e.kind = "CALL_RETURN" => Returns(ns, e)
              /\ e.kind = "RESOURCE_LIFETIME" =>
                   /\ e.from \in 1 .. Len(ns)
                   /\ e.to = LifetimeEnd(ns, e.from) /\ e.to # 0
              /\ Called(ns, e) \/ \E i \in 1 .. Len(ns) : Causes(ns, i, e)
         /\ \A i, j \in 1 .. Len(ns) :
              ns[i].kind \in ForkKinds /\ ns[j].pid = ns[i].child
                => Edge("PROCESS_CHILD_EVENT", i, j) \in ToSet(AllEdges(ns))
<1> DEFINE S == EdgesUpto(Len(ns))
<1>1. /\ CallEdges(ns) \in Seq(S) /\ Once(CallEdges(ns))
      /\ \A e \in ToSet(CallEdges(ns)) :
           /\ e.kind \in {"CALL_PARENT", "CALL_RETURN"} /\ Called(ns, e)
           /\ e.kind = "CALL_RETURN" => Returns(ns, e)
  BY CallEdgesAre
<1>2. /\ ResourceEdges(ns) \in Seq(S) /\ Once(ResourceEdges(ns))
      /\ \A e \in ToSet(ResourceEdges(ns)) : \E i \in 1 .. Len(ns) : Causes(ns, i, e)
      /\ \A i, j \in 1 .. Len(ns) :
           ns[i].kind \in ForkKinds /\ ns[j].pid = ns[i].child
             => Edge("PROCESS_CHILD_EVENT", i, j) \in ToSet(ResourceEdges(ns))
  BY ResourceEdgesAre
<1>3. \A e \in ToSet(ResourceEdges(ns)) :
        /\ e.kind \notin {"CALL_PARENT", "CALL_RETURN"}
        /\ e.kind = "RESOURCE_LIFETIME" =>
             e.from \in 1 .. Len(ns) /\ e.to = LifetimeEnd(ns, e.from) /\ e.to # 0
  BY <1>2 DEF Causes
<1> HIDE DEF S
<1>4. ToSet(CallEdges(ns)) \cap ToSet(ResourceEdges(ns)) = {}
  BY <1>1, <1>3
<1>5. /\ AllEdges(ns) \in Seq(S) /\ Once(AllEdges(ns))
      /\ ToSet(AllEdges(ns)) = ToSet(CallEdges(ns)) \cup ToSet(ResourceEdges(ns))
  BY <1>1, <1>2, <1>4, ConcatIs DEF AllEdges
<1>6. \A e \in ToSet(AllEdges(ns)) : e \in S
  BY <1>5 DEF ToSet
<1> QED
  BY <1>1, <1>2, <1>3, <1>5, <1>6 DEF S

-----------------------------------------------------------------------------
(* The properties of a finished model. *)

\* RunInv is an invariant; so are the numbers of a context, which differ.
SeqsDiffer ==
  \A i, j \in 1 .. Len(nodes) :
    i # j /\ SameContext(nodes[i], nodes[j]) => nodes[i].seq # nodes[j].seq
NodesInv == RunInv /\ SeqsDiffer /\ finished \in BOOLEAN

LEMMA IngestKeepsOrder ==
  ASSUME NodesInv, NEW rec \in Records, InOrder(rec), Ingest(rec)
  PROVE  SeqsDiffer'
<1>1. CASE nodes' = nodes
  BY <1>1 DEF NodesInv, SeqsDiffer
<1>2. CASE nodes' = Append(nodes, rec)
  <2>1. /\ Len(nodes) \in Nat /\ Len(nodes') = Len(nodes) + 1
        /\ nodes'[Len(nodes) + 1] = rec
        /\ \A i \in 1 .. Len(nodes) : nodes'[i] = nodes[i]
    BY <1>2 DEF NodesInv, RunInv
  <2>2. \A i \in 1 .. Len(nodes) : SameContext(nodes[i], rec) => nodes[i].seq # rec.seq
    <3> SUFFICES ASSUME NEW i \in 1 .. Len(nodes), SameContext(nodes[i], rec)
                 PROVE  nodes[i].seq # rec.seq
      OBVIOUS
    <3>1. nodes[i].seq < rec.seq \/ nodes[i].seq # rec.seq
      BY DEF InOrder
    <3>2. nodes[i].seq \in Int /\ rec.seq \in Int
      BY RecordSeq DEF NodesInv, RunInv
    <3> QED
      BY <3>1, <3>2
  <2> SUFFICES ASSUME NEW i \in 1 .. Len(nodes'), NEW j \in 1 .. Len(nodes'), i # j,
                      SameContext(nodes'[i], nodes'[j])
               PROVE  nodes'[i].seq # nodes'[j].seq
    BY DEF SeqsDiffer
  <2>3. (i = Len(nodes) + 1 \/ i \in 1 .. Len(nodes)) /\ (j = Len(nodes) + 1 \/ j \in 1 .. Len(nodes))
    BY <2>1
  <2>4. CASE i \in 1 .. Len(nodes) /\ j \in 1 .. Len(nodes)
    BY <2>1, <2>4 DEF NodesInv, SeqsDiffer
  <2>5. CASE i = Len(nodes) + 1 /\ j \in 1 .. Len(nodes)
    <3>1. SameContext(nodes[j], rec)
      BY <2>1, <2>5 DEF SameContext
    <3> QED
      BY <2>1, <2>2, <2>5, <3>1
  <2>6. CASE i \in 1 .. Len(nodes) /\ j = Len(nodes) + 1
    BY <2>1, <2>2, <2>6
  <2> QED
    BY <2>3, <2>4, <2>5, <2>6
<1> QED
  BY <1>1, <1>2 DEF Ingest

LEMMA NodesStay == Spec => [](NodesInv /\ AllOrNothing)
<1>1. Init => NodesInv
  <2> SUFFICES ASSUME Init PROVE NodesInv
    OBVIOUS
  <2>1. nodes = <<>> /\ Len(<<>>) = 0 /\ model_run = None /\ finished = FALSE
    BY DEF Init
  <2>2. RunInv
    BY <2>1 DEF RunInv, ModelOfOneRun
  <2>3. SeqsDiffer
    BY <2>1 DEF SeqsDiffer
  <2> QED
    BY <2>1, <2>2, <2>3 DEF NodesInv
<1>2. NodesInv /\ [Next]_model => NodesInv'
  <2> SUFFICES ASSUME NodesInv, [Next]_model PROVE NodesInv'
    OBVIOUS
  <2>1. ASSUME NEW rec \in Records, Admissible(rec), Ingest(rec) \/ IngestFails(rec) PROVE NodesInv'
    <3>1. RunInv' /\ finished' \in BOOLEAN
      BY <2>1, IngestOneRun DEF NodesInv, Ingest, IngestFails
    <3>2. SeqsDiffer'
      <4>1. CASE Ingest(rec)
        BY <2>1, <4>1, IngestKeepsOrder DEF Admissible
      <4>2. CASE IngestFails(rec)
        BY <4>2 DEF IngestFails, NodesInv, SeqsDiffer
      <4> QED
        BY <2>1, <4>1, <4>2
    <3> QED
      BY <3>1, <3>2 DEF NodesInv
  <2>2. CASE UNCHANGED <<model_run, nodes>> /\ finished' \in BOOLEAN
    BY <2>2 DEF NodesInv, RunInv, ModelOfOneRun, SeqsDiffer
  <2>3. Finish => UNCHANGED <<model_run, nodes>> /\ finished' \in BOOLEAN
    BY DEF Finish
  <2>4. FinishFails => UNCHANGED <<model_run, nodes>> /\ finished' \in BOOLEAN
    BY DEF FinishFails, NodesInv
  <2>5. UNCHANGED model => UNCHANGED <<model_run, nodes>> /\ finished' \in BOOLEAN
    BY DEF model, NodesInv
  <2> QED
    BY <2>1, <2>2, <2>3, <2>4, <2>5 DEF Next
<1> QED
  BY <1>1, <1>2, FinishAllOrNothing, PTL DEF Spec

\* A model has the edges of its nodes, or none.
LEMMA EdgesOf ==
  ASSUME NodesInv, AllOrNothing
  PROVE  /\ nodes \in Seq(Records)
         /\ edges = AllEdges(nodes) \/ edges = <<>>
         /\ Once(edges)
         /\ \A e \in ToSet(edges) : e \in ToSet(AllEdges(nodes))
<1>1. nodes \in Seq(Records)
  BY DEF NodesInv, RunInv
<1>2. CASE edges = AllEdges(nodes)
  BY <1>1, <1>2, AllEdgesAre
<1>3. CASE edges = <<>>
  BY <1>1, <1>3 DEF Once, ToSet
<1> QED
  BY <1>2, <1>3 DEF AllOrNothing

\* Every edge joins two nodes of the model, for any records: the searches of
\* finish never run past them.
THEOREM TypeCorrect == Spec => []TypeOK
<1>1. NodesInv /\ AllOrNothing => TypeOK
  <2> SUFFICES ASSUME NodesInv, AllOrNothing PROVE TypeOK
    OBVIOUS
  <2>1. ASSUME NEW e \in ToSet(edges)
        PROVE  e.kind \in EdgeKinds /\ {e.from, e.to} \subseteq 1 .. Len(nodes)
    <3>1. e \in EdgesUpto(Len(nodes))
      BY EdgesOf, AllEdgesAre
    <3> QED
      BY <3>1 DEF EdgesUpto
  <2>2. \A i \in 1 .. Len(nodes) : nodes[i] \in Records
    BY EdgesOf
  <2> QED
    BY <2>1, <2>2 DEF TypeOK, EdgeKinds, NodesInv, RunInv
<1> QED
  BY <1>1, NodesStay, PTL

\* No edge is counted twice, whatever attempts failed before.
THEOREM FinishCorrect == Spec => []FinishExact
<1>1. NodesInv /\ AllOrNothing => FinishExact
  BY EdgesOf DEF FinishExact, Once
<1> QED
  BY <1>1, NodesStay, PTL

\* An EXIT is matched with one ENTER and an ENTER with one EXIT, for any
\* stream of calls: abandoned, unnamed or out of order between contexts.
THEOREM ReturnsCorrect == Spec => []ReturnsOnce
<1>1. NodesInv /\ AllOrNothing => ReturnsOnce
  <2> SUFFICES ASSUME NodesInv, AllOrNothing,
                      NEW e \in ToSet(edges), NEW f \in ToSet(edges),
                      e.kind = "CALL_RETURN", f.kind = "CALL_RETURN"
               PROVE  e.from = f.from <=> e.to = f.to
    BY DEF ReturnsOnce
  <2>1. Returns(nodes, e) /\ Returns(nodes, f) /\ nodes \in Seq(Records)
    BY EdgesOf, AllEdgesAre
  <2>2. e.to = f.to => e.from = f.from
    BY <2>1 DEF Returns
  <2> DEFINE M == MatchedExit(nodes)
  <2>3. \A g, h : Returns(nodes, g) /\ Returns(nodes, h) /\ g.to < h.to => g.from # h.from
    <3> SUFFICES ASSUME NEW g, NEW h, Returns(nodes, g), Returns(nodes, h), g.to < h.to
                 PROVE  g.from # h.from
      OBVIOUS
    <3> QED
      BY <2>1, ReturnedOnce DEF Returns
  <2>4. e.to \in Int /\ f.to \in Int
    BY <2>1 DEF Returns
  <2>5. e.to < f.to \/ f.to < e.to \/ e.to = f.to
    BY <2>4
  <2> QED
    BY <2>1, <2>2, <2>3, <2>5
<1> QED
  BY <1>1, NodesStay, PTL

\* The nodes that bring an object to life or end it.
About(n) ==
  {i \in 1 .. Len(nodes) :
     /\ nodes[i].pid = n.pid /\ Family(nodes[i]) = Family(n)
     /\ {Born(nodes[i]), Dying(nodes[i])} \cap {Born(n)} # {}}

\* Of two births of an object that one context of a process brings to life and
\* ends in turn, the first is over when the second comes: the first death after
\* it lies between them.
LEMMA DeathBetween ==
  ASSUME NodesInv, NEW a \in 1 .. Len(nodes), NEW c \in 1 .. Len(nodes),
         Alternates(nodes[a]), Born(nodes[a]) # None,
         c \in About(nodes[a]), Born(nodes[c]) = Born(nodes[a]), nodes[a].seq < nodes[c].seq
  PROVE  \E k \in 1 .. Len(nodes) :
           Ends(nodes[k], nodes[a]) /\ nodes[a].seq < nodes[k].seq /\ nodes[k].seq < nodes[c].seq
<1> DEFINE n == nodes[a]
           births == {i \in About(n) : /\ Born(nodes[i]) = Born(n)
                                       /\ nodes[a].seq < nodes[i].seq /\ nodes[i].seq <= nodes[c].seq}
           seqs == {nodes[i].seq : i \in births}
<1>1. \A i \in 1 .. Len(nodes) : nodes[i].seq \in Nat
  BY RecordSeq DEF NodesInv, RunInv
<1>2. About(n) \subseteq 1 .. Len(nodes)
  BY DEF About
<1>3. c \in births
  BY <1>1
<1>4. PICK x \in births : \A i \in births : nodes[x].seq <= nodes[i].seq
  <2>1. seqs \in SUBSET Nat
    BY <1>1, <1>2
  <2>2. seqs # {}
    <3> HIDE DEF births
    <3> QED
      BY <1>3
  <2>3. \E s \in seqs : \A t \in seqs : s <= t
    <3> HIDE DEF seqs
    <3> QED
      BY <2>1, <2>2, LeastNatural
  <2> HIDE DEF births
  <2> QED
    BY <2>3
<1>5. a \in About(n)
  BY DEF About
<1>6. /\ \A i \in About(n) : SameContext(nodes[i], n) /\ Born(nodes[i]) # Dying(nodes[i])
      /\ \A i, j \in About(n) :
           /\ i # j /\ nodes[i].seq < nodes[j].seq
           /\ (Born(nodes[i]) = Born(n)) = (Born(nodes[j]) = Born(n))
           => \E k \in About(n) : nodes[i].seq < nodes[k].seq /\ nodes[k].seq < nodes[j].seq
  BY DEF Alternates, About
<1>7. PICK k \in About(n) : nodes[a].seq < nodes[k].seq /\ nodes[k].seq < nodes[x].seq
  <2>1. x \in About(n) /\ a # x /\ nodes[a].seq < nodes[x].seq /\ Born(nodes[x]) = Born(n)
    BY <1>1, <1>4
  <2> QED
    BY <1>5, <1>6, <2>1
<1>8. nodes[k].seq < nodes[c].seq
  BY <1>1, <1>2, <1>4, <1>7
<1>9. Born(nodes[k]) # Born(n)
  BY <1>1, <1>2, <1>4, <1>7, <1>8
<1>10. Dying(nodes[k]) = Born(n) /\ Family(nodes[k]) = Family(n) /\ nodes[k].pid = n.pid
  BY <1>9 DEF About
<1> QED
  BY <1>2, <1>7, <1>8, <1>10 DEF Ends

\* The lives of an object that is used again do not overlap: each birth is
\* joined to its own death.
THEOREM LifetimesCorrect == Spec => []LifetimesDisjoint
<1>1. NodesInv /\ AllOrNothing => LifetimesDisjoint
  <2> SUFFICES ASSUME NodesInv, AllOrNothing,
                      NEW e \in ToSet(edges), e.kind = "RESOURCE_LIFETIME",
                      NEW f \in ToSet(edges), f.kind = "RESOURCE_LIFETIME",
                      Alternates(nodes[e.from]), Born(nodes[e.from]) = Born(nodes[f.from]),
                      Family(nodes[e.from]) = Family(nodes[f.from]),
                      nodes[e.from].pid = nodes[f.from].pid, e # f
               PROVE  nodes[e.to].seq < nodes[f.from].seq \/ nodes[f.to].seq < nodes[e.from].seq
    BY DEF LifetimesDisjoint
  <2> DEFINE n == nodes[e.from]
  <2>1. nodes \in Seq(Records) /\ e \in EdgesUpto(Len(nodes)) /\ f \in EdgesUpto(Len(nodes))
    BY EdgesOf, AllEdgesAre
  <2>2. /\ e.from \in 1 .. Len(nodes) /\ e.to = LifetimeEnd(nodes, e.from) /\ e.to # 0
        /\ f.from \in 1 .. Len(nodes) /\ f.to = LifetimeEnd(nodes, f.from) /\ f.to # 0
    BY EdgesOf, AllEdgesAre
  <2>3. /\ e.to \in 1 .. Len(nodes) /\ Ends(nodes[e.to], n) /\ nodes[e.to].seq > n.seq
        /\ \A k \in 1 .. Len(nodes) :
             Ends(nodes[k], n) /\ nodes[k].seq > n.seq => nodes[e.to].seq <= nodes[k].seq
    BY <2>1, <2>2, LifetimeEndIs
  <2>4. /\ f.to \in 1 .. Len(nodes) /\ Ends(nodes[f.to], nodes[f.from])
        /\ nodes[f.to].seq > nodes[f.from].seq
        /\ \A k \in 1 .. Len(nodes) :
             Ends(nodes[k], nodes[f.from]) /\ nodes[k].seq > nodes[f.from].seq
             => nodes[f.to].seq <= nodes[k].seq
    BY <2>1, <2>2, LifetimeEndIs
  <2>5. e.from # f.from
    BY <2>1, <2>2 DEF EdgesUpto
  <2>6. Born(n) # None
    BY <2>3 DEF Ends
  <2>7. e.from \in About(n) /\ f.from \in About(n)
    BY <2>2 DEF About
  <2>8. SameContext(nodes[e.from], n) /\ SameContext(nodes[f.from], n)
    BY <2>7 DEF Alternates, About
  <2>9. nodes[e.from].seq # nodes[f.from].seq
    BY <2>2, <2>5, <2>8 DEF NodesInv, SeqsDiffer, SameContext
  <2>10. \A i \in 1 .. Len(nodes) : nodes[i].seq \in Nat
    BY RecordSeq DEF NodesInv, RunInv
  <2>11. CASE nodes[e.from].seq < nodes[f.from].seq
    <3>1. PICK k \in 1 .. Len(nodes) :
            Ends(nodes[k], n) /\ n.seq < nodes[k].seq /\ nodes[k].seq < nodes[f.from].seq
      BY <2>2, <2>6, <2>7, <2>11, DeathBetween
    <3>2. nodes[e.to].seq <= nodes[k].seq
      BY <2>3, <2>10, <2>2, <3>1
    <3> QED
      BY <2>2, <2>3, <2>10, <3>1, <3>2
  <2>12. CASE nodes[f.from].seq < nodes[e.from].seq
    <3>1. Alternates(nodes[f.from]) /\ About(nodes[f.from]) = About(n)
      BY DEF Alternates, About, SameContext
    <3>2. PICK k \in 1 .. Len(nodes) :
            /\ Ends(nodes[k], nodes[f.from]) /\ nodes[f.from].seq < nodes[k].seq
            /\ nodes[k].seq < nodes[e.from].seq
      BY <2>2, <2>6, <2>7, <2>12, <3>1, DeathBetween
    <3>3. nodes[f.to].seq <= nodes[k].seq
      BY <2>4, <2>10, <2>2, <3>2
    <3> QED
      BY <2>2, <2>4, <2>10, <3>2, <3>3
  <2> QED
    BY <2>2, <2>9, <2>10, <2>11, <2>12
<1> QED
  BY <1>1, NodesStay, PTL

-----------------------------------------------------------------------------
(* The heap. *)

\* The parent of a place.
LEMMA ParentIs ==
  ASSUME NEW k \in Nat
  PROVE  /\ k \div 2 \in Nat
         /\ k = 2 * (k \div 2) \/ k = 2 * (k \div 2) + 1
OBVIOUS

\* No place of a heap holds less than its parent, but for the place at.
OrderedBut(h, at) == \A k \in 2 .. Len(h) : k # at => h[k \div 2] <= h[k]
Ordered(h) == \A k \in 2 .. Len(h) : h[k \div 2] <= h[k]

\* A heap of n naturals, the set V, whose value at one place is on its way.
Loaded(s, n, V) ==
  /\ s \in [heap : Seq(Nat), at : Nat]
  /\ s.at \in 1 .. n /\ Len(s.heap) = n
  /\ Once(s.heap) /\ ToSet(s.heap) = V

\* A turn exchanges two values.
LEMMA MovedIs ==
  ASSUME NEW n \in Nat, NEW V, NEW s, Loaded(s, n, V), NEW j \in 1 .. n, j # s.at
  PROVE  /\ Loaded(Moved(s, j), n, V) /\ Moved(s, j).at = j
         /\ Moved(s, j).heap[j] = s.heap[s.at] /\ Moved(s, j).heap[s.at] = s.heap[j]
         /\ \A k \in 1 .. n : k # j /\ k # s.at => Moved(s, j).heap[k] = s.heap[k]
<1> DEFINE h == s.heap
           i == s.at
           g == [h EXCEPT ![i] = h[j], ![j] = h[i]]
           m == Moved(s, j)
<1>1. /\ h \in [1 .. n -> Nat] /\ i \in 1 .. n /\ h \in Seq(Nat) /\ Len(h) = n
      /\ Once(h) /\ ToSet(h) = V
  BY DEF Loaded
<1>2. m.heap = g /\ m.at = j /\ m = [heap |-> g, at |-> j]
  BY DEF Moved
<1> HIDE DEF h, i, m
<1>3. /\ g \in [1 .. n -> Nat] /\ g[j] = h[i] /\ g[i] = h[j]
      /\ \A k \in 1 .. n : k # i /\ k # j => g[k] = h[k]
  BY <1>1 DEF i
<1> HIDE DEF g
<1>4. g \in Seq(Nat) /\ Len(g) = n
  BY <1>3
<1>5. Once(g)
  <2> SUFFICES ASSUME NEW x \in 1 .. n, NEW y \in 1 .. n, g[x] = g[y] PROVE x = y
    BY <1>4 DEF Once
  <2>1. \A a, b \in 1 .. n : h[a] = h[b] => a = b
    BY <1>1 DEF Once
  <2>2. \A a \in 1 .. n : g[a] = h[IF a = i THEN j ELSE IF a = j THEN i ELSE a]
    BY <1>3
  <2>3. (IF x = i THEN j ELSE IF x = j THEN i ELSE x) = (IF y = i THEN j ELSE IF y = j THEN i ELSE y)
    BY <2>1, <2>2, <1>1
  <2> QED
    BY <2>3
<1>6. ToSet(g) = V
  <2>1. ToSet(g) = {g[k] : k \in 1 .. n} /\ V = {h[k] : k \in 1 .. n}
    BY <1>1, <1>3 DEF ToSet
  <2>2. ASSUME NEW k \in 1 .. n PROVE (\E l \in 1 .. n : g[k] = h[l]) /\ (\E l \in 1 .. n : h[k] = g[l])
    BY <1>1, <1>3
  <2> QED
    BY <2>1, <2>2
<1>7. Loaded(m, n, V)
  BY <1>2, <1>4, <1>5, <1>6 DEF Loaded
<1> QED
  BY <1>2, <1>3, <1>7 DEF h, i, m

\* While a value rises, only its own place may hold less than the parent, and
\* what lies below it is no less than what lies above it.
Rising(s, n, V) ==
  /\ Loaded(s, n, V)
  /\ OrderedBut(s.heap, s.at)
  /\ \A k \in 2 .. n : k \div 2 = s.at /\ s.at > 1 => s.heap[s.at \div 2] <= s.heap[k]
Risen(s) == ~(s.at > 1 /\ s.heap[s.at \div 2] > s.heap[s.at])

LEMMA RiseIs ==
  ASSUME NEW n \in Nat, NEW V, NEW s, Rising(s, n, V)
  PROVE  /\ Rising(Rise(s), n, V)
         /\ Risen(s) => Rise(s) = s
         /\ ~Risen(s) => Rise(s).at < s.at
<1>1. CASE Risen(s)
  BY <1>1 DEF Risen, Rise
<1>2. CASE ~Risen(s)
  <2> DEFINE i == s.at
             j == i \div 2
             m == Moved(s, j)
             h == s.heap
             g == m.heap
  <2>1. /\ i \in 1 .. n /\ i > 1 /\ h[j] > h[i] /\ Loaded(s, n, V) /\ Rise(s) = m
        /\ h \in [1 .. n -> Nat] /\ Len(h) = n
    BY <1>2 DEF Risen, Rise, Rising, Loaded
  <2>2. j \in 1 .. n /\ j < i
    BY <2>1
  <2>3. /\ Loaded(m, n, V) /\ m.at = j /\ g[j] = h[i] /\ g[i] = h[j]
        /\ \A k \in 1 .. n : k # j /\ k # i => g[k] = h[k]
    <3>1. Loaded(s, n, V) /\ j \in 1 .. n /\ j # s.at
      BY <2>1, <2>2
    <3> HIDE DEF j
    <3>2. /\ Loaded(Moved(s, j), n, V) /\ Moved(s, j).at = j
          /\ Moved(s, j).heap[j] = s.heap[s.at] /\ Moved(s, j).heap[s.at] = s.heap[j]
          /\ \A k \in 1 .. n : k # j /\ k # s.at => Moved(s, j).heap[k] = s.heap[k]
      BY <3>1, MovedIs
    <3> QED
      BY <3>2
  <2>4. /\ \A k \in 2 .. n : k # i => h[k \div 2] <= h[k]
        /\ \A k \in 2 .. n : k \div 2 = i => h[j] <= h[k]
    BY <2>1 DEF Rising, OrderedBut
  <2>5. g \in [1 .. n -> Nat] /\ Len(g) = n
    BY <2>3 DEF Loaded
  <2> HIDE DEF m, h, g, i
  <2>6. ASSUME NEW k \in 2 .. n PROVE k \in 1 .. n /\ k \div 2 \in 1 .. n /\ k \div 2 # k
    OBVIOUS
  <2>7. ASSUME NEW k \in 2 .. n, k # j PROVE g[k \div 2] <= g[k]
    <3>1. CASE k = i
      BY <3>1, <2>1, <2>2, <2>3
    <3>2. CASE k # i /\ k \div 2 = i
      <4>1. g[k] = h[k] /\ g[i] = h[j] /\ h[j] <= h[k]
        BY <3>2, <2>3, <2>4, <2>6, <2>7
      <4> QED
        BY <4>1, <3>2
    <3>3. CASE k # i /\ k \div 2 = j
      <4>1. g[k] = h[k] /\ g[j] = h[i] /\ h[j] <= h[k]
        BY <3>3, <2>3, <2>4, <2>6, <2>7
      <4>2. h[i] \in Nat /\ h[j] \in Nat /\ h[k] \in Nat
        BY <2>1, <2>2, <2>6
      <4> QED
        BY <4>1, <4>2, <2>1, <3>3
    <3>4. CASE k # i /\ k \div 2 # i /\ k \div 2 # j
      <4>1. g[k] = h[k] /\ g[k \div 2] = h[k \div 2] /\ h[k \div 2] <= h[k]
        BY <3>4, <2>3, <2>4, <2>6, <2>7
      <4> QED
        BY <4>1
    <3> QED
      BY <3>1, <3>2, <3>3, <3>4
  <2>8. ASSUME NEW k \in 2 .. n, k \div 2 = j, j > 1 PROVE g[j \div 2] <= g[k]
    <3>1. j \in 2 .. n /\ j \div 2 \in 1 .. n /\ j \div 2 # j /\ j \div 2 # i /\ j # i
      BY <2>1, <2>2, <2>8
    <3>2. g[j \div 2] = h[j \div 2] /\ h[j \div 2] <= h[j]
      BY <3>1, <2>3, <2>4
    <3>3. h[j \div 2] \in Nat /\ h[j] \in Nat
      BY <3>1, <2>1, <2>2
    <3>4. CASE k = i
      BY <3>2, <3>4, <2>3
    <3>5. CASE k # i
      <4>1. k # j /\ g[k] = h[k] /\ h[j] <= h[k] /\ h[k] \in Nat
        BY <3>5, <2>1, <2>3, <2>4, <2>6, <2>8
      <4> QED
        BY <4>1, <3>2, <3>3
    <3> QED
      BY <3>4, <3>5
  <2>9. Rising(m, n, V)
    <3>1. OrderedBut(g, j)
      BY <2>5, <2>7 DEF OrderedBut
    <3> QED
      BY <3>1, <2>3, <2>8 DEF Rising, g
  <2> QED
    BY <1>2, <2>1, <2>2, <2>3, <2>9 DEF i, m
<1> QED
  BY <1>1, <1>2

\* A heap holds naturals, each once, and none below a larger one.
Heap(h) == h \in Seq(Nat) /\ Once(h) /\ Ordered(h)

\* A push adds the value and keeps the heap.
LEMMA HeapPushIs ==
  ASSUME NEW h, Heap(h), NEW v \in Nat, v \notin ToSet(h)
  PROVE  Heap(HeapPush(h, v)) /\ ToSet(HeapPush(h, v)) = ToSet(h) \cup {v}
<1> DEFINE n == Len(h) + 1
           V == ToSet(h) \cup {v}
           base == [heap |-> Append(h, v), at |-> n]
           S == {s \in [heap : Seq(Nat), at : Nat] : Rising(s, n, V)}
           Body(f, k) == IF k = 0 THEN base ELSE Rise(f[k - 1])
           step == [x \in (1 .. n) \X S |-> Rise(x[2])]
           f == CHOOSE f : f = [k \in 0 .. n |-> Body(f, k)]
<1>1. n \in Nat /\ n >= 1 /\ h \in Seq(Nat) /\ Len(h) = n - 1 /\ Once(h) /\ Ordered(h)
  BY DEF Heap
<1>2. HeapPush(h, v) = f[n].heap
  BY DEF HeapPush
<1>3. \A s : Rising(s, n, V) <=> s \in S
  BY DEF Rising, Loaded
<1>4. base \in S
  <2> DEFINE g == Append(h, v)
  <2>1. g \in Seq(Nat) /\ Len(g) = n /\ g[n] = v /\ \A k \in 1 .. n - 1 : g[k] = h[k]
    BY <1>1
  <2>2. base.heap = g /\ base.at = n /\ base \in [heap : Seq(Nat), at : Nat]
    BY <1>1, <2>1
  <2> HIDE DEF g, base, n
  <2>3. \A k \in 1 .. n - 1 : h[k] # v /\ h[k] \in Nat
    BY <1>1 DEF ToSet
  <2>4. Once(g)
    <3> SUFFICES ASSUME NEW x \in 1 .. n, NEW y \in 1 .. n, g[x] = g[y] PROVE x = y
      BY <2>1 DEF Once
    <3>1. (x = n \/ x \in 1 .. n - 1) /\ (y = n \/ y \in 1 .. n - 1)
      BY <1>1
    <3>2. \A a, b \in 1 .. n - 1 : h[a] = h[b] => a = b
      BY <1>1 DEF Once
    <3> QED
      BY <2>1, <2>3, <3>1, <3>2
  <2>5. ToSet(g) = V
    <3>1. ToSet(g) = {g[k] : k \in 1 .. n} /\ ToSet(h) = {h[k] : k \in 1 .. n - 1}
      <4>1. DOMAIN g = 1 .. n /\ DOMAIN h = 1 .. n - 1
        BY <1>1, <2>1
      <4> QED
        BY <4>1 DEF ToSet
    <3>2. \A k \in 1 .. n : k = n \/ k \in 1 .. n - 1
      BY <1>1
    <3>3. n \in 1 .. n /\ \A k \in 1 .. n - 1 : k \in 1 .. n
      BY <1>1
    <3> QED
      BY <2>1, <3>1, <3>2, <3>3
  <2>6. ASSUME NEW k \in 2 .. n, k # n PROVE g[k \div 2] <= g[k]
    <3>1. k \in 2 .. n - 1 /\ k \in 1 .. n - 1 /\ k \div 2 \in 1 .. n - 1
      BY <1>1, <2>6
    <3>2. h[k \div 2] <= h[k]
      BY <1>1, <3>1 DEF Ordered
    <3> QED
      BY <2>1, <3>1, <3>2
  <2>7. \A k \in 2 .. n : k \div 2 # n
    BY <1>1
  <2>8. Loaded(base, n, V)
    BY <1>1, <2>1, <2>2, <2>4, <2>5 DEF Loaded
  <2>9. Rising(base, n, V)
    BY <2>1, <2>2, <2>6, <2>7, <2>8 DEF Rising, OrderedBut
  <2> QED
    BY <1>3, <2>9
<1> HIDE DEF n, base, S, V
<1>5. \A s \in S : /\ Rise(s) \in S
                   /\ Risen(s) => Rise(s) = s
                   /\ ~Risen(s) => Rise(s).at < s.at
  BY <1>1, <1>3, RiseIs
<1>6. f[0] = base /\ \A k \in 1 .. n : f[k] = Rise(f[k - 1]) /\ f[k - 1] \in S
  <2>1. /\ step \in [(1 .. n) \X S -> S]
        /\ \A k \in 1 .. n, s \in S : step[<<k, s>>] = Rise(s)
    BY <1>5
  <2> HIDE DEF step
  <2>2. PICK g : Takes(g, n, S, base, step)
    BY <1>1, <1>4, <2>1, Iterated
  <2>3. ASSUME NEW k \in 1 .. n PROVE k - 1 \in 0 .. n /\ g[k] = Rise(g[k - 1]) /\ g[k - 1] \in S
    <3>1. k - 1 \in 0 .. n
      BY <1>1
    <3>2. g[k - 1] \in S /\ g[k] = step[<<k, g[k - 1]>>]
      BY <2>2, <3>1 DEF Takes
    <3> QED
      BY <2>1, <3>1, <3>2
  <2>4. \A k \in 0 .. n : g[k] = Body(g, k)
    BY <1>1, <2>2, <2>3 DEF Takes
  <2>5. g = [k \in 0 .. n |-> Body(g, k)]
    <3> HIDE DEF Body
    <3> QED
      BY <2>2, <2>4 DEF Takes
  <2>6. f = [k \in 0 .. n |-> Body(f, k)]
    <3> HIDE DEF Body
    <3> QED
      BY <2>5
  <2>7. \A k \in 0 .. n : f[k] = Body(f, k)
    <3> HIDE DEF Body, f
    <3> QED
      BY <2>6
  <2> DEFINE H == {k \in 0 .. n : f[k] \in S}
  <2>8. 0 \in H
    BY <1>1, <1>4, <2>7
  <2>9. ASSUME NEW k \in 1 .. n, k - 1 \in H PROVE k \in H
    <3>1. f[k] = Rise(f[k - 1]) /\ f[k - 1] \in S /\ k \in 0 .. n
      <4>1. k \in 0 .. n /\ k # 0
        BY <1>1
      <4> QED
        BY <2>7, <2>9, <4>1
    <3> QED
      BY <1>5, <3>1
  <2>10. \A k \in 0 .. n : k \in H
    <3> HIDE DEF H
    <3> QED
      BY <1>1, <2>8, <2>9, UpTo
  <2>11. ASSUME NEW k \in 1 .. n PROVE f[k] = Rise(f[k - 1]) /\ f[k - 1] \in S
    <3>1. k \in 0 .. n /\ k # 0 /\ k - 1 \in 0 .. n
      BY <1>1
    <3> QED
      BY <2>7, <2>10, <3>1
  <2>12. 0 \in 0 .. n
    BY <1>1
  <2> QED
    BY <2>7, <2>11, <2>12
<1> HIDE DEF f
<1> DEFINE H == {k \in 0 .. n : f[k] \in S /\ (Risen(f[k]) \/ f[k].at <= n - k)}
<1>7. 0 \in H
  BY <1>1, <1>4, <1>6 DEF base
<1>8. ASSUME NEW k \in 1 .. n, k - 1 \in H PROVE k \in H
  <2> DEFINE s == f[k - 1]
  <2>1. s \in S /\ (Risen(s) \/ s.at <= n - (k - 1)) /\ f[k] = Rise(s) /\ k \in 0 .. n
    BY <1>1, <1>6, <1>8
  <2>2. Rise(s) \in S
    BY <1>5, <2>1
  <2>3. CASE Risen(s)
    BY <1>5, <2>1, <2>3
  <2>4. CASE ~Risen(s)
    <3>1. Rise(s).at < s.at /\ s.at <= n - (k - 1)
      BY <1>5, <2>1, <2>4
    <3>2. s.at \in Nat /\ Rise(s).at \in Nat
      BY <2>1, <2>2 DEF S
    <3>3. Rise(s).at <= n - k
      BY <1>1, <3>1, <3>2
    <3> QED
      BY <2>1, <2>2, <3>3
  <2> QED
    BY <2>3, <2>4
<1>9. n \in H
  <2> HIDE DEF H
  <2>1. n \in 0 .. n
    BY <1>1
  <2> QED
    BY <1>1, <1>7, <1>8, <2>1, UpTo
<1> DEFINE t == f[n]
<1>10. Rising(t, n, V) /\ Risen(t)
  <2>1. t \in S /\ (Risen(t) \/ t.at <= n - n)
    BY <1>9
  <2>2. Rising(t, n, V) /\ t.at \in 1 .. n
    BY <1>3, <2>1 DEF Rising, Loaded
  <2>3. ~(t.at <= n - n)
    BY <1>1, <2>2
  <2> QED
    BY <2>1, <2>2, <2>3
<1> HIDE DEF t
<1>11. Loaded(t, n, V) /\ Len(t.heap) = n /\ t.heap \in [1 .. n -> Nat] /\ t.at \in 1 .. n
  BY <1>10 DEF Rising, Loaded
<1>12. Ordered(t.heap)
  <2> SUFFICES ASSUME NEW k \in 2 .. n PROVE t.heap[k \div 2] <= t.heap[k]
    BY <1>11 DEF Ordered
  <2>1. CASE k # t.at
    BY <2>1, <1>10, <1>11 DEF Rising, OrderedBut
  <2>2. CASE k = t.at
    <3>1. k \in 1 .. n /\ k \div 2 \in 1 .. n /\ k > 1
      BY <1>1
    <3>2. ~(t.heap[k \div 2] > t.heap[k])
      BY <1>10, <2>2, <3>1 DEF Risen
    <3>3. t.heap[k \div 2] \in Nat /\ t.heap[k] \in Nat
      BY <1>11, <3>1
    <3> QED
      BY <3>2, <3>3
  <2> QED
    BY <2>1, <2>2
<1>13. Heap(t.heap) /\ ToSet(t.heap) = V
  BY <1>11, <1>12 DEF Loaded, Heap
<1> QED
  BY <1>2, <1>13 DEF t, V

\* While a value sinks, only the places below it may hold less than it, and
\* they hold no less than what lies above it.
Sinking(s, n, V) ==
  /\ Loaded(s, n, V)
  /\ \A k \in 2 .. n : k \div 2 # s.at => s.heap[k \div 2] <= s.heap[k]
  /\ \A k \in 2 .. n : k \div 2 = s.at /\ s.at > 1 => s.heap[s.at \div 2] <= s.heap[k]
Sunk(s) == ~(2 * s.at <= Len(s.heap) /\ s.heap[Child(s.heap, s.at)] < s.heap[s.at])

\* The child compared is the smaller one.
LEMMA ChildIs ==
  ASSUME NEW n \in Nat, NEW h \in [1 .. n -> Nat], Len(h) = n, NEW i \in 1 .. n, 2 * i <= n
  PROVE  /\ Child(h, i) \in 2 .. n /\ Child(h, i) \div 2 = i /\ i < Child(h, i)
         /\ \A k \in 2 .. n : k \div 2 = i => h[Child(h, i)] <= h[k]
<1>1. \A k \in 2 .. n : k \div 2 = i => k = 2 * i \/ k = 2 * i + 1
  OBVIOUS
<1>2. 2 * i \in 1 .. n /\ (2 * i + 1 <= n => 2 * i + 1 \in 1 .. n)
  OBVIOUS
<1>3. h[2 * i] \in Nat /\ (2 * i + 1 <= n => h[2 * i + 1] \in Nat)
  BY <1>2
<1>4. CASE 2 * i + 1 <= n /\ h[2 * i + 1] < h[2 * i]
  <2>1. Child(h, i) = 2 * i + 1
    BY <1>4 DEF Child
  <2>2. 2 * i + 1 \in 2 .. n /\ (2 * i + 1) \div 2 = i /\ i < 2 * i + 1
    BY <1>4
  <2>3. \A k \in 2 .. n : k \div 2 = i => h[2 * i + 1] <= h[k]
    BY <1>1, <1>3, <1>4
  <2> QED
    BY <2>1, <2>2, <2>3
<1>5. CASE ~(2 * i + 1 <= n /\ h[2 * i + 1] < h[2 * i])
  <2>1. Child(h, i) = 2 * i
    BY <1>5 DEF Child
  <2>2. 2 * i \in 2 .. n /\ (2 * i) \div 2 = i /\ i < 2 * i
    OBVIOUS
  <2>3. ASSUME NEW k \in 2 .. n, k \div 2 = i PROVE h[2 * i] <= h[k]
    <3>1. k = 2 * i \/ (k = 2 * i + 1 /\ 2 * i + 1 <= n)
      BY <1>1, <2>3
    <3> QED
      BY <3>1, <1>3, <1>5
  <2> QED
    BY <2>1, <2>2, <2>3
<1> QED
  BY <1>4, <1>5

LEMMA SinkIs ==
  ASSUME NEW n \in Nat, NEW V, NEW s, Sinking(s, n, V)
  PROVE  /\ Sinking(Sink(s), n, V)
         /\ Sunk(s) => Sink(s) = s
         /\ ~Sunk(s) => Sink(s).at > s.at
<1>1. CASE Sunk(s)
  BY <1>1 DEF Sunk, Sink
<1>2. CASE ~Sunk(s)
  <2> DEFINE h == s.heap
             i == s.at
             c == Child(h, i)
             m == Moved(s, c)
             g == m.heap
  <2>1. /\ i \in 1 .. n /\ 2 * i <= n /\ h[c] < h[i] /\ Loaded(s, n, V) /\ Sink(s) = m
        /\ h \in [1 .. n -> Nat] /\ Len(h) = n
    BY <1>2 DEF Sunk, Sink, Sinking, Loaded
  <2> HIDE DEF i, h, m, g
  <2>2. /\ c \in 2 .. n /\ c \div 2 = i /\ i < c
        /\ \A k \in 2 .. n : k \div 2 = i => h[c] <= h[k]
    BY <2>1, ChildIs
  <2> HIDE DEF c
  <2>3. /\ Loaded(m, n, V) /\ m.at = c /\ g[c] = h[i] /\ g[i] = h[c]
        /\ \A k \in 1 .. n : k # c /\ k # i => g[k] = h[k]
    <3>1. c \in 1 .. n /\ c # s.at
      BY <2>1, <2>2 DEF i
    <3>2. /\ Loaded(Moved(s, c), n, V) /\ Moved(s, c).at = c
          /\ Moved(s, c).heap[c] = s.heap[s.at] /\ Moved(s, c).heap[s.at] = s.heap[c]
          /\ \A k \in 1 .. n : k # c /\ k # s.at => Moved(s, c).heap[k] = s.heap[k]
      BY <2>1, <3>1, MovedIs
    <3> QED
      BY <3>2 DEF m, g, h, i
  <2>4. /\ \A k \in 2 .. n : k \div 2 # i => h[k \div 2] <= h[k]
        /\ \A k \in 2 .. n : k \div 2 = i /\ i > 1 => h[i \div 2] <= h[k]
    BY DEF Sinking, h, i
  <2>5. g \in [1 .. n -> Nat] /\ Len(g) = n
    BY <2>3 DEF Loaded, g
  <2>6. ASSUME NEW k \in 2 .. n PROVE k \in 1 .. n /\ k \div 2 \in 1 .. n /\ k \div 2 < k
    OBVIOUS
  <2>7. ASSUME NEW k \in 2 .. n, k \div 2 # c PROVE g[k \div 2] <= g[k]
    <3>1. CASE k = c
      BY <3>1, <2>1, <2>2, <2>3
    <3>2. CASE k # c /\ k \div 2 = i
      <4>1. g[i] = h[c] /\ h[c] <= h[k] /\ k # i /\ g[k] = h[k]
        BY <3>2, <2>2, <2>3, <2>6
      <4> QED
        BY <4>1, <3>2
    <3>3. CASE k = i
      <4>1. i > 1 /\ i \div 2 # i /\ i \div 2 # c /\ i \div 2 \in 1 .. n
        BY <3>3, <2>2, <2>6, <2>7
      <4>2. g[i \div 2] = h[i \div 2] /\ g[i] = h[c] /\ h[i \div 2] <= h[c]
        BY <4>1, <2>2, <2>3, <2>4
      <4> QED
        BY <4>2, <3>3
    <3>4. CASE k # c /\ k # i /\ k \div 2 # i
      <4>1. g[k] = h[k] /\ g[k \div 2] = h[k \div 2] /\ h[k \div 2] <= h[k]
        BY <3>4, <2>3, <2>4, <2>6, <2>7
      <4> QED
        BY <4>1
    <3> QED
      BY <3>1, <3>2, <3>3, <3>4
  <2>8. ASSUME NEW k \in 2 .. n, k \div 2 = c PROVE g[c \div 2] <= g[k]
    <3>1. k # c /\ k # i /\ c # i
      BY <2>2, <2>6, <2>8
    <3>2. g[c \div 2] = h[c] /\ g[k] = h[k] /\ h[c] <= h[k]
      BY <3>1, <2>2, <2>3, <2>4, <2>6, <2>8
    <3> QED
      BY <3>2
  <2>9. Sinking(m, n, V)
    BY <2>3, <2>7, <2>8 DEF Sinking, g
  <2> QED
    BY <1>2, <2>1, <2>2, <2>3, <2>9 DEF i
<1> QED
  BY <1>1, <1>2

\* A pop takes the root away and keeps the heap.
LEMMA HeapPopIs ==
  ASSUME NEW h, Heap(h), Len(h) # 0
  PROVE  Heap(HeapPop(h)) /\ ToSet(HeapPop(h)) = ToSet(h) \ {h[1]}
<1> DEFINE n == Len(h) - 1
           V == ToSet(h) \ {h[1]}
           g == [i \in 1 .. n |-> IF i = 1 THEN h[Len(h)] ELSE h[i]]
           base == [heap |-> g, at |-> 1]
           S == {s \in [heap : Seq(Nat), at : Nat] : n # 0 => Sinking(s, n, V)}
           Body(f, k) == IF k = 0 THEN base ELSE Sink(f[k - 1])
           step == [x \in (1 .. n) \X S |-> Sink(x[2])]
           f == CHOOSE f : f = [k \in 0 .. n |-> Body(f, k)]
<1>1. n \in Nat /\ Len(h) = n + 1 /\ h \in [1 .. n + 1 -> Nat] /\ Once(h) /\ Ordered(h)
  BY DEF Heap
<1>2. HeapPop(h) = f[n].heap
  BY DEF HeapPop
<1>3. \A s : n # 0 => (Sinking(s, n, V) <=> s \in S)
  BY DEF Sinking, Loaded
<1>4. g \in [1 .. n -> Nat] /\ g \in Seq(Nat) /\ Len(g) = n /\ base \in [heap : Seq(Nat), at : Nat]
  <2>1. n + 1 \in 1 .. n + 1 /\ \A i \in 1 .. n : i \in 1 .. n + 1
    BY <1>1
  <2>2. g \in [1 .. n -> Nat]
    BY <1>1, <2>1
  <2>3. g \in Seq(Nat) /\ Len(g) = n
    BY <1>1, <2>2
  <2> HIDE DEF g
  <2> QED
    BY <2>2, <2>3
<1>5. ASSUME n # 0 PROVE Sinking(base, n, V)
  <2>1. g[1] = h[n + 1] /\ \A k \in 1 .. n : k # 1 => g[k] = h[k]
    BY <1>1, <1>5
  <2>2. base.heap = g /\ base.at = 1
    OBVIOUS
  <2> HIDE DEF g, base, n
  <2>3. \A a, b \in 1 .. n + 1 : h[a] = h[b] => a = b
    BY <1>1 DEF Once
  <2>4. 1 \in 1 .. n + 1 /\ n + 1 \in 1 .. n + 1 /\ 1 # n + 1 /\ 1 \in 1 .. n
        /\ (\A k \in 1 .. n : k \in 1 .. n + 1 /\ k # n + 1)
        /\ (\A k \in 1 .. n + 1 : k = n + 1 \/ k \in 1 .. n)
    BY <1>1, <1>5
  <2>5. Once(g)
    <3> SUFFICES ASSUME NEW x \in 1 .. n, NEW y \in 1 .. n, g[x] = g[y] PROVE x = y
      BY <1>4 DEF Once
    <3> QED
      BY <2>1, <2>3, <2>4
  <2>6. ToSet(g) = V
    <3>1. ToSet(g) = {g[k] : k \in 1 .. n} /\ ToSet(h) = {h[k] : k \in 1 .. n + 1}
      BY <1>1, <1>4 DEF ToSet
    <3>2. ASSUME NEW k \in 1 .. n PROVE g[k] \in ToSet(h) /\ g[k] # h[1]
      BY <2>1, <2>3, <2>4, <3>1
    <3>3. ASSUME NEW k \in 1 .. n + 1, h[k] # h[1] PROVE \E l \in 1 .. n : g[l] = h[k]
      BY <2>1, <2>4, <3>3
    <3> QED
      BY <3>1, <3>2, <3>3
  <2>7. ASSUME NEW k \in 2 .. n, k \div 2 # 1 PROVE g[k \div 2] <= g[k]
    <3>1. k \in 2 .. n + 1 /\ k \in 1 .. n /\ k # 1 /\ k \div 2 \in 1 .. n
      BY <1>1
    <3>2. h[k \div 2] <= h[k]
      BY <1>1, <3>1 DEF Ordered
    <3> QED
      BY <2>1, <2>7, <3>1, <3>2
  <2>8. Loaded(base, n, V)
    BY <1>1, <1>4, <2>2, <2>4, <2>5, <2>6 DEF Loaded
  <2> QED
    BY <2>2, <2>7, <2>8 DEF Sinking
<1>6. base \in S
  BY <1>4, <1>5
<1> HIDE DEF n, g, base, S, V
<1>7. n # 0 => \A s \in S : /\ Sink(s) \in S
                            /\ Sunk(s) => Sink(s) = s
                            /\ ~Sunk(s) => Sink(s).at > s.at
  BY <1>1, <1>3, SinkIs
<1>8. /\ f[0] = base
      /\ \A k \in 1 .. n : f[k] = Sink(f[k - 1]) /\ f[k - 1] \in S
  <2>1. /\ step \in [(1 .. n) \X S -> S]
        /\ \A k \in 1 .. n, s \in S : step[<<k, s>>] = Sink(s)
    <3>1. \A k \in 1 .. n : n # 0
      BY <1>1
    <3> QED
      BY <1>7, <3>1
  <2> HIDE DEF step
  <2>2. PICK e : Takes(e, n, S, base, step)
    BY <1>1, <1>6, <2>1, Iterated
  <2>3. ASSUME NEW k \in 1 .. n PROVE k - 1 \in 0 .. n /\ e[k] = Sink(e[k - 1]) /\ e[k - 1] \in S
    <3>1. k - 1 \in 0 .. n
      BY <1>1
    <3>2. e[k - 1] \in S /\ e[k] = step[<<k, e[k - 1]>>]
      BY <2>2, <3>1 DEF Takes
    <3> QED
      BY <2>1, <3>1, <3>2
  <2>4. \A k \in 0 .. n : e[k] = Body(e, k)
    BY <1>1, <2>2, <2>3 DEF Takes
  <2>5. e = [k \in 0 .. n |-> Body(e, k)]
    <3> HIDE DEF Body
    <3> QED
      BY <2>2, <2>4 DEF Takes
  <2>6. f = [k \in 0 .. n |-> Body(f, k)]
    <3> HIDE DEF Body
    <3> QED
      BY <2>5
  <2>7. \A k \in 0 .. n : f[k] = Body(f, k)
    <3> HIDE DEF Body, f
    <3> QED
      BY <2>6
  <2> DEFINE H == {k \in 0 .. n : f[k] \in S}
  <2>8. 0 \in H
    BY <1>1, <1>6, <2>7
  <2>9. ASSUME NEW k \in 1 .. n, k - 1 \in H PROVE k \in H
    <3>1. f[k] = Sink(f[k - 1]) /\ f[k - 1] \in S /\ k \in 0 .. n /\ n # 0
      <4>1. k \in 0 .. n /\ k # 0 /\ n # 0
        BY <1>1
      <4> QED
        BY <2>7, <2>9, <4>1
    <3> QED
      BY <1>7, <3>1
  <2>10. \A k \in 0 .. n : k \in H
    <3> HIDE DEF H
    <3> QED
      BY <1>1, <2>8, <2>9, UpTo
  <2>11. ASSUME NEW k \in 1 .. n PROVE f[k] = Sink(f[k - 1]) /\ f[k - 1] \in S
    <3>1. k \in 0 .. n /\ k # 0 /\ k - 1 \in 0 .. n
      BY <1>1
    <3> QED
      BY <2>7, <2>10, <3>1
  <2>12. 0 \in 0 .. n
    BY <1>1
  <2> QED
    BY <2>7, <2>11, <2>12
<1> HIDE DEF f
<1>9. CASE n = 0
  <2>1. HeapPop(h) = g
    BY <1>2, <1>8, <1>9 DEF base
  <2>2. g = <<>> /\ Len(<<>>) = 0
    BY <1>4, <1>9, EmptySeq
  <2>3. Heap(<<>>) /\ ToSet(<<>>) = {}
    BY DEF Heap, Once, Ordered, ToSet
  <2>4. V = {}
    <3>1. ToSet(h) = {h[k] : k \in 1 .. 1}
      BY <1>1, <1>9 DEF ToSet
    <3> QED
      BY <3>1 DEF V
  <2> QED
    BY <2>1, <2>2, <2>3, <2>4 DEF V
<1>10. CASE n # 0
  <2> DEFINE H == {k \in 0 .. n : f[k] \in S /\ (Sunk(f[k]) \/ f[k].at > k)}
  <2>1. 0 \in H
    <3>1. f[0] = base /\ base.at = 1 /\ 0 \in 0 .. n
      BY <1>1, <1>8 DEF base
    <3> QED
      BY <3>1, <1>6
  <2>2. ASSUME NEW k \in 1 .. n, k - 1 \in H PROVE k \in H
    <3> DEFINE s == f[k - 1]
    <3>1. s \in S /\ (Sunk(s) \/ s.at > k - 1) /\ f[k] = Sink(s) /\ k \in 0 .. n
      BY <1>1, <1>8, <2>2
    <3>2. Sink(s) \in S
      BY <1>7, <1>10, <3>1
    <3>3. CASE Sunk(s)
      BY <1>7, <1>10, <3>1, <3>3
    <3>4. CASE ~Sunk(s)
      <4>1. Sink(s).at > s.at /\ s.at > k - 1
        BY <1>7, <1>10, <3>1, <3>4
      <4>2. s.at \in Nat /\ Sink(s).at \in Nat
        BY <3>1, <3>2 DEF S
      <4>3. Sink(s).at > k
        BY <4>1, <4>2
      <4> QED
        BY <3>1, <3>2, <4>3
    <3> QED
      BY <3>3, <3>4
  <2>3. n \in H
    <3> HIDE DEF H
    <3>1. n \in 0 .. n
      BY <1>1
    <3> QED
      BY <1>1, <2>1, <2>2, <3>1, UpTo
  <2> DEFINE t == f[n]
  <2>4. Sinking(t, n, V) /\ Sunk(t)
    <3>1. t \in S /\ (Sunk(t) \/ t.at > n)
      BY <2>3
    <3>2. Sinking(t, n, V) /\ t.at \in 1 .. n
      BY <1>3, <1>10, <3>1 DEF Sinking, Loaded
    <3>3. ~(t.at > n)
      BY <1>1, <3>2
    <3> QED
      BY <3>1, <3>2, <3>3
  <2> HIDE DEF t
  <2>5. Loaded(t, n, V) /\ Len(t.heap) = n /\ t.heap \in [1 .. n -> Nat] /\ t.at \in 1 .. n
    BY <2>4 DEF Sinking, Loaded
  <2>6. Ordered(t.heap)
    <3> SUFFICES ASSUME NEW k \in 2 .. n PROVE t.heap[k \div 2] <= t.heap[k]
      BY <2>5 DEF Ordered
    <3>1. CASE k \div 2 # t.at
      BY <3>1, <2>4 DEF Sinking
    <3>2. CASE k \div 2 = t.at
      <4> DEFINE c == Child(t.heap, t.at)
      <4>1. 2 * t.at <= n
        BY <1>1, <2>5, <3>2
      <4>2. c \in 1 .. n /\ t.heap[c] <= t.heap[k]
        <5>1. c \in 2 .. n /\ t.heap[c] <= t.heap[k]
          BY <1>1, <2>5, <3>2, <4>1, ChildIs
        <5> QED
          BY <5>1
      <4>3. ~(t.heap[c] < t.heap[t.at])
        BY <2>4, <2>5, <4>1 DEF Sunk
      <4>4. t.heap[c] \in Nat /\ t.heap[t.at] \in Nat /\ t.heap[k] \in Nat
        BY <2>5, <4>2
      <4> HIDE DEF c
      <4> QED
        BY <3>2, <4>2, <4>3, <4>4
    <3> QED
      BY <3>1, <3>2
  <2>7. Heap(t.heap) /\ ToSet(t.heap) = V
    BY <2>5, <2>6 DEF Loaded, Heap
  <2> QED
    BY <1>2, <2>7 DEF t, V
<1> QED
  BY <1>9, <1>10

\* The root of a heap is its least value.
LEMMA RootIsLeast ==
  ASSUME NEW h, Heap(h), Len(h) # 0
  PROVE  h[1] \in ToSet(h) /\ \A v \in ToSet(h) : h[1] <= v
<1> DEFINE n == Len(h)
           H == {k \in 1 .. n : ~(h[1] <= h[k])}
<1>1. n \in Nat /\ n >= 1 /\ h \in [1 .. n -> Nat] /\ Ordered(h) /\ ToSet(h) = {h[k] : k \in 1 .. n}
  BY DEF Heap, ToSet
<1> HIDE DEF n
<1>2. H = {}
  <2> SUFFICES ASSUME H # {} PROVE FALSE
    OBVIOUS
  <2>1. H \in SUBSET Nat
    BY <1>1
  <2>2. PICK k \in H : \A y \in H : k <= y
    <3> HIDE DEF H
    <3> QED
      BY <2>1, LeastNatural
  <2>3. k \in 2 .. n
    <3>1. k # 1
      BY <1>1, <2>2
    <3> QED
      BY <2>2, <3>1
  <2>4. k \div 2 \in 1 .. n /\ ~(k <= k \div 2) /\ h[k \div 2] <= h[k]
    BY <1>1, <2>3 DEF Ordered, n
  <2>5. h[1] <= h[k \div 2]
    BY <2>2, <2>4
  <2>6. h[1] \in Nat /\ h[k] \in Nat /\ h[k \div 2] \in Nat
    BY <1>1, <2>3, <2>4
  <2> QED
    BY <2>2, <2>4, <2>5, <2>6
<1> QED
  BY <1>1, <1>2

\* The nodes that became ready join the heap, the others do not.
LEMMA WithReadyIs ==
  ASSUME NEW h, Heap(h), NEW waits, NEW is \in Seq(Nat), Once(is),
         \A i \in ToSet(is) : waits[i] = 0 => i \notin ToSet(h)
  PROVE  /\ Heap(WithReady(h, waits, is))
         /\ ToSet(WithReady(h, waits, is)) = ToSet(h) \cup {i \in ToSet(is) : waits[i] = 0}
<1> DEFINE n == Len(is)
           New(k) == {is[j] : j \in {l \in 1 .. k : waits[is[l]] = 0}}
           Good(g, k) == Heap(g) /\ ToSet(g) = ToSet(h) \cup New(k)
           S == {g \in Seq(Nat) : Heap(g)}
           step == [x \in (1 .. n) \X S |->
                      IF Good(x[2], x[1] - 1) THEN Join(x[2], waits, is[x[1]]) ELSE x[2]]
           Body(f, k) == IF k = 0 THEN h ELSE Join(f[k - 1], waits, is[k])
           f == CHOOSE f : f = [k \in 0 .. n |-> Body(f, k)]
<1>1. n \in Nat /\ is \in [1 .. n -> Nat] /\ ToSet(is) = {is[k] : k \in 1 .. n}
  BY DEF ToSet
<1>2. WithReady(h, waits, is) = f[n]
  BY DEF WithReady
<1> HIDE DEF n
<1>3. h \in S
  BY DEF Heap
<1>4. \A g : Heap(g) => g \in S
  BY DEF Heap
<1>5. ASSUME NEW k \in 1 .. n, NEW g \in S, Good(g, k - 1)
      PROVE  Join(g, waits, is[k]) \in S /\ Good(Join(g, waits, is[k]), k)
  <2>1. is[k] \in Nat /\ is[k] \in ToSet(is)
    BY <1>1
  <2>2. \A j \in 1 .. k - 1 : is[j] # is[k]
    BY <1>1 DEF Once, n
  <2>3. is[k] \notin New(k - 1)
    BY <2>2
  <2>4. CASE waits[is[k]] = 0
    <3>1. New(k) = New(k - 1) \cup {is[k]}
      <4>1. \A j \in 1 .. k : j = k \/ j \in 1 .. k - 1
        BY <1>1
      <4>2. \A j \in 1 .. k - 1 : j \in 1 .. k
        BY <1>1
      <4>3. k \in 1 .. k
        BY <1>1
      <4> QED
        BY <2>4, <4>1, <4>2, <4>3
    <3> HIDE DEF New
    <3>2. is[k] \notin ToSet(g)
      BY <1>5, <2>1, <2>3, <2>4
    <3>3. Heap(HeapPush(g, is[k])) /\ ToSet(HeapPush(g, is[k])) = ToSet(g) \cup {is[k]}
      BY <1>5, <2>1, <3>2, HeapPushIs
    <3>4. Join(g, waits, is[k]) = HeapPush(g, is[k])
      BY <2>4 DEF Join
    <3> HIDE DEF S
    <3> QED
      BY <1>4, <1>5, <3>1, <3>3, <3>4
  <2>5. CASE waits[is[k]] # 0
    <3>1. New(k) = New(k - 1)
      <4>1. \A j \in 1 .. k : j = k \/ j \in 1 .. k - 1
        BY <1>1
      <4>2. \A j \in 1 .. k - 1 : j \in 1 .. k
        BY <1>1
      <4> QED
        BY <2>5, <4>1, <4>2
    <3>2. Join(g, waits, is[k]) = g
      BY <2>5 DEF Join
    <3> HIDE DEF New
    <3> QED
      BY <1>5, <3>1, <3>2
  <2> QED
    BY <2>4, <2>5
<1>6. Good(h, 0)
  <2>1. New(0) = {}
    OBVIOUS
  <2> HIDE DEF New
  <2> QED
    BY <2>1
<1> HIDE DEF Good, S
<1>7. Good(f[n], n)
  <2>1. /\ step \in [(1 .. n) \X S -> S]
        /\ \A k \in 1 .. n, g \in S :
             step[<<k, g>>] = IF Good(g, k - 1) THEN Join(g, waits, is[k]) ELSE g
    <3>1. \A x \in (1 .. n) \X S : x[1] \in 1 .. n /\ x[2] \in S
      OBVIOUS
    <3> QED
      BY <1>5, <3>1
  <2> HIDE DEF step
  <2>2. PICK e : Takes(e, n, S, h, step)
    BY <1>1, <1>3, <2>1, Iterated
  <2> DEFINE H == {k \in 0 .. n : e[k] \in S /\ Good(e[k], k)}
  <2>3. 0 \in H
    BY <1>1, <1>3, <1>6, <2>2 DEF Takes
  <2>4. ASSUME NEW k \in 1 .. n, k - 1 \in H
        PROVE  k \in H /\ e[k] = Join(e[k - 1], waits, is[k])
    <3>1. e[k] = step[<<k, e[k - 1]>>] /\ e[k - 1] \in S /\ Good(e[k - 1], k - 1)
      BY <2>2, <2>4 DEF Takes
    <3>2. e[k] = Join(e[k - 1], waits, is[k])
      BY <2>1, <3>1
    <3>3. k \in 0 .. n
      BY <1>1
    <3> QED
      BY <1>5, <3>1, <3>2, <3>3
  <2>5. \A k \in 0 .. n : k \in H
    <3> HIDE DEF H
    <3> QED
      BY <1>1, <2>3, <2>4, UpTo
  <2>6. ASSUME NEW k \in 1 .. n PROVE k - 1 \in H /\ e[k] = Join(e[k - 1], waits, is[k])
    <3>1. k - 1 \in 0 .. n
      BY <1>1
    <3> HIDE DEF H
    <3> QED
      BY <2>4, <2>5, <3>1
  <2>7. \A k \in 0 .. n : e[k] = Body(e, k)
    BY <1>1, <2>2, <2>6 DEF Takes
  <2>8. e = [k \in 0 .. n |-> Body(e, k)]
    <3> HIDE DEF Body
    <3> QED
      BY <2>2, <2>7 DEF Takes
  <2>9. f = [k \in 0 .. n |-> Body(f, k)]
    <3> HIDE DEF Body
    <3> QED
      BY <2>8
  <2>10. \A k \in 0 .. n : f[k] = Body(f, k)
    <3> HIDE DEF Body, f
    <3> QED
      BY <2>9
  <2> DEFINE G == {k \in 0 .. n : f[k] \in S /\ Good(f[k], k)}
  <2>11. 0 \in G
    BY <1>1, <1>3, <1>6, <2>10
  <2>12. ASSUME NEW k \in 1 .. n, k - 1 \in G PROVE k \in G
    <3>1. f[k] = Join(f[k - 1], waits, is[k]) /\ k \in 0 .. n
      <4>1. k \in 0 .. n /\ k # 0
        BY <1>1
      <4> HIDE DEF f
      <4> QED
        BY <2>10, <4>1
    <3> HIDE DEF f
    <3> QED
      BY <1>5, <2>12, <3>1
  <2>13. \A k \in 0 .. n : k \in G
    <3> HIDE DEF G
    <3> QED
      BY <1>1, <2>11, <2>12, UpTo
  <2>14. n \in 0 .. n
    BY <1>1
  <2> HIDE DEF f
  <2> QED
    BY <2>13, <2>14
<1> HIDE DEF f
<1>8. Heap(f[n]) /\ ToSet(f[n]) = ToSet(h) \cup New(n)
  <2>1. Good(f[n], n)
    BY <1>7
  <2> HIDE DEF New
  <2> QED
    BY <2>1 DEF Good
<1>9. New(n) = {i \in ToSet(is) : waits[i] = 0}
  BY <1>1
<1> QED
  BY <1>2, <1>8, <1>9

-----------------------------------------------------------------------------
(* The arcs. *)

\* add_arc keeps the list free of repetition.
LEMMA AddArcIs ==
  ASSUME NEW T, NEW targets \in Seq(T), NEW from, NEW to \in T
  PROVE  /\ AddArc(targets, from, to) \in Seq(T)
         /\ ToSet(AddArc(targets, from, to)) = ToSet(targets) \cup ({to} \ {from})
         /\ Once(targets) => Once(AddArc(targets, from, to))
<1>1. CASE from = to \/ to \in ToSet(targets)
  BY <1>1 DEF AddArc
<1>2. CASE ~(from = to \/ to \in ToSet(targets))
  <2>1. AddArc(targets, from, to) = <<to>> \o targets
    BY <1>2 DEF AddArc
  <2>2. <<to>> \in Seq(T) /\ ToSet(<<to>>) = {to} /\ Once(<<to>>)
    BY DEF ToSet, Once
  <2> DEFINE one == <<to>>
  <2>3. one \in Seq(T) /\ ToSet(one) = {to} /\ Once(one)
    BY <2>2
  <2> HIDE DEF one
  <2>4. /\ one \o targets \in Seq(T)
        /\ ToSet(one \o targets) = ToSet(one) \cup ToSet(targets)
        /\ Once(one) /\ Once(targets) /\ ToSet(one) \cap ToSet(targets) = {} => Once(one \o targets)
    BY <2>3, ConcatIs
  <2>5. ToSet(one) \cap ToSet(targets) = {}
    BY <1>2, <2>3
  <2> QED
    BY <1>2, <2>1, <2>3, <2>4, <2>5 DEF one
<1> QED
  BY <1>1, <1>2

\* A node has one next node in its context, or none.
LEMMA NextIsUnique ==
  ASSUME NEW ns \in Seq(Records), NEW i \in 1 .. Len(ns),
         NEW j \in ContextNext(ns, i), NEW k \in ContextNext(ns, i)
  PROVE  j = k /\ j \in 1 .. Len(ns)
<1>1. /\ j \in 1 .. Len(ns) /\ SameContext(ns[i], ns[j]) /\ Earlier(ns, i, j)
      /\ k \in 1 .. Len(ns) /\ SameContext(ns[i], ns[k]) /\ Earlier(ns, i, k)
      /\ ~Earlier(ns, k, j) /\ ~Earlier(ns, j, k)
  BY DEF ContextNext
<1>2. ns[j].seq \in 1 .. MaxSeq /\ ns[k].seq \in 1 .. MaxSeq
  BY <1>1, RecordSeq
<1>3. ns[j].seq \in Int /\ ns[k].seq \in Int
  BY <1>2
<1> QED
  BY <1>1, <1>3 DEF Earlier

\* Where the edges es lead from node i; a node is no successor of itself.
Successors(ns, es, i) ==
  ({es[k].to : k \in {l \in 1 .. Len(es) : es[l].from = i}} \ {i}) \cup ContextNext(ns, i)

LEMMA ArcsFromAre ==
  ASSUME NEW ns \in Seq(Records), NEW es, Len(es) \in Nat,
         \A k \in 1 .. Len(es) : es[k].to \in 1 .. Len(ns), NEW i \in 1 .. Len(ns)
  PROVE  /\ ArcsFrom(ns, es, i) \in Seq(1 .. Len(ns)) /\ Once(ArcsFrom(ns, es, i))
         /\ ToSet(ArcsFrom(ns, es, i)) = Successors(ns, es, i)
<1> DEFINE n == Len(es)
           T == 1 .. Len(ns)
           Heads(k) == {es[j].to : j \in {l \in 1 .. k : es[l].from = i}} \ {i}
           step == [x \in (1 .. n) \X Seq(T) |-> WithEdge(x[2], i, es[x[1]])]
           Body(f, k) == IF k = 0 THEN <<>> ELSE WithEdge(f[k - 1], i, es[k])
           f == CHOOSE f : f = [k \in 0 .. n |-> Body(f, k)]
           next == ContextNext(ns, i)
<1>1. n \in Nat /\ \A k \in 1 .. n : es[k].to \in T
  OBVIOUS
<1>2. ArcsFrom(ns, es, i) = IF next = {} THEN f[n] ELSE AddArc(f[n], i, CHOOSE j \in next : TRUE)
  BY DEF ArcsFrom
<1> HIDE DEF n, T
<1>3. ASSUME NEW t \in Seq(T), NEW k \in 1 .. n
      PROVE  /\ WithEdge(t, i, es[k]) \in Seq(T)
             /\ Once(t) => Once(WithEdge(t, i, es[k]))
             /\ ToSet(WithEdge(t, i, es[k]))
                  = IF es[k].from = i THEN ToSet(t) \cup ({es[k].to} \ {i}) ELSE ToSet(t)
  <2>1. CASE es[k].from = i
    <3>1. WithEdge(t, i, es[k]) = AddArc(t, i, es[k].to) /\ es[k].to \in T
      BY <1>1, <2>1 DEF WithEdge
    <3> QED
      BY <2>1, <3>1, AddArcIs
  <2>2. CASE es[k].from # i
    BY <2>2 DEF WithEdge
  <2> QED
    BY <2>1, <2>2
<1>4. f[0] = <<>> /\ \A k \in 1 .. n : f[k] = WithEdge(f[k - 1], i, es[k])
  <2>1. /\ step \in [(1 .. n) \X Seq(T) -> Seq(T)]
        /\ \A k \in 1 .. n, t \in Seq(T) : step[<<k, t>>] = WithEdge(t, i, es[k])
    BY <1>3
  <2>2. <<>> \in Seq(T)
    OBVIOUS
  <2> HIDE DEF step
  <2>3. PICK e : Takes(e, n, Seq(T), <<>>, step)
    BY <1>1, <2>1, <2>2, Iterated
  <2>4. ASSUME NEW k \in 1 .. n PROVE k - 1 \in 0 .. n /\ e[k] = WithEdge(e[k - 1], i, es[k])
    <3>1. k - 1 \in 0 .. n
      BY <1>1
    <3>2. e[k - 1] \in Seq(T) /\ e[k] = step[<<k, e[k - 1]>>]
      BY <2>3, <3>1 DEF Takes
    <3> QED
      BY <2>1, <3>1, <3>2
  <2>5. \A k \in 0 .. n : e[k] = Body(e, k)
    BY <1>1, <2>3, <2>4 DEF Takes
  <2>6. e = [k \in 0 .. n |-> Body(e, k)]
    <3> HIDE DEF Body
    <3> QED
      BY <2>3, <2>5 DEF Takes
  <2>7. f = [k \in 0 .. n |-> Body(f, k)]
    <3> HIDE DEF Body
    <3> QED
      BY <2>6
  <2>8. \A k \in 0 .. n : f[k] = Body(f, k)
    <3> HIDE DEF Body, f
    <3> QED
      BY <2>7
  <2> HIDE DEF f
  <2> QED
    BY <1>1, <2>8
<1> HIDE DEF f
<1> DEFINE Good(k) == f[k] \in Seq(T) /\ Once(f[k]) /\ ToSet(f[k]) = Heads(k)
           H == {k \in 0 .. n : Good(k)}
<1>5. 0 \in H
  <2>1. <<>> \in Seq(T) /\ Once(<<>>) /\ ToSet(<<>>) = {}
    BY DEF Once, ToSet
  <2>2. Heads(0) = {} /\ 0 \in 0 .. n
    BY <1>1
  <2> QED
    BY <1>4, <2>1, <2>2
<1>6. ASSUME NEW k \in 1 .. n, k - 1 \in H PROVE k \in H
  <2>1. f[k] = WithEdge(f[k - 1], i, es[k]) /\ Good(k - 1) /\ k \in 0 .. n
    BY <1>1, <1>4, <1>6
  <2>2. \A j \in 1 .. k : j = k \/ j \in 1 .. k - 1
    BY <1>1
  <2>3. k \in 1 .. k /\ \A j \in 1 .. k - 1 : j \in 1 .. k
    BY <1>1
  <2>4. Heads(k) = IF es[k].from = i THEN Heads(k - 1) \cup ({es[k].to} \ {i}) ELSE Heads(k - 1)
    <3>1. ASSUME NEW x
          PROVE  x \in Heads(k) <=> x \in Heads(k - 1) \/ (es[k].from = i /\ x = es[k].to /\ x # i)
      BY <2>2, <2>3
    <3> HIDE DEF Heads
    <3>2. CASE es[k].from = i
      <4>1. Heads(k) = Heads(k - 1) \cup ({es[k].to} \ {i})
        BY <3>1, <3>2
      <4> QED
        BY <3>2, <4>1
    <3>3. CASE es[k].from # i
      <4>1. Heads(k) = Heads(k - 1)
        BY <3>1, <3>3
      <4> QED
        BY <3>3, <4>1
    <3> QED
      BY <3>2, <3>3
  <2> HIDE DEF Heads
  <2>5. Good(k)
    <3> DEFINE t == f[k - 1]
    <3>1. t \in Seq(T) /\ Once(t) /\ ToSet(t) = Heads(k - 1) /\ f[k] = WithEdge(t, i, es[k])
      BY <2>1
    <3> HIDE DEF t
    <3>2. /\ WithEdge(t, i, es[k]) \in Seq(T)
          /\ Once(WithEdge(t, i, es[k]))
          /\ ToSet(WithEdge(t, i, es[k]))
               = IF es[k].from = i THEN ToSet(t) \cup ({es[k].to} \ {i}) ELSE ToSet(t)
      BY <1>3, <3>1
    <3> QED
      BY <2>4, <3>1, <3>2
  <2> QED
    BY <2>1, <2>5
<1>7. Good(n)
  <2> HIDE DEF H, Good
  <2>1. n \in 0 .. n
    BY <1>1
  <2>2. n \in H
    BY <1>1, <1>5, <1>6, <2>1, UpTo
  <2> QED
    BY <2>2 DEF H
<1>8. Successors(ns, es, i) = Heads(n) \cup next
  BY DEF Successors, n
<1> HIDE DEF Heads
<1>9. CASE next = {}
  BY <1>2, <1>7, <1>8, <1>9 DEF T
<1>10. CASE next # {}
  <2> DEFINE j == CHOOSE j \in next : TRUE
  <2>1. j \in next
    BY <1>10
  <2>2. next = {j} /\ j \in T /\ j # i
    <3>1. \A k \in next : k = j /\ j \in 1 .. Len(ns)
      BY <2>1, NextIsUnique
    <3>2. Earlier(ns, i, j)
      BY <2>1 DEF ContextNext
    <3>3. ns[i].seq \in 1 .. MaxSeq
      BY RecordSeq
    <3>4. ~Earlier(ns, i, i)
      BY <3>3 DEF Earlier
    <3> HIDE DEF next, j
    <3> QED
      BY <2>1, <3>1, <3>2, <3>4 DEF T
  <2> HIDE DEF j
  <2>3. /\ AddArc(f[n], i, j) \in Seq(T) /\ Once(AddArc(f[n], i, j))
        /\ ToSet(AddArc(f[n], i, j)) = ToSet(f[n]) \cup {j}
    BY <1>7, <2>2, AddArcIs
  <2>4. ArcsFrom(ns, es, i) = AddArc(f[n], i, j)
    BY <1>2, <1>10 DEF j
  <2> HIDE DEF next
  <2> QED
    BY <1>7, <1>8, <2>2, <2>3, <2>4 DEF T
<1> QED
  BY <1>9, <1>10

-----------------------------------------------------------------------------
(* The edges. *)

\* The call stream numbers the records of a context upwards, and so does the
\* resource stream: what the gate lets through is in order.
Ascending(ns) ==
  \A i, j \in 1 .. Len(ns) :
    i < j /\ SameContext(ns[i], ns[j]) /\ (Call(ns[i]) <=> Call(ns[j])) => ns[i].seq < ns[j].seq

LEMMA IngestAscends ==
  ASSUME NodesInv, Ascending(nodes), NEW rec \in Records, InOrder(rec), Ingest(rec)
  PROVE  Ascending(nodes)'
<1>1. CASE nodes' = nodes
  BY <1>1 DEF Ascending
<1>2. CASE nodes' = Append(nodes, rec)
  <2>1. /\ Len(nodes) \in Nat /\ Len(nodes') = Len(nodes) + 1
        /\ nodes'[Len(nodes) + 1] = rec
        /\ \A i \in 1 .. Len(nodes) : nodes'[i] = nodes[i]
    BY <1>2 DEF NodesInv, RunInv
  <2>2. ASSUME NEW i \in 1 .. Len(nodes), SameContext(nodes[i], rec), Call(nodes[i]) <=> Call(rec)
        PROVE  nodes[i].seq < rec.seq
    <3>1. Call(nodes[i]) = Call(rec)
      BY <2>2 DEF Call
    <3> QED
      BY <2>2, <3>1 DEF InOrder
  <2> SUFFICES ASSUME NEW i \in 1 .. Len(nodes'), NEW j \in 1 .. Len(nodes'), i < j,
                      SameContext(nodes'[i], nodes'[j]), Call(nodes'[i]) <=> Call(nodes'[j])
               PROVE  nodes'[i].seq < nodes'[j].seq
    BY DEF Ascending
  <2>3. i \in 1 .. Len(nodes) /\ (j = Len(nodes) + 1 \/ j \in 1 .. Len(nodes))
    BY <2>1
  <2>4. CASE j \in 1 .. Len(nodes)
    BY <2>1, <2>3, <2>4 DEF Ascending
  <2>5. CASE j = Len(nodes) + 1
    <3>1. nodes'[i] = nodes[i] /\ nodes'[j] = rec
      BY <2>1, <2>3, <2>5
    <3>2. SameContext(nodes[i], rec) /\ (Call(nodes[i]) <=> Call(rec))
      BY <3>1
    <3> QED
      BY <2>2, <2>3, <3>1, <3>2
  <2> QED
    BY <2>3, <2>4, <2>5
<1> QED
  BY <1>1, <1>2 DEF Ingest

\* What a model is, from the first record on.
ModelInv == NodesInv /\ AllOrNothing /\ Ascending(nodes)

LEMMA ModelStays == Spec => []ModelInv
<1>1. Init => Ascending(nodes)
  <2> SUFFICES ASSUME Init PROVE Ascending(nodes)
    OBVIOUS
  <2>1. Len(nodes) = 0
    BY DEF Init
  <2> QED
    BY <2>1 DEF Ascending
<1>2. NodesInv /\ Ascending(nodes) /\ [Next]_model => Ascending(nodes)'
  <2> SUFFICES ASSUME NodesInv, Ascending(nodes), [Next]_model PROVE Ascending(nodes)'
    OBVIOUS
  <2>1. ASSUME NEW rec \in Records, Admissible(rec), Ingest(rec) PROVE Ascending(nodes)'
    BY <2>1, IngestAscends DEF Admissible
  <2>2. CASE UNCHANGED nodes
    BY <2>2 DEF Ascending
  <2>3. ASSUME NEW rec \in Records, IngestFails(rec) PROVE UNCHANGED nodes
    BY <2>3 DEF IngestFails
  <2>4. Finish \/ FinishFails \/ UNCHANGED model => UNCHANGED nodes
    BY DEF Finish, FinishFails, model
  <2> QED
    BY <2>1, <2>2, <2>3, <2>4 DEF Next
<1>3. NodesInv /\ AllOrNothing /\ Ascending(nodes) <=> ModelInv
  BY DEF ModelInv
<1> QED
  BY <1>1, <1>2, <1>3, NodesStay, PTL DEF Spec

\* An edge goes on in one process, to a later number, or from a fork to its
\* child, another process.
GoesOn(ns, i, j) ==
  \/ ns[i].pid = ns[j].pid /\ ns[i].seq < ns[j].seq
  \/ ns[i].kind \in ForkKinds /\ ns[j].pid = ns[i].child /\ ns[i].pid # ns[j].pid

LEMMA EdgesGoOn ==
  ASSUME ModelInv, NEW e \in ToSet(edges)
  PROVE  /\ e.from \in 1 .. Len(nodes) /\ e.to \in 1 .. Len(nodes)
         /\ GoesOn(nodes, e.from, e.to)
<1> DEFINE ns == nodes
<1>1. /\ ns \in Seq(Records) /\ e \in ToSet(AllEdges(ns))
      /\ \A i, j \in 1 .. Len(ns) : i # j /\ SameContext(ns[i], ns[j]) => ns[i].seq # ns[j].seq
      /\ Ascending(ns)
  BY EdgesOf DEF ModelInv, NodesInv, SeqsDiffer
<1>2. \A i \in 1 .. Len(ns) : ns[i] \in Records /\ ns[i].seq \in Int
  BY <1>1, RecordSeq
<1> HIDE DEF ns
<1>3. e \in EdgesUpto(Len(ns)) /\ (Called(ns, e) \/ \E i \in 1 .. Len(ns) : Causes(ns, i, e))
  BY <1>1, AllEdgesAre
<1>4. e.from \in 1 .. Len(ns) /\ e.to \in 1 .. Len(ns)
  BY <1>3 DEF EdgesUpto
<1>5. ASSUME Called(ns, e) PROVE GoesOn(ns, e.from, e.to)
  <2>1. e.from < e.to /\ SameContext(ns[e.from], ns[e.to]) /\ Call(ns[e.from]) /\ Call(ns[e.to])
    BY <1>4, <1>5 DEF Called, Call, CallKinds
  <2>2. ns[e.from].seq < ns[e.to].seq
    BY <1>1, <1>4, <2>1 DEF Ascending
  <2> QED
    BY <2>1, <2>2 DEF GoesOn, SameContext
<1>6. ASSUME NEW i \in 1 .. Len(ns), Causes(ns, i, e) PROVE GoesOn(ns, e.from, e.to)
  <2>1. CASE e.kind = "CALL_CAUSED_EVENT"
    <3>1. /\ e.to = i /\ ~Call(ns[i]) /\ e.from # 0
          /\ e.from = EnclosingCall(ns, MatchedExit(ns)[Len(ns)], i)
      BY <1>6, <2>1 DEF Causes
    <3>2. /\ ns[e.from].kind = "ENTER" /\ SameContext(ns[e.from], ns[e.to])
          /\ ns[e.from].seq <= ns[e.to].seq
      BY <1>1, <3>1, EnclosingCallIs
    <3>3. e.from # e.to
      BY <3>1, <3>2 DEF Call, CallKinds
    <3>4. ns[e.from].seq # ns[e.to].seq
      BY <1>1, <1>4, <3>2, <3>3
    <3>5. ns[e.from].seq \in Int /\ ns[e.to].seq \in Int
      BY <1>2, <1>4
    <3>6. ns[e.from].seq < ns[e.to].seq
      BY <3>2, <3>4, <3>5
    <3> QED
      BY <3>2, <3>6 DEF GoesOn, SameContext
  <2>2. CASE e.kind = "RESOURCE_LIFETIME"
    <3>1. e.from = i /\ e.to = LifetimeEnd(ns, i) /\ e.to # 0
      BY <1>6, <2>2 DEF Causes
    <3>2. Ends(ns[e.to], ns[i]) /\ ns[e.to].seq > ns[i].seq
      BY <1>1, <3>1, LifetimeEndIs
    <3>3. ns[e.from].seq \in Int /\ ns[e.to].seq \in Int
      BY <1>2, <1>4
    <3>4. ns[e.from].seq < ns[e.to].seq
      BY <3>1, <3>2, <3>3
    <3> QED
      BY <3>1, <3>2, <3>4 DEF GoesOn, Ends
  <2>3. CASE e.kind = "PROCESS_CHILD_EVENT"
    <3>1. e.from = i /\ ns[i].kind \in ForkKinds /\ ns[e.to].pid = ns[i].child
      BY <1>6, <2>3 DEF Causes
    <3>2. ns[i].child # ns[i].pid
      BY <1>2, <3>1 DEF Records, ForkKinds, CallKinds, Births, Deaths, Moves
    <3> QED
      BY <3>1, <3>2 DEF GoesOn
  <2> QED
    BY <1>6, <2>1, <2>2, <2>3 DEF Causes
<1>7. GoesOn(ns, e.from, e.to)
  BY <1>3, <1>5, <1>6
<1> QED
  BY <1>4, <1>7 DEF ns

\* The next node of a context goes on in its process, too.
LEMMA NextGoesOn ==
  ASSUME ModelInv, NEW i \in 1 .. Len(nodes), NEW j \in ContextNext(nodes, i)
  PROVE  j \in 1 .. Len(nodes) /\ GoesOn(nodes, i, j)
<1>1. j \in 1 .. Len(nodes) /\ SameContext(nodes[i], nodes[j]) /\ Earlier(nodes, i, j)
  BY DEF ContextNext
<1>2. nodes[i].seq \in Int /\ nodes[j].seq \in Int
  BY <1>1, RecordSeq DEF ModelInv, NodesInv, RunInv
<1>3. nodes[i].seq < nodes[j].seq
  BY <1>1, <1>2 DEF ModelInv, NodesInv, SeqsDiffer, Earlier
<1> QED
  BY <1>1, <1>3 DEF GoesOn, SameContext

\* The arcs of the model, as pairs.
Links == {<<e.from, e.to>> : e \in ToSet(edges)}
           \cup UNION {{<<i, j>> : j \in ContextNext(nodes, i)} : i \in 1 .. Len(nodes)}
\* The nodes that node i waits for.
Before(i) == {j \in 1 .. Len(nodes) : i \in ToSet(ArcsFrom(nodes, edges, j))}

\* The lists of arcs hold the pairs, each once.
LEMMA LinksAre ==
  ASSUME ModelInv
  PROVE  /\ Links \subseteq (1 .. Len(nodes)) \X (1 .. Len(nodes))
         /\ \A i \in 1 .. Len(nodes) :
              ArcsFrom(nodes, edges, i) \in Seq(1 .. Len(nodes)) /\ Once(ArcsFrom(nodes, edges, i))
         /\ \A i, j \in 1 .. Len(nodes) : <<j, i>> \in Links <=> j \in Before(i)
<1> DEFINE n == Len(nodes)
<1>1. nodes \in Seq(Records) /\ \A i \in 1 .. n : nodes[i].seq \in Int
  BY RecordSeq DEF ModelInv, NodesInv, RunInv
<1>2. Len(edges) \in Nat /\ ToSet(edges) = {edges[k] : k \in 1 .. Len(edges)}
  <2>1. edges \in Seq(EdgesUpto(n))
    <3>1. edges = AllEdges(nodes) \/ edges = <<>>
      BY EdgesOf DEF ModelInv
    <3>2. AllEdges(nodes) \in Seq(EdgesUpto(Len(nodes)))
      BY <1>1, AllEdgesAre
    <3>3. <<>> \in Seq(EdgesUpto(Len(nodes)))
      OBVIOUS
    <3> QED
      BY <3>1, <3>2, <3>3
  <2> QED
    BY <2>1 DEF ToSet
<1>3. \A e \in ToSet(edges) : e.from \in 1 .. n /\ e.to \in 1 .. n /\ e.from # e.to
  <2>1. ASSUME NEW e \in ToSet(edges) PROVE e.from \in 1 .. n /\ e.to \in 1 .. n /\ e.from # e.to
    <3>1. e.from \in 1 .. n /\ e.to \in 1 .. n /\ GoesOn(nodes, e.from, e.to)
      BY EdgesGoOn
    <3> QED
      BY <1>1, <3>1 DEF GoesOn
  <2> QED
    BY <2>1
<1>4. \A i \in 1 .. n : \A j \in ContextNext(nodes, i) : j \in 1 .. n
  BY NextGoesOn
<1>5. ASSUME NEW i \in 1 .. n
      PROVE  /\ ArcsFrom(nodes, edges, i) \in Seq(1 .. n) /\ Once(ArcsFrom(nodes, edges, i))
             /\ ToSet(ArcsFrom(nodes, edges, i)) = Successors(nodes, edges, i)
  <2>1. \A k \in 1 .. Len(edges) : edges[k].to \in 1 .. n
    BY <1>2, <1>3
  <2> QED
    BY <1>1, <1>2, <2>1, ArcsFromAre
<1>6. ASSUME NEW i \in 1 .. n, NEW j \in 1 .. n
      PROVE  <<j, i>> \in Links <=> j \in Before(i)
  <2>1. <<j, i>> \in Links <=> \/ \E e \in ToSet(edges) : e.from = j /\ e.to = i
                               \/ i \in ContextNext(nodes, j)
    <3>1. ASSUME <<j, i>> \in Links
          PROVE  \/ \E e \in ToSet(edges) : e.from = j /\ e.to = i
                 \/ i \in ContextNext(nodes, j)
      BY <3>1 DEF Links
    <3>2. ASSUME NEW e \in ToSet(edges), e.from = j, e.to = i PROVE <<j, i>> \in Links
      BY <3>2 DEF Links
    <3>3. ASSUME i \in ContextNext(nodes, j) PROVE <<j, i>> \in Links
      BY <3>3 DEF Links
    <3> QED
      BY <3>1, <3>2, <3>3
  <2>2. i \in Successors(nodes, edges, j) <=> \/ \E e \in ToSet(edges) : e.from = j /\ e.to = i
                                              \/ i \in ContextNext(nodes, j)
    <3>1. i \in Successors(nodes, edges, j)
            <=> \/ i # j /\ \E k \in 1 .. Len(edges) : edges[k].from = j /\ edges[k].to = i
                \/ i \in ContextNext(nodes, j)
      BY DEF Successors
    <3> QED
      BY <1>2, <1>3, <3>1
  <2> QED
    BY <1>5, <2>1, <2>2 DEF Before
<1>7. ASSUME NEW a \in Links PROVE a \in (1 .. n) \X (1 .. n)
  <2>1. CASE a \in {<<e.from, e.to>> : e \in ToSet(edges)}
    BY <1>3, <2>1
  <2>2. CASE a \in UNION {{<<i, j>> : j \in ContextNext(nodes, i)} : i \in 1 .. n}
    BY <1>4, <2>2
  <2> QED
    BY <1>7, <2>1, <2>2 DEF Links
<1> QED
  BY <1>5, <1>6, <1>7

-----------------------------------------------------------------------------
(* The loop. *)

\* The nodes not in done that wait for none outside it.
Free(done) == {i \in 1 .. Len(nodes) : i \notin done /\ Before(i) \subseteq done}

\* While the loop runs, the counters count what every node still waits for, the
\* heap holds what is free, and what is placed waits for nothing.
Counting ==
  /\ ordered \in Seq(1 .. Len(nodes))
  /\ \A i \in 1 .. Len(nodes) : indegree[i] = Cardinality(Before(i) \ ToSet(ordered))
  /\ Heap(heap) /\ ToSet(heap) = Free(ToSet(ordered))
  /\ \A i \in ToSet(ordered) : Before(i) \subseteq ToSet(ordered)

\* A set of nodes is finite: it has no element, or one at least.
LEMMA BeforeIsFinite ==
  ASSUME ModelInv, NEW S, S \subseteq 1 .. Len(nodes)
  PROVE  IsFiniteSet(S) /\ Cardinality(S) \in Nat /\ (Cardinality(S) = 0 <=> S = {})
<1>1. Len(nodes) \in Nat
  BY DEF ModelInv, NodesInv, RunInv
<1>2. IsFiniteSet(1 .. Len(nodes))
  BY <1>1, FS_Interval
<1>3. IsFiniteSet(S)
  BY <1>2, FS_Subset
<1> QED
  BY <1>3, FS_CardinalityType, FS_EmptySet

LEMMA StartCounts ==
  ASSUME ModelInv, StartOrder, UNCHANGED model, ordered = <<>>
  PROVE  Counting'
<1> DEFINE n == Len(nodes)
           all == [i \in 1 .. n |-> i]
<1>1. n \in Nat
  BY DEF ModelInv, NodesInv, RunInv
<1>2. nodes' = nodes /\ edges' = edges /\ ordered' = <<>> /\ ToSet(<<>>) = {}
  BY DEF StartOrder, model, ToSet
<1>3. ASSUME NEW i \in 1 .. n
      PROVE  indegree'[i] = Cardinality(Before(i)) /\ (indegree'[i] = 0 <=> Before(i) = {})
  <2>1. indegree'[i] = Cardinality(Before(i))
    BY DEF StartOrder, Before
  <2>2. Before(i) \subseteq 1 .. n
    BY DEF Before
  <2> QED
    BY <2>1, <2>2, BeforeIsFinite
<1>4. Heap(<<>>) /\ all \in Seq(Nat) /\ Once(all) /\ ToSet(all) = 1 .. n
  <2>1. Heap(<<>>)
    BY DEF Heap, Once, Ordered
  <2>2. all \in [1 .. n -> Nat] /\ DOMAIN all = 1 .. n /\ \A i \in 1 .. n : all[i] = i
    BY <1>1
  <2>3. all \in Seq(Nat) /\ Len(all) = n
    BY <1>1, <2>2
  <2> HIDE DEF all
  <2> QED
    BY <2>1, <2>2, <2>3 DEF Once, ToSet
<1>5. heap' = WithReady(<<>>, indegree', all)
  BY DEF StartOrder
<1> HIDE DEF all
<1>6. Heap(heap') /\ ToSet(heap') = {i \in 1 .. n : indegree'[i] = 0}
  <2>1. \A i \in ToSet(all) : indegree'[i] = 0 => i \notin ToSet(<<>>)
    BY <1>2
  <2> DEFINE waits == indegree'
  <2>2. /\ Heap(WithReady(<<>>, waits, all))
        /\ ToSet(WithReady(<<>>, waits, all)) = ToSet(<<>>) \cup {i \in ToSet(all) : waits[i] = 0}
    <3>1. \A i \in ToSet(all) : waits[i] = 0 => i \notin ToSet(<<>>)
      BY <2>1
    <3> HIDE DEF waits
    <3> QED
      BY <1>4, <3>1, WithReadyIs
  <2> QED
    BY <1>2, <1>4, <1>5, <2>2
<1>7. \A i : Before(i)' = Before(i)
  BY <1>2 DEF Before
<1>8. ToSet(heap') = Free({})
  BY <1>3, <1>6 DEF Free
<1>9. Free({})' = Free({})
  BY <1>2, <1>7 DEF Free
<1>10. \A i \in 1 .. n : indegree'[i] = Cardinality(Before(i) \ {})
  <2>1. \A i \in 1 .. n : Before(i) \ {} = Before(i)
    OBVIOUS
  <2> QED
    BY <1>3, <2>1
<1>11. ordered' \in Seq(1 .. Len(nodes)) /\ ToSet(ordered') = {}
  BY <1>2
<1> QED
  BY <1>2, <1>6, <1>7, <1>8, <1>9, <1>10, <1>11 DEF Counting

\* A list without repetition holds a value in one place, or in none.
LEMMA CountOnce ==
  ASSUME NEW s, NEW T, s \in Seq(T), Once(s), NEW v
  PROVE  Cardinality({k \in DOMAIN s : s[k] = v}) = IF v \in ToSet(s) THEN 1 ELSE 0
<1>1. DOMAIN s = 1 .. Len(s) /\ ToSet(s) = {s[k] : k \in 1 .. Len(s)}
  BY DEF ToSet
<1>2. CASE v \in ToSet(s)
  <2>1. PICK k \in 1 .. Len(s) : s[k] = v
    BY <1>1, <1>2
  <2>2. {l \in DOMAIN s : s[l] = v} = {k}
    BY <1>1, <2>1 DEF Once
  <2> QED
    BY <1>2, <2>2, FS_Singleton
<1>3. CASE v \notin ToSet(s)
  <2>1. {l \in DOMAIN s : s[l] = v} = {}
    BY <1>1, <1>3
  <2> QED
    BY <1>3, <2>1, FS_EmptySet
<1> QED
  BY <1>2, <1>3

\* A turn of the loop places the least free node, and the counters and the heap
\* follow.
LEMMA EmitCounts ==
  ASSUME ModelInv, Counting, Emit, UNCHANGED model
  PROVE  /\ heap[1] \in Free(ToSet(ordered)) /\ \A i \in Free(ToSet(ordered)) : heap[1] <= i
         /\ Counting'
<1> DEFINE n == Len(nodes)
           c == heap[1]
           arcs == ArcsFrom(nodes, edges, c)
           done == ToSet(ordered)
           waits == indegree'
<1>1. n \in Nat /\ nodes' = nodes /\ edges' = edges
  BY DEF ModelInv, NodesInv, RunInv, model
<1>2. Heap(heap) /\ Len(heap) # 0 /\ ToSet(heap) = Free(done)
  BY DEF Counting, Emit, Heap
<1>3. c \in Free(done) /\ \A i \in Free(done) : c <= i
  BY <1>2, RootIsLeast
<1>4. c \in 1 .. n /\ c \notin done /\ Before(c) \subseteq done
  BY <1>3 DEF Free
<1>5. /\ arcs \in Seq(1 .. n) /\ Once(arcs)
      /\ \A i \in 1 .. n : i \in ToSet(arcs) <=> c \in Before(i)
  BY <1>4, LinksAre DEF Before
<1>6. ToSet(arcs) \subseteq 1 .. n
  BY <1>5 DEF ToSet
<1>7. ordered' \in Seq(1 .. n) /\ ToSet(ordered') = done \cup {c}
  <2>1. ordered' = Append(ordered, c) /\ ordered \in Seq(1 .. n)
    BY DEF Emit, Counting
  <2> HIDE DEF c
  <2>2. /\ Len(ordered') = Len(ordered) + 1 /\ ordered'[Len(ordered) + 1] = c
        /\ \A k \in 1 .. Len(ordered) : ordered'[k] = ordered[k]
        /\ ordered' \in Seq(1 .. n) /\ Len(ordered) \in Nat
    BY <1>4, <2>1
  <2>3. DOMAIN ordered = 1 .. Len(ordered) /\ DOMAIN ordered' = 1 .. Len(ordered')
    BY <2>1, <2>2
  <2>4. 1 .. Len(ordered') = 1 .. Len(ordered) \cup {Len(ordered) + 1}
    BY <2>2
  <2>5. ASSUME NEW x \in ToSet(ordered')
        PROVE  x \in done \cup {c}
    <3>1. PICK k \in DOMAIN ordered' : x = ordered'[k]
      BY <2>5 DEF ToSet
    <3>2. CASE k = Len(ordered) + 1
      BY <3>1, <3>2, <2>2
    <3>3. CASE k \in 1 .. Len(ordered)
      <4>1. x = ordered[k]
        BY <3>1, <3>3, <2>2
      <4> QED
        BY <4>1, <3>3, <2>3 DEF ToSet
    <3> QED
      BY <3>1, <3>2, <3>3, <2>3, <2>4
  <2>6. ASSUME NEW x \in done
        PROVE  x \in ToSet(ordered')
    <3>1. PICK k \in DOMAIN ordered : x = ordered[k]
      BY <2>6 DEF ToSet
    <3>2. k \in DOMAIN ordered' /\ x = ordered'[k]
      BY <3>1, <2>2, <2>3, <2>4
    <3> QED
      BY <3>2 DEF ToSet
  <2>7. c \in ToSet(ordered')
    <3>1. Len(ordered) + 1 \in DOMAIN ordered' /\ c = ordered'[Len(ordered) + 1]
      BY <2>2, <2>3, <2>4
    <3> QED
      BY <3>1 DEF ToSet
  <2> HIDE DEF done
  <2>8. ToSet(ordered') = done \cup {c}
    BY <2>5, <2>6, <2>7
  <2> QED
    BY <2>2, <2>8
<1>8. ASSUME NEW i \in 1 .. n
      PROVE  waits[i] = Cardinality(Before(i) \ (done \cup {c}))
  <2>1. waits[i] = indegree[i] - Cardinality({k \in DOMAIN arcs : arcs[k] = i})
    BY DEF Emit
  <2>2. Cardinality({k \in DOMAIN arcs : arcs[k] = i}) = IF i \in ToSet(arcs) THEN 1 ELSE 0
    BY <1>5, CountOnce
  <2>3. indegree[i] = Cardinality(Before(i) \ done)
    BY DEF Counting
  <2> DEFINE S == Before(i) \ done
  <2>4. S \subseteq 1 .. n /\ IsFiniteSet(S) /\ Cardinality(S) \in Nat
    <3>1. S \subseteq 1 .. n
      BY DEF Before
    <3> QED
      BY <3>1, BeforeIsFinite
  <2>5. Before(i) \ (done \cup {c}) = S \ {c} /\ (c \in S <=> i \in ToSet(arcs))
    BY <1>4, <1>5
  <2> HIDE DEF S, waits, arcs
  <2>6. CASE c \in S
    <3>1. Cardinality(S \ {c}) = Cardinality(S) - 1
      BY <2>4, <2>6, FS_RemoveElement
    <3>2. indegree[i] = Cardinality(S)
      BY <2>3 DEF S
    <3>3. waits[i] = Cardinality(S) - 1
      BY <2>1, <2>2, <2>5, <2>6, <3>2
    <3>4. Cardinality(Before(i) \ (done \cup {c})) = Cardinality(S \ {c})
      BY <2>5, Zenon
    <3> QED
      BY <3>1, <3>3, <3>4
  <2>7. CASE c \notin S
    <3>1. S \ {c} = S
      BY <2>7
    <3>2. indegree[i] = Cardinality(S)
      BY <2>3 DEF S
    <3>3. waits[i] = Cardinality(S)
      BY <2>1, <2>2, <2>4, <2>5, <2>7, <3>2
    <3>4. Cardinality(Before(i) \ (done \cup {c})) = Cardinality(S \ {c})
      BY <2>5, Zenon
    <3> QED
      BY <3>1, <3>3, <3>4
  <2> QED
    BY <2>6, <2>7
<1>9. \A i \in 1 .. n : waits[i] = 0 <=> Before(i) \subseteq done \cup {c}
  <2>1. ASSUME NEW i \in 1 .. n PROVE waits[i] = 0 <=> Before(i) \subseteq done \cup {c}
    <3>1. Before(i) \ (done \cup {c}) \subseteq 1 .. n
      BY DEF Before
    <3>2. Cardinality(Before(i) \ (done \cup {c})) = 0 <=> Before(i) \ (done \cup {c}) = {}
      BY <3>1, BeforeIsFinite
    <3> QED
      BY <1>8, <3>2
  <2> QED
    BY <2>1
<1>10. \A i \in done : i \in 1 .. n /\ Before(i) \subseteq done
  BY DEF Counting, ToSet
<1>11. Heap(heap') /\ ToSet(heap') = (Free(done) \ {c}) \cup {i \in ToSet(arcs) : waits[i] = 0}
  <2>1. heap' = WithReady(HeapPop(heap), waits, arcs)
    BY DEF Emit
  <2>2. Heap(HeapPop(heap)) /\ ToSet(HeapPop(heap)) = Free(done) \ {c}
    BY <1>2, HeapPopIs
  <2>3. arcs \in Seq(Nat)
    BY <1>1, <1>5
  <2>4. ASSUME NEW i \in ToSet(arcs) PROVE i \notin Free(done)
    BY <1>4, <1>5, <1>6, <2>4 DEF Free
  <2>5. \A i \in ToSet(arcs) : waits[i] = 0 => i \notin ToSet(HeapPop(heap))
    BY <2>2, <2>4
  <2> HIDE DEF waits, arcs, c
  <2> QED
    BY <1>5, <2>1, <2>2, <2>3, <2>5, WithReadyIs
<1>12. ToSet(heap') = Free(done \cup {c})
  <2> HIDE DEF waits, arcs, c, done
  <2>1. ASSUME NEW i \in Free(done) \ {c} PROVE i \in Free(done \cup {c})
    BY <2>1 DEF Free
  <2>2. ASSUME NEW i \in ToSet(arcs), waits[i] = 0 PROVE i \in Free(done \cup {c})
    BY <1>4, <1>5, <1>6, <1>9, <1>10, <2>2 DEF Free
  <2>3. ASSUME NEW i \in Free(done \cup {c})
        PROVE  i \in Free(done) \ {c} \/ (i \in ToSet(arcs) /\ waits[i] = 0)
    BY <1>5, <1>9, <2>3 DEF Free
  <2> QED
    BY <1>11, <2>1, <2>2, <2>3
<1>13. \A i : Before(i)' = Before(i)
  BY <1>1 DEF Before
<1>14. Free(ToSet(ordered))' = Free(done \cup {c})
  <2>1. ToSet(ordered)' = done \cup {c}
    BY <1>7
  <2> HIDE DEF done, c
  <2> QED
    BY <1>1, <1>13, <2>1 DEF Free
<1>15. \A i \in done \cup {c} : Before(i) \subseteq done \cup {c}
  BY <1>4, <1>10
<1>16. Counting'
  <2>1. ToSet(ordered)' = done \cup {c} /\ ordered' \in Seq(1 .. Len(nodes'))
    BY <1>1, <1>7
  <2> HIDE DEF done, c, arcs
  <2>2. \A i \in 1 .. Len(nodes') : indegree'[i] = Cardinality(Before(i)' \ ToSet(ordered)')
    BY <1>1, <1>8, <1>13, <2>1
  <2>3. \A i \in ToSet(ordered)' : Before(i)' \subseteq ToSet(ordered)'
    BY <1>13, <1>15, <2>1
  <2>4. Heap(heap)' /\ ToSet(heap)' = Free(ToSet(ordered))'
    <3>1. Heap(heap') /\ ToSet(heap') = Free(done \cup {c})
      BY <1>11, <1>12
    <3>2. Heap(heap)' <=> Heap(heap')
      OBVIOUS
    <3> QED
      BY <1>14, <3>1, <3>2
  <2> QED
    BY <2>1, <2>2, <2>3, <2>4 DEF Counting
<1> QED
  BY <1>3, <1>16

-----------------------------------------------------------------------------
(* The loop implements LeastOrder. *)

\* The state of the abstract order, as Abstract maps it.
Size == IF stage \in {"none", "unordered"} THEN 0 ELSE Len(nodes)
Arcs == IF stage \in {"none", "unordered"} THEN {} ELSE Links
VerdictOf(at, wrong) ==
  CASE at = "none" -> "none"
    [] at = "unordered" -> "none"
    [] at = "ordering" -> "open"
    [] wrong -> "cyclic"
    [] OTHER -> "complete"
Verdict == VerdictOf(stage, trouble)

\* The abstract order with what is proved of it.
Proved == INSTANCE LeastOrder_proofs WITH
            size <- Size, arcs <- Arcs, order <- ordered, verdict <- Verdict

\* The two instances are the same specification.
LEMMA SameOrder ==
  /\ Abstract!Init <=> Proved!Init
  /\ Abstract!Next <=> Proved!Next
  /\ Abstract!placing = Proved!placing /\ Abstract!placing' = Proved!placing'
<1>1. Abstract!Init <=> Proved!Init
  BY DEF Abstract!Init, Proved!Init, Size, Arcs, Verdict, VerdictOf, Links
<1>2. Abstract!placing = Proved!placing /\ Abstract!placing' = Proved!placing'
  BY DEF Abstract!placing, Proved!placing, Size, Arcs, Verdict, VerdictOf, Links
<1>3. Abstract!Ready = Proved!Ready
  BY DEF Abstract!Ready, Proved!Ready, Abstract!Placed, Proved!Placed, Abstract!Waiting,
         Proved!Waiting, Size, Arcs, Links
<1>4. Abstract!Begin <=> Proved!Begin
  BY DEF Abstract!Begin, Proved!Begin, Size, Arcs, Verdict, VerdictOf, Links
<1>5. Abstract!Place <=> Proved!Place
  BY <1>3 DEF Abstract!Place, Proved!Place, Size, Arcs, Verdict, VerdictOf, Links
<1>6. Abstract!Decide <=> Proved!Decide
  BY <1>3 DEF Abstract!Decide, Proved!Decide, Size, Arcs, Verdict, VerdictOf, Links
<1> QED
  BY <1>1, <1>2, <1>4, <1>5, <1>6 DEF Abstract!Next, Proved!Next

\* The stages after the loop, and what it leaves for them.
Later == {"ordered", "overflow", "traced", "untraced"}
OrderInv ==
  /\ stage \in {"none", "unordered", "ordering"} \cup Later
  /\ stage # "none" => finished
  /\ stage \in {"none", "unordered"} => ordered = <<>>
  /\ stage = "ordering" => Counting
  /\ stage \notin Later => trouble = FALSE
  /\ stage \in Later => /\ trouble \in BOOLEAN /\ (trouble <=> Len(ordered) # Len(nodes))
                       /\ ordered_count = IF trouble THEN 0 ELSE Len(ordered)

LEMMA VerdictIs ==
  /\ \A at \in {"none", "unordered"} : VerdictOf(at, FALSE) = "none"
  /\ VerdictOf("ordering", FALSE) = "open"
  /\ \A at \in Later : VerdictOf(at, TRUE) = "cyclic" /\ VerdictOf(at, FALSE) = "complete"
  BY DEF VerdictOf, Later

\* The model is built before the analysis begins, and stays as it is.
LEMMA ModelOrAnalysis ==
  ASSUME ModelInv, OrderInv, [AnalysisNext]_analysis
  PROVE  /\ [Next]_model
         /\ \/ UNCHANGED ordering /\ (stage = "none" \/ UNCHANGED model)
            \/ UNCHANGED model /\ (StartOrder \/ Emit \/ OrderDone \/ StartFails)
            \/ /\ stage = "ordered" /\ stage' \in Later
               /\ UNCHANGED <<model, heap, indegree, ordered, ordered_count, trouble>>
<1>1. CASE Next /\ UNCHANGED <<ordering, tracing>>
  <2>1. ~finished
    BY <1>1 DEF Next, Ingest, IngestFails, Finish, FinishFails
  <2> QED
    BY <1>1, <2>1 DEF OrderInv
<1>2. CASE OrderNext /\ UNCHANGED tracing
  BY <1>2 DEF OrderNext
<1>3. CASE TraceNext
  <2>1. /\ UNCHANGED <<model, heap, indegree, ordered, ordered_count, trouble>>
        /\ WalkFork \/ WalkEnter \/ WalkExit \/ WalkOther \/ WalkOverflows \/ WalkDone \/ WalkFails
    BY <1>3 DEF TraceNext
  <2>2. UNCHANGED stage \/ (stage = "ordered" /\ stage' \in Later)
    BY <2>1 DEF WalkFork, WalkEnter, WalkExit, WalkOther, WalkOverflows, WalkDone, WalkFails,
                Walking, Later
  <2> QED
    BY <2>1, <2>2 DEF ordering
<1>4. CASE UNCHANGED analysis
  BY <1>4 DEF analysis
<1> QED
  BY <1>1, <1>2, <1>3, <1>4 DEF AnalysisNext

\* The least free node is the one LeastOrder places: what is ready there is
\* free here.
LEMMA ReadyAreFree ==
  ASSUME ModelInv, OrderInv, stage = "ordering"
  PROVE  Proved!Ready = Free(ToSet(ordered))
<1>1. Size = Len(nodes) /\ Arcs = Links
  BY DEF Size, Arcs
<1>2. Proved!Placed = ToSet(ordered)
  <2>1. DOMAIN ordered = 1 .. Len(ordered)
    BY DEF OrderInv, Counting
  <2> QED
    BY <2>1 DEF Proved!Placed, ToSet
<1>3. ASSUME NEW i \in 1 .. Len(nodes)
      PROVE  i \notin Proved!Waiting <=> Before(i) \subseteq ToSet(ordered)
  <2>1. i \in Proved!Waiting <=> \E a \in Links : a[1] \notin ToSet(ordered) /\ a[2] = i
    BY <1>1, <1>2 DEF Proved!Waiting
  <2>2. ASSUME NEW a \in Links, a[1] \notin ToSet(ordered), a[2] = i
        PROVE  \E j \in Before(i) : j \notin ToSet(ordered)
    <3>1. a = <<a[1], i>> /\ a[1] \in 1 .. Len(nodes)
      BY <2>2, LinksAre
    <3>2. a[1] \in Before(i)
      BY <3>1, LinksAre
    <3> QED
      BY <2>2, <3>2
  <2>3. ASSUME NEW j \in Before(i), j \notin ToSet(ordered)
        PROVE  \E a \in Links : a[1] \notin ToSet(ordered) /\ a[2] = i
    <3>1. j \in 1 .. Len(nodes)
      BY DEF Before
    <3>2. <<j, i>> \in Links
      BY <3>1, LinksAre
    <3> QED
      BY <2>3, <3>2
  <2> QED
    BY <2>1, <2>2, <2>3
<1> QED
  BY <1>1, <1>2, <1>3 DEF Proved!Ready, Free

\* A step of the analysis keeps OrderInv and is a step of LeastOrder, or none.
LEMMA StepPlaces ==
  ASSUME ModelInv, OrderInv, [AnalysisNext]_analysis
  PROVE  OrderInv' /\ [Proved!Next]_(Proved!placing)
<1>1. CASE UNCHANGED ordering /\ (stage = "none" \/ UNCHANGED model) /\ [Next]_model
  <2>1. stage' = stage /\ ordered' = ordered /\ trouble' = trouble /\ ordered_count' = ordered_count
        /\ heap' = heap /\ indegree' = indegree
    BY <1>1 DEF ordering
  <2>2. CASE stage = "none"
    <3>1. OrderInv'
      BY <2>1, <2>2 DEF OrderInv, Later
    <3>2. UNCHANGED Proved!placing
      BY <2>1, <2>2 DEF Proved!placing, Size, Arcs, Verdict
    <3> QED
      BY <3>1, <3>2
  <2>3. CASE UNCHANGED model
    <3>1. nodes' = nodes /\ edges' = edges /\ finished' = finished
      BY <2>3 DEF model
    <3>2. Counting' <=> Counting
      <4>1. \A i : Before(i)' = Before(i)
        BY <3>1 DEF Before
      <4>2. Free(ToSet(ordered))' = Free(ToSet(ordered))
        BY <2>1, <3>1, <4>1 DEF Free
      <4> QED
        BY <2>1, <3>1, <4>1, <4>2 DEF Counting
    <3>3. OrderInv'
      BY <2>1, <3>1, <3>2 DEF OrderInv
    <3>4. UNCHANGED Proved!placing
      BY <2>1, <3>1 DEF Proved!placing, Size, Arcs, Verdict, Links
    <3> QED
      BY <3>3, <3>4
  <2> QED
    BY <1>1, <2>2, <2>3
<1>2. CASE StartOrder /\ UNCHANGED model
  <2>1. /\ finished /\ stage = "none" /\ stage' = "ordering" /\ ordered = <<>> /\ ordered' = <<>>
        /\ finished' /\ nodes' = nodes /\ edges' = edges /\ trouble = FALSE /\ trouble' = FALSE
    BY <1>2 DEF StartOrder, model, OrderInv, Later
  <2>2. Counting'
    BY <1>2, <2>1, StartCounts
  <2>3. OrderInv'
    BY <2>1, <2>2 DEF OrderInv, Later
  <2>4. Size' = Len(nodes) /\ Arcs' = Links /\ Verdict = "none" /\ Verdict' = "open"
    <3>1. Links' = Links
      BY <2>1 DEF Links
    <3>2. Size' = Len(nodes) /\ Arcs' = Links
      BY <2>1, <3>1 DEF Size, Arcs
    <3>3. Verdict = "none" /\ Verdict' = "open"
      BY <2>1, VerdictIs DEF Verdict
    <3> QED
      BY <3>2, <3>3
  <2>5. Len(nodes) \in Nat /\ Links \subseteq (1 .. Len(nodes)) \X (1 .. Len(nodes))
    BY LinksAre DEF ModelInv, NodesInv, RunInv
  <2>6. Proved!Begin
    BY <2>1, <2>4, <2>5 DEF Proved!Begin
  <2> QED
    BY <2>3, <2>6 DEF Proved!Next
<1>3. CASE Emit /\ UNCHANGED model
  <2>1. /\ stage = "ordering" /\ stage' = "ordering" /\ finished' = finished
        /\ ordered' = Append(ordered, heap[1]) /\ nodes' = nodes /\ edges' = edges
        /\ trouble = FALSE /\ trouble' = FALSE
    BY <1>3 DEF Emit, model, OrderInv, Later
  <2>2. /\ Counting' /\ heap[1] \in Free(ToSet(ordered))
        /\ \A i \in Free(ToSet(ordered)) : heap[1] <= i
    BY <1>3, <2>1, EmitCounts DEF OrderInv
  <2>3. OrderInv'
    BY <2>1, <2>2 DEF OrderInv, Later
  <2>4. UNCHANGED <<Size, Arcs, Verdict>> /\ Verdict = "open"
    <3>1. Links' = Links
      BY <2>1 DEF Links
    <3>2. Size' = Size /\ Arcs' = Arcs
      BY <2>1, <3>1 DEF Size, Arcs
    <3>3. Verdict = "open" /\ Verdict' = "open"
      BY <2>1, VerdictIs DEF Verdict
    <3> QED
      BY <3>2, <3>3
  <2>5. Proved!Ready = Free(ToSet(ordered))
    BY <2>1, ReadyAreFree
  <2>6. Proved!Place
    BY <2>1, <2>2, <2>4, <2>5 DEF Proved!Place
  <2> QED
    BY <2>3, <2>6 DEF Proved!Next
<1>4. CASE OrderDone /\ UNCHANGED model
  <2>1. /\ stage = "ordering" /\ heap = <<>> /\ stage' = "ordered" /\ ordered' = ordered
        /\ trouble' = ~(Len(ordered) = Len(nodes))
        /\ ordered_count' = IF Len(ordered) = Len(nodes) THEN Len(ordered) ELSE 0
        /\ nodes' = nodes /\ edges' = edges /\ finished' = finished /\ trouble = FALSE
    BY <1>4 DEF OrderDone, Complete, model, OrderInv, Later
  <2>2. OrderInv'
    BY <2>1 DEF OrderInv, Later
  <2>3. UNCHANGED <<Size, Arcs>> /\ Size = Len(nodes)
    BY <2>1 DEF Size, Arcs, Links
  <2>4. Verdict = "open" /\ Verdict' = IF Len(ordered) = Len(nodes) THEN "complete" ELSE "cyclic"
    <3>1. Verdict = "open"
      BY <2>1, VerdictIs DEF Verdict
    <3>2. CASE Len(ordered) = Len(nodes)
      <4>1. trouble' = FALSE /\ stage' \in Later
        BY <2>1, <3>2 DEF Later
      <4> QED
        BY <2>1, <3>1, <3>2, <4>1, VerdictIs DEF Verdict
    <3>3. CASE Len(ordered) # Len(nodes)
      <4>1. trouble' = TRUE /\ stage' \in Later
        BY <2>1, <3>3 DEF Later
      <4> QED
        BY <2>1, <3>1, <3>3, <4>1, VerdictIs DEF Verdict
    <3> QED
      BY <3>2, <3>3
  <2>5. Proved!Ready = {}
    <3>1. ToSet(heap) = {}
      BY <2>1 DEF ToSet
    <3> QED
      BY <2>1, <3>1, ReadyAreFree DEF OrderInv, Counting
  <2>6. Proved!Decide
    BY <2>1, <2>3, <2>4, <2>5 DEF Proved!Decide
  <2> QED
    BY <2>2, <2>6 DEF Proved!Next
<1>5. CASE StartFails /\ UNCHANGED model
  <2>1. /\ finished /\ finished' = finished /\ stage = "none" /\ stage' = "unordered"
        /\ ordered' = ordered /\ trouble = FALSE /\ trouble' = FALSE
    BY <1>5 DEF StartFails, model, OrderInv, Later
  <2>2. OrderInv'
    BY <2>1 DEF OrderInv, Later
  <2>3. UNCHANGED Proved!placing
    BY <2>1, VerdictIs DEF Proved!placing, Size, Arcs, Verdict
  <2> QED
    BY <2>2, <2>3
<1>6. CASE /\ stage = "ordered" /\ stage' \in Later
           /\ UNCHANGED <<model, heap, indegree, ordered, ordered_count, trouble>>
  <2>1. /\ finished' = finished /\ ordered' = ordered /\ trouble' = trouble
        /\ ordered_count' = ordered_count /\ nodes' = nodes /\ edges' = edges
    BY <1>6 DEF model
  <2>2. OrderInv'
    BY <1>6, <2>1 DEF OrderInv, Later
  <2>3. UNCHANGED Proved!placing
    <3>1. UNCHANGED <<Size, Arcs>>
      BY <1>6, <2>1 DEF Size, Arcs, Links, Later
    <3>2. Verdict' = Verdict
      <4>1. trouble \in BOOLEAN /\ stage \in Later
        BY <1>6 DEF OrderInv, Later
      <4>2. CASE trouble = TRUE
        BY <1>6, <2>1, <4>1, <4>2, VerdictIs DEF Verdict
      <4>3. CASE trouble = FALSE
        BY <1>6, <2>1, <4>1, <4>3, VerdictIs DEF Verdict
      <4> QED
        BY <4>1, <4>2, <4>3
    <3> QED
      BY <2>1, <3>1, <3>2 DEF Proved!placing
  <2> QED
    BY <2>2, <2>3
<1> QED
  BY <1>1, <1>2, <1>3, <1>4, <1>5, <1>6, ModelOrAnalysis

\* The analysis leaves the model what it is.
LEMMA AnalysisOfModel == AnalysisSpec => [](ModelInv /\ OrderInv)
<1>1. AnalysisInit => Init /\ OrderInv
  BY DEF AnalysisInit, OrderInit, OrderInv, Later
<1>2. [AnalysisNext]_analysis => [Next]_model
  BY DEF AnalysisNext, OrderNext, TraceNext, analysis, model
<1>3. AnalysisSpec => []ModelInv
  BY <1>1, <1>2, ModelStays, PTL DEF AnalysisSpec, Spec
<1>4. ModelInv /\ OrderInv /\ [AnalysisNext]_analysis => OrderInv'
  BY StepPlaces
<1> QED
  BY <1>1, <1>3, <1>4, PTL DEF AnalysisSpec

\* The loop of build_causal_order with its heap and its counters is LeastOrder:
\* for any model, what it places next is the least node all of whose
\* predecessors are placed, and it stops when there is none.
THEOREM OrderPlacesLeast == AnalysisSpec => PlacesLeast
<1>1. AnalysisInit => Proved!Init
  BY VerdictIs DEF AnalysisInit, OrderInit, Proved!Init, Size, Arcs, Verdict
<1>2. ModelInv /\ OrderInv /\ [AnalysisNext]_analysis => [Proved!Next]_(Proved!placing)
  BY StepPlaces
<1>3. Proved!Init => Abstract!Init
  BY SameOrder
<1>4. [Proved!Next]_(Proved!placing) => [Abstract!Next]_(Abstract!placing)
  BY SameOrder
<1> QED
  BY <1>1, <1>2, <1>3, <1>4, AnalysisOfModel, PTL DEF AnalysisSpec, PlacesLeast, Abstract!Spec

-----------------------------------------------------------------------------
(* What the order and its verdict mean. *)

\* LeastOrder's promises, at the end of the loop.
Promises == ModelInv /\ OrderInv /\ Proved!OrderType /\ Proved!VerdictInv

LEMMA PromisesKept == AnalysisSpec => []Promises
<1>1. AnalysisInit => Proved!Init
  BY VerdictIs DEF AnalysisInit, OrderInit, Proved!Init, Size, Arcs, Verdict
<1>2. ModelInv /\ OrderInv /\ [AnalysisNext]_analysis => [Proved!Next]_(Proved!placing)
  BY StepPlaces
<1>3. AnalysisSpec => Proved!Spec
  BY <1>1, <1>2, AnalysisOfModel, PTL DEF AnalysisSpec, Proved!Spec
<1>4. Proved!Spec => []Proved!OrderType
  BY Proved!OrderTyped
<1>5. Proved!Spec => []Proved!VerdictInv
  BY Proved!VerdictCorrect
<1>6. ModelInv /\ OrderInv /\ Proved!OrderType /\ Proved!VerdictInv => Promises
  BY DEF Promises
<1> QED
  BY <1>3, <1>4, <1>5, <1>6, AnalysisOfModel, PTL

\* A complete order has a position for every node, and an arc leads to a later
\* position.
LEMMA CompleteOrder ==
  ASSUME Promises, stage \in Later, ~trouble
  PROVE  /\ ordered_count = Len(nodes) /\ ToSet(ordered) = 1 .. Len(nodes)
         /\ \A i \in 1 .. Len(nodes) : Position(i) \in 1 .. Len(nodes)
         /\ \A i, j \in 1 .. Len(nodes) : <<i, j>> \in Links => Position(i) < Position(j)
<1> DEFINE n == Len(nodes)
<1>1. /\ stage \notin {"none", "unordered", "ordering"} /\ trouble = FALSE
      /\ ordered_count = n /\ Len(ordered) = n
  BY DEF Promises, OrderInv, Later
<1>2. n \in Nat
  BY DEF Promises, ModelInv, NodesInv, RunInv
<1>3. Size = n /\ Arcs = Links /\ Verdict = "complete"
  BY <1>1, VerdictIs DEF Size, Arcs, Verdict
<1>4. ordered \in Seq(1 .. n)
  BY <1>3 DEF Promises, Proved!OrderType
<1>5. Proved!Forward /\ Proved!Placed = 1 .. n
  BY <1>3 DEF Promises, Proved!VerdictInv, Proved!VerdictSound
<1>6. Proved!Placed = {ordered[k] : k \in 1 .. n}
  BY <1>1 DEF Proved!Placed
<1>7. ToSet(ordered) = 1 .. n
  <2>1. DOMAIN ordered = 1 .. n
    BY <1>1, <1>4
  <2>2. ToSet(ordered) = {ordered[k] : k \in 1 .. n}
    BY <2>1 DEF ToSet
  <2> QED
    BY <1>5, <1>6, <2>2
<1>8. \A j, k \in 1 .. n : ordered[j] = ordered[k] => j = k
  BY <1>1, <1>5 DEF Proved!Forward
<1>9. \A a \in Links, k \in 1 .. n : ordered[k] = a[2] => \E j \in 1 .. k - 1 : ordered[j] = a[1]
  BY <1>1, <1>3, <1>5 DEF Proved!Forward
<1>10. ASSUME NEW i \in 1 .. n
       PROVE  /\ Position(i) \in 1 .. n /\ ordered[Position(i)] = i
              /\ \A k \in 1 .. n : ordered[k] = i => k = Position(i)
  <2>1. PICK k \in 1 .. n : ordered[k] = i
    BY <1>5, <1>6
  <2>2. Position(i) = CHOOSE l \in 1 .. n : ordered[l] = i
    BY <1>1 DEF Position
  <2>3. Position(i) \in 1 .. n /\ ordered[Position(i)] = i
    BY <2>1, <2>2
  <2> QED
    BY <1>8, <2>3
<1>11. ASSUME NEW i \in 1 .. n, NEW j \in 1 .. n, <<i, j>> \in Links
       PROVE  Position(i) < Position(j)
  <2>1. Position(j) \in 1 .. n /\ ordered[Position(j)] = j
    BY <1>10
  <2>2. <<i, j>>[1] = i /\ <<i, j>>[2] = j
    OBVIOUS
  <2>3. PICK k \in 1 .. Position(j) - 1 : ordered[k] = i
    BY <1>9, <1>11, <2>1, <2>2
  <2>4. k \in 1 .. n /\ k < Position(j)
    BY <1>2, <2>1, <2>3
  <2>5. k = Position(i)
    BY <1>10, <2>3, <2>4
  <2> QED
    BY <2>4, <2>5
<1> QED
  BY <1>1, <1>7, <1>10, <1>11

\* In a complete order a context keeps its numbers: its next node comes later,
\* so the one with the next number, and so on.
LEMMA ContextInOrder ==
  ASSUME Promises, stage \in Later, ~trouble, NEW i \in 1 .. Len(nodes), NEW j \in 1 .. Len(nodes),
         SameContext(nodes[i], nodes[j]), nodes[i].seq < nodes[j].seq
  PROVE  Position(i) < Position(j)
<1> DEFINE n == Len(nodes)
           Within(k) == SameContext(nodes[i], nodes[k]) /\ nodes[i].seq < nodes[k].seq
           Bad == {k \in 1 .. n : Within(k) /\ ~(Position(i) < Position(k))}
           seqs == {nodes[k].seq : k \in Bad}
<1>1. \A k \in 1 .. n : nodes[k].seq \in Nat
  BY RecordSeq DEF Promises, ModelInv, NodesInv, RunInv
<1>2. SeqsDiffer
  BY DEF Promises, ModelInv, NodesInv
<1>3. \A k \in 1 .. n : Position(k) \in Int
  BY CompleteOrder
<1> SUFFICES ASSUME Bad # {} PROVE FALSE
  OBVIOUS
<1>4. PICK k \in Bad : \A l \in Bad : nodes[k].seq <= nodes[l].seq
  <2>1. seqs \in SUBSET Nat /\ seqs # {}
    BY <1>1
  <2>2. PICK x \in seqs : \A y \in seqs : x <= y
    <3> HIDE DEF seqs
    <3> QED
      BY <2>1, LeastNatural
  <2> QED
    BY <2>2
<1>5. k \in 1 .. n /\ Within(k) /\ ~(Position(i) < Position(k))
  BY <1>4
\* The node before k in the context.
<1> DEFINE Prior == {l \in 1 .. n : SameContext(nodes[l], nodes[k]) /\ nodes[l].seq < nodes[k].seq}
           priors == {nodes[l].seq : l \in Prior}
<1>6. i \in Prior
  BY <1>5
<1>7. PICK l \in Prior : \A m \in Prior : nodes[m].seq <= nodes[l].seq
  <2>1. priors \in SUBSET Nat /\ priors # {} /\ \A x \in priors : x <= nodes[k].seq
    BY <1>1, <1>5, <1>6
  <2>2. nodes[k].seq \in Nat
    BY <1>1, <1>5
  <2>3. PICK x \in priors : \A y \in priors : y <= x
    <3> HIDE DEF priors
    <3> QED
      BY <2>1, <2>2, GreatestNatural
  <2> QED
    BY <2>3
<1>8. l \in 1 .. n /\ SameContext(nodes[l], nodes[k]) /\ nodes[l].seq < nodes[k].seq
  BY <1>7
<1>9. k \in ContextNext(nodes, l)
  <2>1. Earlier(nodes, l, k)
    BY <1>8 DEF Earlier
  <2>2. ASSUME NEW m \in 1 .. n, SameContext(nodes[l], nodes[m]), Earlier(nodes, l, m),
               Earlier(nodes, m, k)
        PROVE  FALSE
    <3>1. SameContext(nodes[m], nodes[k]) /\ nodes[l].seq \in Nat /\ nodes[m].seq \in Nat
          /\ nodes[k].seq \in Nat
      BY <1>1, <1>5, <1>8, <2>2 DEF SameContext
    <3>2. nodes[l].seq < nodes[m].seq
      <4>1. l # m
        BY <2>2, <3>1 DEF Earlier
      <4> QED
        BY <1>2, <1>8, <2>2, <3>1, <4>1 DEF Earlier, SeqsDiffer
    <3>3. nodes[m].seq < nodes[k].seq
      <4>1. m # k
        BY <2>2, <3>1 DEF Earlier
      <4> QED
        BY <1>2, <1>5, <2>2, <3>1, <4>1 DEF Earlier, SeqsDiffer
    <3>4. m \in Prior
      BY <3>1, <3>3
    <3> QED
      BY <1>7, <3>1, <3>2, <3>4
  <2> QED
    BY <1>5, <1>8, <2>1, <2>2 DEF ContextNext
<1>10. Position(l) < Position(k)
  <2>1. <<l, k>> \in Links
    BY <1>8, <1>9 DEF Links
  <2> QED
    BY <1>5, <1>8, <2>1, CompleteOrder
<1>11. CASE l = i
  BY <1>5, <1>10, <1>11
<1>12. CASE l # i
  <2>1. SameContext(nodes[i], nodes[l])
    BY <1>5, <1>8 DEF SameContext
  <2>2. nodes[i].seq < nodes[l].seq
    <3>1. nodes[i].seq <= nodes[l].seq
      BY <1>6, <1>7
    <3>2. nodes[i].seq # nodes[l].seq
      BY <1>2, <1>8, <1>12, <2>1 DEF SeqsDiffer
    <3> QED
      BY <1>1, <1>8, <3>1, <3>2
  <2>3. l \notin Bad
    BY <1>1, <1>4, <1>5, <1>8
  <2>4. Position(i) < Position(l)
    BY <1>8, <2>1, <2>2, <2>3
  <2> QED
    BY <1>3, <1>5, <1>8, <1>10, <2>4
<1> QED
  BY <1>11, <1>12

\* The order that the policies walk keeps every edge of the model and the
\* numbers of every context, for any model; without an order the walk is empty
\* (build_causal_order).
THEOREM OrderCorrect == AnalysisSpec => []OrderExact
<1>1. Promises => OrderExact
  <2> SUFFICES ASSUME Promises, stage \in {"ordered", "traced"}
               PROVE  IF trouble THEN ordered_count = 0
                      ELSE /\ ordered_count = Len(nodes)
                           /\ ToSet(ordered) = 1 .. Len(nodes)
                           /\ \A e \in ToSet(edges) : Position(e.from) < Position(e.to)
                           /\ \A i, j \in 1 .. Len(nodes) :
                                SameContext(nodes[i], nodes[j]) /\ nodes[i].seq < nodes[j].seq =>
                                  Position(i) < Position(j)
    BY DEF OrderExact
  <2>1. stage \in Later
    BY DEF Later
  <2>2. CASE trouble
    BY <2>1, <2>2 DEF Promises, OrderInv
  <2>3. CASE ~trouble
    <3>1. ASSUME NEW e \in ToSet(edges) PROVE Position(e.from) < Position(e.to)
      <4>1. e.from \in 1 .. Len(nodes) /\ e.to \in 1 .. Len(nodes)
        BY EdgesGoOn DEF Promises
      <4>2. <<e.from, e.to>> \in Links
        BY DEF Links
      <4> QED
        BY <2>1, <2>3, <4>1, <4>2, CompleteOrder
    <3>2. ASSUME NEW i \in 1 .. Len(nodes), NEW j \in 1 .. Len(nodes),
                 SameContext(nodes[i], nodes[j]), nodes[i].seq < nodes[j].seq
          PROVE  Position(i) < Position(j)
      BY <2>1, <2>3, <3>2, ContextInOrder
    <3> QED
      BY <2>1, <2>3, <3>1, <3>2, CompleteOrder
  <2> QED
    BY <2>2, <2>3
<1> QED
  BY <1>1, PromisesKept, PTL

\* Trouble means a circle of forks: in the process of a node that is left, the
\* left node with the least number waits for a fork that is left.
LEMMA TroubleIsCircular ==
  ASSUME Promises, stage \in Later, trouble
  PROVE  Circular(nodes)
<1> DEFINE n == Len(nodes)
           left == (1 .. n) \ Proved!Placed
           S == {nodes[i].pid : i \in left}
<1>1. /\ nodes \in Seq(Records) /\ \A i \in 1 .. n : nodes[i].seq \in Nat /\ nodes[i].pid \in Pids
  <2>1. nodes \in Seq(Records)
    BY DEF Promises, ModelInv, NodesInv, RunInv
  <2>2. \A i \in 1 .. n : nodes[i] \in Records
    BY <2>1
  <2> QED
    BY <2>1, <2>2, RecordSeq DEF Records
<1>2. Size = n /\ Arcs = Links /\ Verdict = "cyclic"
  <2>1. stage \notin {"none", "unordered", "ordering"} /\ trouble = TRUE
    BY DEF Promises, OrderInv, Later
  <2> QED
    BY <2>1, VerdictIs DEF Size, Arcs, Verdict
<1>3. left # {} /\ \A i \in left : \E a \in Links : a[1] \in left /\ a[2] = i
  BY <1>2 DEF Promises, Proved!VerdictInv, Proved!VerdictSound
<1> HIDE DEF left
<1>4. left \subseteq 1 .. n
  BY DEF left
<1>5. ASSUME NEW p \in S
      PROVE  \E i \in 1 .. n : nodes[i].kind \in ForkKinds /\ nodes[i].child = p /\ nodes[i].pid \in S
  <2> DEFINE own == {i \in left : nodes[i].pid = p}
             seqs == {nodes[i].seq : i \in own}
  <2>1. PICK i \in own : \A j \in own : nodes[i].seq <= nodes[j].seq
    <3>1. seqs \in SUBSET Nat /\ seqs # {}
      BY <1>1, <1>4
    <3>2. PICK x \in seqs : \A y \in seqs : x <= y
      <4> HIDE DEF seqs
      <4> QED
        BY <3>1, LeastNatural
    <3> QED
      BY <3>2
  <2>2. i \in left /\ i \in 1 .. n /\ nodes[i].pid = p
    BY <1>4, <2>1
  <2>3. PICK a \in Links : a[1] \in left /\ a[2] = i
    BY <1>3, <2>2
  <2>4. a[1] \in 1 .. n /\ GoesOn(nodes, a[1], i)
    <3>1. CASE a \in {<<e.from, e.to>> : e \in ToSet(edges)}
      <4>1. PICK e \in ToSet(edges) : a = <<e.from, e.to>>
        BY <3>1
      <4>2. e.from = a[1] /\ e.to = i
        BY <2>3, <4>1
      <4> QED
        BY <1>4, <2>3, <4>2, EdgesGoOn DEF Promises
    <3>2. CASE a \in UNION {{<<k, j>> : j \in ContextNext(nodes, k)} : k \in 1 .. n}
      <4>1. PICK k \in 1 .. n : \E j \in ContextNext(nodes, k) : a = <<k, j>>
        BY <3>2
      <4>2. PICK j \in ContextNext(nodes, k) : a = <<k, j>>
        BY <4>1
      <4>3. k = a[1] /\ j = i
        BY <2>3, <4>2
      <4> QED
        BY <4>3, NextGoesOn DEF Promises
    <3> QED
      BY <3>1, <3>2 DEF Links
  <2>5. CASE nodes[a[1]].pid = nodes[i].pid /\ nodes[a[1]].seq < nodes[i].seq
    <3>1. a[1] \in own
      BY <2>2, <2>3, <2>5
    <3>2. nodes[i].seq <= nodes[a[1]].seq
      BY <2>1, <3>1
    <3> QED
      BY <1>1, <2>2, <2>4, <2>5, <3>2
  <2>6. CASE nodes[a[1]].kind \in ForkKinds /\ nodes[i].pid = nodes[a[1]].child
    BY <2>2, <2>3, <2>4, <2>6
  <2> QED
    BY <2>4, <2>5, <2>6 DEF GoesOn
<1>6. S \in (SUBSET Pids) \ {{}}
  <2>1. S \subseteq Pids
    BY <1>1, <1>4
  <2>2. S # {}
    BY <1>1, <1>3
  <2> HIDE DEF S
  <2> QED
    BY <2>1, <2>2
<1> HIDE DEF S
<1> QED
  BY <1>5, <1>6 DEF Circular

\* A circle of forks is trouble: of its forks, the first in a complete order
\* would come after the fork that made its own process.
LEMMA CircularIsTrouble ==
  ASSUME Promises, stage \in Later, Circular(nodes)
  PROVE  trouble
<1> DEFINE n == Len(nodes)
<1> SUFFICES ASSUME ~trouble PROVE FALSE
  OBVIOUS
<1>1. PICK S \in (SUBSET Pids) \ {{}} :
        \A p \in S : \E i \in 1 .. n :
          nodes[i].kind \in ForkKinds /\ nodes[i].child = p /\ nodes[i].pid \in S
  BY DEF Circular
<1> DEFINE circle == {i \in 1 .. n : nodes[i].kind \in ForkKinds /\ nodes[i].pid \in S}
           places == {Position(i) : i \in circle}
<1>2. \A i \in 1 .. n : Position(i) \in 1 .. n
  BY CompleteOrder
<1>3. PICK i \in circle : \A j \in circle : Position(i) <= Position(j)
  <2>1. PICK p \in S : TRUE
    BY <1>1
  <2>2. circle # {}
    BY <1>1, <2>1
  <2>3. places \in SUBSET Nat /\ places # {}
    BY <1>2, <2>2
  <2>4. PICK x \in places : \A y \in places : x <= y
    <3> HIDE DEF places
    <3> QED
      BY <2>3, LeastNatural
  <2> QED
    BY <2>4
<1>4. PICK j \in 1 .. n :
        nodes[j].kind \in ForkKinds /\ nodes[j].child = nodes[i].pid /\ nodes[j].pid \in S
  BY <1>1, <1>3
<1>5. <<j, i>> \in Links
  <2>1. nodes \in Seq(Records) /\ i \in 1 .. n
    BY <1>3 DEF Promises, ModelInv, NodesInv, RunInv
  <2>2. Edge("PROCESS_CHILD_EVENT", j, i) \in ToSet(AllEdges(nodes))
    BY <1>4, <2>1, AllEdgesAre
  <2>3. edges = AllEdges(nodes)
    <3>1. finished
      BY DEF Promises, OrderInv, Later
    <3> QED
      BY <3>1 DEF Promises, ModelInv, AllOrNothing
  <2>4. Edge("PROCESS_CHILD_EVENT", j, i).from = j /\ Edge("PROCESS_CHILD_EVENT", j, i).to = i
    BY DEF Edge
  <2> QED
    BY <2>2, <2>3, <2>4 DEF Links
<1>6. Position(j) < Position(i)
  BY <1>3, <1>4, <1>5, CompleteOrder
<1>7. Position(i) <= Position(j)
  BY <1>3, <1>4
<1> QED
  BY <1>2, <1>3, <1>4, <1>6, <1>7

\* The analysis is in trouble over the order exactly when the forks of the
\* model name parents in a circle: no call, lifetime or sequence number ever
\* makes a cycle (build_causal_order, build_model_edges).
THEOREM TroubleCorrect == AnalysisSpec => []TroubleExact
<1>1. Promises => TroubleExact
  <2> SUFFICES ASSUME Promises, stage \in {"ordered", "traced"} PROVE trouble <=> Circular(nodes)
    BY DEF TroubleExact
  <2>1. stage \in Later
    BY DEF Later
  <2> QED
    BY <2>1, TroubleIsCircular, CircularIsTrouble
<1> QED
  BY <1>1, PromisesKept, PTL

-----------------------------------------------------------------------------
(* The stacks of the trace policy, and the room for them. *)

\* A context has a slot only if a node is of it, or a fork made its process.
SlotSet == [pid : Pids, context : Contexts, top : Nat]
EntrySet == [node : Nat, previous : Nat]
Made(pid, context) ==
  \E i \in 1 .. Len(nodes) :
    /\ nodes[i].context = context
    /\ nodes[i].pid = pid \/ (nodes[i].kind = "FORK" /\ nodes[i].child = pid)
SameKey(s, t) == s.pid = t.pid /\ s.context = t.context
Table(contexts, depth) ==
  /\ contexts \in Seq(SlotSet)
  /\ \A k, l \in DOMAIN contexts : SameKey(contexts[k], contexts[l]) => k = l
  /\ \A k \in DOMAIN contexts :
       contexts[k].top <= depth /\ Made(contexts[k].pid, contexts[k].context)

\* Nothing but forks is of the context of some node.
Bare == \E i \in 1 .. Len(nodes) :
          \A j \in 1 .. Len(nodes) : SameContext(nodes[i], nodes[j]) => nodes[j].kind = "FORK"

LEMMA RecordIs ==
  ASSUME NEW rec \in Records
  PROVE  /\ rec.pid \in Pids /\ rec.context \in Contexts
         /\ rec.kind = "FORK" => rec.child \in Pids
<1>1. rec.pid \in Pids /\ rec.context \in Contexts
  BY DEF Records
<1>2. rec.kind = "FORK" => rec.child \in Pids
  BY DEF Records, CallKinds, ForkKinds, Births, Deaths, Moves
<1> QED
  BY <1>1, <1>2

\* trace_context finds the one slot of a context.
LEMMA SlotIs ==
  ASSUME NEW contexts, NEW pid, NEW context, SlotsOf(contexts, pid, context) # {}
  PROVE  /\ Slot(contexts, pid, context) \in DOMAIN contexts
         /\ contexts[Slot(contexts, pid, context)].pid = pid
         /\ contexts[Slot(contexts, pid, context)].context = context
  BY DEF Slot, SlotsOf

\* trace_context adds no slot twice, and none for a context that is not made.
LEMMA WithContextIs ==
  ASSUME NEW depth \in Nat, NEW contexts, Table(contexts, depth),
         NEW pid \in Pids, NEW context \in Contexts, Made(pid, context)
  PROVE  /\ Table(WithContext(contexts, pid, context), depth)
         /\ SlotsOf(WithContext(contexts, pid, context), pid, context) # {}
         /\ \A p, c : SlotsOf(contexts, p, c) # {} =>
                        SlotsOf(WithContext(contexts, pid, context), p, c) # {}
<1> DEFINE new == [pid |-> pid, context |-> context, top |-> 0]
           more == WithContext(contexts, pid, context)
<1>1. CASE SlotsOf(contexts, pid, context) # {}
  BY <1>1 DEF WithContext
<1>2. CASE SlotsOf(contexts, pid, context) = {}
  <2>1. more = Append(contexts, new) /\ contexts \in Seq(SlotSet) /\ new \in SlotSet
    BY <1>2 DEF WithContext, Table, SlotSet
  <2> HIDE DEF more, new
  <2>2. /\ more \in Seq(SlotSet) /\ DOMAIN contexts = 1 .. Len(contexts) /\ Len(contexts) \in Nat
        /\ DOMAIN more = 1 .. Len(contexts) + 1 /\ more[Len(contexts) + 1] = new
        /\ \A k \in DOMAIN contexts : more[k] = contexts[k]
    BY <2>1
  <2>3. \A k \in DOMAIN more : k \in DOMAIN contexts \/ k = Len(contexts) + 1
    BY <2>2
  <2>4. new.pid = pid /\ new.context = context /\ new.top = 0
    BY DEF new
  <2>5. \A k \in DOMAIN contexts : ~SameKey(contexts[k], new)
    BY <1>2, <2>4 DEF SlotsOf, SameKey
  <2>6. ASSUME NEW k \in DOMAIN more, NEW l \in DOMAIN more, SameKey(more[k], more[l])
        PROVE  k = l
    <3>1. CASE k \in DOMAIN contexts /\ l \in DOMAIN contexts
      BY <2>2, <2>6, <3>1 DEF Table
    <3>2. CASE k = Len(contexts) + 1 /\ l = Len(contexts) + 1
      BY <3>2
    <3>3. CASE k \in DOMAIN contexts /\ l = Len(contexts) + 1
      BY <2>2, <2>5, <2>6, <3>3
    <3>4. CASE k = Len(contexts) + 1 /\ l \in DOMAIN contexts
      BY <2>2, <2>5, <2>6, <3>4 DEF SameKey
    <3> QED
      BY <2>3, <3>1, <3>2, <3>3, <3>4
  <2>7. ASSUME NEW k \in DOMAIN more
        PROVE  more[k].top <= depth /\ Made(more[k].pid, more[k].context)
    <3>1. CASE k \in DOMAIN contexts
      BY <2>2, <3>1 DEF Table
    <3>2. CASE k = Len(contexts) + 1
      BY <2>2, <2>4, <3>2
    <3> QED
      BY <2>3, <3>1, <3>2
  <2>8. Table(more, depth)
    BY <2>2, <2>6, <2>7 DEF Table
  <2>9. Len(contexts) + 1 \in SlotsOf(more, pid, context)
    BY <2>2, <2>4 DEF SlotsOf
  <2>10. ASSUME NEW p, NEW c, SlotsOf(contexts, p, c) # {}
         PROVE  SlotsOf(more, p, c) # {}
    <3>1. PICK k \in DOMAIN contexts : contexts[k].pid = p /\ contexts[k].context = c
      BY <2>10 DEF SlotsOf
    <3>2. k \in DOMAIN more /\ more[k].pid = p /\ more[k].context = c
      BY <2>2, <3>1
    <3> QED
      BY <3>2 DEF SlotsOf
  <2> QED
    BY <2>8, <2>9, <2>10 DEF more
<1> QED
  BY <1>1, <1>2

\* A new innermost call in a slot leaves the table a table.
LEMMA SlotUpdated ==
  ASSUME NEW depth \in Nat, NEW contexts, Table(contexts, depth), NEW k \in DOMAIN contexts,
         NEW s \in SlotSet, SameKey(s, contexts[k]), s.top <= depth
  PROVE  Table([contexts EXCEPT ![k] = s], depth)
<1> DEFINE new == [contexts EXCEPT ![k] = s]
<1>1. contexts \in Seq(SlotSet)
  BY DEF Table
<1>2. /\ new \in Seq(SlotSet) /\ DOMAIN new = DOMAIN contexts /\ new[k] = s
      /\ \A l \in DOMAIN contexts : l # k => new[l] = contexts[l]
  BY <1>1
<1> HIDE DEF new
<1>3. ASSUME NEW l \in DOMAIN contexts PROVE SameKey(new[l], contexts[l])
  BY <1>2 DEF SameKey
<1>4. ASSUME NEW l \in DOMAIN new, NEW m \in DOMAIN new, SameKey(new[l], new[m]) PROVE l = m
  <2>1. SameKey(contexts[l], contexts[m])
    BY <1>2, <1>3, <1>4 DEF SameKey
  <2> QED
    BY <1>2, <2>1 DEF Table
<1>5. ASSUME NEW l \in DOMAIN new
      PROVE  new[l].top <= depth /\ Made(new[l].pid, new[l].context)
  <2>1. new[l].top <= depth
    BY <1>2, <1>5 DEF Table
  <2>2. Made(contexts[l].pid, contexts[l].context)
    BY <1>2, <1>5 DEF Table
  <2> QED
    BY <1>2, <1>3, <2>1, <2>2 DEF SameKey
<1> QED
  BY <1>2, <1>4, <1>5 DEF Table, new

\* No more slots than nodes, unless a context has nothing but forks: a slot
\* belongs to a node of its context that is no fork, or to the fork that made
\* its process, and no node has two.
Owns(i, slot) ==
  /\ nodes[i].context = slot.context
  /\ IF nodes[i].kind = "FORK" THEN nodes[i].child = slot.pid ELSE nodes[i].pid = slot.pid

LEMMA TableFits ==
  ASSUME Len(nodes) \in Nat, NEW depth \in Nat, NEW contexts, Table(contexts, depth), ~Bare
  PROVE  Len(contexts) <= Len(nodes)
<1> DEFINE n == Len(nodes)
           m == Len(contexts)
<1>1. m \in Nat /\ DOMAIN contexts = 1 .. m
  BY DEF Table
<1>2. ASSUME NEW k \in 1 .. m PROVE \E i \in 1 .. n : Owns(i, contexts[k])
  <2>1. PICK i \in 1 .. n :
          /\ nodes[i].context = contexts[k].context
          /\ nodes[i].pid = contexts[k].pid \/ (nodes[i].kind = "FORK" /\ nodes[i].child = contexts[k].pid)
    BY <1>1 DEF Table, Made
  <2>2. CASE nodes[i].pid = contexts[k].pid
    <3>1. PICK j \in 1 .. n : SameContext(nodes[i], nodes[j]) /\ nodes[j].kind # "FORK"
      BY DEF Bare
    <3> QED
      BY <2>1, <2>2, <3>1 DEF SameContext, Owns
  <2>3. CASE nodes[i].kind = "FORK" /\ nodes[i].child = contexts[k].pid
    BY <2>1, <2>3 DEF Owns
  <2> QED
    BY <2>1, <2>2, <2>3
<1> DEFINE owner == [k \in 1 .. m |-> CHOOSE i \in 1 .. n : Owns(i, contexts[k])]
<1>3. \A k \in 1 .. m : owner[k] \in 1 .. n /\ Owns(owner[k], contexts[k])
  BY <1>2
<1>4. owner \in [1 .. m -> 1 .. n]
  BY <1>3
<1> HIDE DEF owner
<1>5. \A k, l \in 1 .. m : owner[k] = owner[l] => k = l
  <2> SUFFICES ASSUME NEW k \in 1 .. m, NEW l \in 1 .. m, owner[k] = owner[l] PROVE k = l
    OBVIOUS
  <2>1. Owns(owner[k], contexts[k]) /\ Owns(owner[k], contexts[l])
    BY <1>3
  <2>2. SameKey(contexts[k], contexts[l])
    BY <2>1 DEF Owns, SameKey
  <2> QED
    BY <1>1, <2>2 DEF Table
<1>6. /\ IsFiniteSet(1 .. m) /\ Cardinality(1 .. m) = m
      /\ IsFiniteSet(1 .. n) /\ Cardinality(1 .. n) = n
  <2>1. ASSUME NEW k \in Nat PROVE IsFiniteSet(1 .. k) /\ Cardinality(1 .. k) = k
    <3>1. IsFiniteSet(1 .. k) /\ Cardinality(1 .. k) = IF 1 > k THEN 0 ELSE k - 1 + 1
      BY FS_Interval, 1 \in Int, k \in Int
    <3> QED
      BY <3>1
  <2> QED
    BY <1>1, <2>1
<1>7. ~(n < m)
  BY <1>4, <1>5, <1>6, FS_PigeonHole
<1> QED
  BY <1>1, <1>7

\* The stacks only point downwards, so that a walk from the innermost call of a
\* context ends, and the contexts are told apart.
Downwards ==
  /\ stack_entries \in Seq(EntrySet)
  /\ \A e \in DOMAIN stack_entries : /\ stack_entries[e].node \in 1 .. Len(nodes)
                                     /\ stack_entries[e].previous < e
StacksApart ==
  /\ Downwards
  /\ Table(trace_contexts, Len(stack_entries))
WalkInv ==
  /\ stage \notin Later => walked = 0 /\ stack_entries = <<>> /\ trace_contexts = <<>>
  /\ walked \in Nat
  /\ StacksApart
  /\ stage = "overflow" => Bare

\* The node that the walk is at.
LEMMA CurrentIs ==
  ASSUME Promises, WalkInv, Walking
  PROVE  /\ ~trouble /\ ordered_count = Len(nodes)
         /\ Len(nodes) \in Nat /\ Current \in 1 .. Len(nodes)
         /\ nodes[Current] \in Records
<1>1. stage \in Later /\ walked < ordered_count
  BY DEF Walking, Later
<1>2. trouble \in BOOLEAN /\ (trouble => ordered_count = 0) /\ walked \in Nat
  BY <1>1 DEF Promises, OrderInv, WalkInv
<1>3. ~trouble
  BY <1>1, <1>2
<1>4. /\ nodes \in Seq(Records) /\ ordered_count = Len(nodes) /\ ordered_count = Len(ordered)
      /\ ToSet(ordered) = 1 .. Len(nodes)
  BY <1>1, <1>3, CompleteOrder DEF Promises, ModelInv, NodesInv, RunInv, OrderInv
<1>5. walked + 1 \in 1 .. Len(ordered) /\ Len(nodes) \in Nat
  BY <1>1, <1>2, <1>4
<1>6. ordered \in Seq(1 .. Len(nodes))
  <2>1. Size = Len(nodes)
    BY <1>1 DEF Size, Later
  <2> QED
    BY <2>1 DEF Promises, Proved!OrderType
<1>7. Current \in 1 .. Len(nodes)
  BY <1>5, <1>6 DEF Current
<1>8. nodes[Current] \in Records
  <2>1. nodes \in Seq(Records)
    BY <1>4
  <2>2. \A i \in 1 .. Len(nodes) : nodes[i] \in Records
    BY <2>1
  <2> QED
    BY <1>7, <2>2
<1> QED
  BY <1>3, <1>4, <1>5, <1>7, <1>8

LEMMA PoppedIs ==
  ASSUME Downwards, NEW slot \in SlotSet, slot.top <= Len(stack_entries), slot.top # 0
  PROVE  Popped(slot) \in SlotSet /\ SameKey(Popped(slot), slot) /\ Popped(slot).top < slot.top
<1>1. slot.top \in DOMAIN stack_entries
  BY DEF Downwards, SlotSet
<1>2. stack_entries[slot.top].previous \in Nat /\ stack_entries[slot.top].previous < slot.top
  <2>1. stack_entries \in Seq(EntrySet)
    BY DEF Downwards
  <2>2. stack_entries[slot.top] \in EntrySet
    BY <1>1, <2>1
  <2>3. stack_entries[slot.top].previous < slot.top
    BY <1>1 DEF Downwards
  <2> QED
    BY <2>2, <2>3 DEF EntrySet
<1> QED
  BY <1>2 DEF Popped, SlotSet, SameKey

\* What a step of the walk needs: the table with the slots of its node.
LEMMA NeedsIs ==
  ASSUME Promises, WalkInv, Walking
  PROVE  Table(Needs(nodes[Current]), Len(stack_entries))
<1> DEFINE n == nodes[Current]
           depth == Len(stack_entries)
<1>1. Current \in 1 .. Len(nodes) /\ n \in Records
  BY CurrentIs
<1>2. n.pid \in Pids /\ n.context \in Contexts /\ (n.kind = "FORK" => n.child \in Pids)
  BY <1>1, RecordIs
<1>3. depth \in Nat /\ Table(trace_contexts, depth)
  BY DEF WalkInv, StacksApart, Downwards
<1>4. Made(n.pid, n.context) /\ (n.kind = "FORK" => Made(n.child, n.context))
  BY <1>1 DEF Made
<1> HIDE DEF n, depth
<1>5. Table(WithContext(trace_contexts, n.pid, n.context), depth)
  BY <1>2, <1>3, <1>4, WithContextIs
<1>6. n.kind = "FORK" =>
        Table(WithContext(WithContext(trace_contexts, n.pid, n.context), n.child, n.context), depth)
  BY <1>2, <1>3, <1>4, <1>5, WithContextIs
<1>7. Table(Needs(n), depth)
  BY <1>3, <1>5, <1>6 DEF Needs
<1> QED
  BY <1>7 DEF n, depth

LEMMA ForkKeepsTable ==
  ASSUME Promises, WalkInv, WalkFork
  PROVE  Table(trace_contexts', Len(stack_entries))
<1> DEFINE n == nodes[Current]
           depth == Len(stack_entries)
           some == WithContext(trace_contexts, n.pid, n.context)
           contexts == WithContext(some, n.child, n.context)
           own == Slot(contexts, n.pid, n.context)
           new == Slot(contexts, n.child, n.context)
           heir == [Inherited(contexts[own], n.name) EXCEPT !.pid = n.child]
<1>1. Current \in 1 .. Len(nodes) /\ n \in Records /\ n.kind = "FORK"
  BY CurrentIs DEF WalkFork
<1>2. n.pid \in Pids /\ n.context \in Contexts /\ n.child \in Pids
  BY <1>1, RecordIs
<1>3. depth \in Nat /\ Table(trace_contexts, depth) /\ Downwards
  BY DEF WalkInv, StacksApart, Downwards
<1>4. Made(n.pid, n.context) /\ Made(n.child, n.context)
  BY <1>1 DEF Made
<1>5. trace_contexts' = [contexts EXCEPT ![new] = heir]
  BY DEF WalkFork
<1> HIDE DEF n, depth
<1>6. Table(some, depth) /\ SlotsOf(some, n.pid, n.context) # {}
  BY <1>2, <1>3, <1>4, WithContextIs
<1> HIDE DEF some
<1>7. /\ Table(contexts, depth) /\ SlotsOf(contexts, n.child, n.context) # {}
      /\ SlotsOf(contexts, n.pid, n.context) # {}
  BY <1>2, <1>3, <1>4, <1>6, WithContextIs
<1> HIDE DEF contexts
<1>8. /\ own \in DOMAIN contexts /\ contexts[own].pid = n.pid /\ contexts[own].context = n.context
      /\ new \in DOMAIN contexts /\ contexts[new].pid = n.child /\ contexts[new].context = n.context
  BY <1>7, SlotIs
<1> HIDE DEF own, new
<1> DEFINE slot == contexts[own]
           kept == Inherited(slot, n.name)
<1>9. slot \in SlotSet /\ slot.top <= depth /\ slot.context = n.context
  BY <1>7, <1>8 DEF Table
<1> HIDE DEF slot
<1>10. kept \in SlotSet /\ kept.context = n.context /\ kept.top <= depth
  <2>1. CASE kept = slot
    BY <1>9, <2>1
  <2>2. CASE kept # slot
    <3>1. slot.top # 0 /\ kept = Popped(slot)
      BY <2>2 DEF Inherited
    <3>2. Popped(slot) \in SlotSet /\ SameKey(Popped(slot), slot) /\ Popped(slot).top < slot.top
      BY <1>3, <1>9, <3>1, PoppedIs DEF depth
    <3>3. kept.top \in Nat /\ slot.top \in Nat
      BY <1>9, <3>1, <3>2 DEF SlotSet
    <3> QED
      BY <1>3, <1>9, <3>1, <3>2, <3>3 DEF SameKey
  <2> QED
    BY <2>1, <2>2
<1>11. heir = [kept EXCEPT !.pid = n.child]
  BY DEF slot
<1> HIDE DEF kept, heir
<1>12. heir \in SlotSet /\ SameKey(heir, contexts[new]) /\ heir.top <= depth
  BY <1>2, <1>8, <1>10, <1>11 DEF SlotSet, SameKey
<1>13. Table([contexts EXCEPT ![new] = heir], depth)
  BY <1>3, <1>7, <1>8, <1>12, SlotUpdated
<1> QED
  BY <1>5, <1>13 DEF depth, contexts, some, n, own, new, heir

LEMMA EnterKeepsStacks ==
  ASSUME Promises, WalkInv, WalkEnter, UNCHANGED model
  PROVE  StacksApart'
<1> DEFINE n == nodes[Current]
           depth == Len(stack_entries)
           contexts == WithContext(trace_contexts, n.pid, n.context)
           own == Slot(contexts, n.pid, n.context)
           entry == [node |-> Current, previous |-> contexts[own].top]
           slot == [contexts[own] EXCEPT !.top = depth + 1]
<1>1. Current \in 1 .. Len(nodes) /\ n \in Records /\ Len(nodes) \in Nat
  BY CurrentIs DEF WalkEnter
<1>2. n.pid \in Pids /\ n.context \in Contexts
  BY <1>1, RecordIs
<1>3. depth \in Nat /\ Table(trace_contexts, depth) /\ Downwards
  BY DEF WalkInv, StacksApart, Downwards
<1>4. Made(n.pid, n.context)
  BY <1>1 DEF Made
<1>5. /\ stack_entries' = Append(stack_entries, entry) /\ nodes' = nodes
      /\ trace_contexts' = [contexts EXCEPT ![own].top = depth + 1]
  BY DEF WalkEnter, model
<1> HIDE DEF n
<1>6. Table(contexts, depth) /\ SlotsOf(contexts, n.pid, n.context) # {}
  <2> HIDE DEF depth
  <2> QED
    BY <1>2, <1>3, <1>4, WithContextIs
<1> HIDE DEF contexts
<1>7. own \in DOMAIN contexts /\ contexts \in Seq(SlotSet) /\ contexts[own] \in SlotSet
      /\ contexts[own].top <= depth
  <2>1. own \in DOMAIN contexts
    BY <1>6, SlotIs
  <2> HIDE DEF own
  <2> QED
    BY <1>6, <2>1 DEF Table
<1> HIDE DEF own
<1>8. trace_contexts' = [contexts EXCEPT ![own] = slot]
  BY <1>5
<1>9. slot \in SlotSet /\ SameKey(slot, contexts[own]) /\ slot.top <= depth + 1
  BY <1>3, <1>7 DEF SlotSet, SameKey
<1>10. entry \in EntrySet /\ entry.node \in 1 .. Len(nodes)
       /\ entry.previous < depth + 1
  BY <1>1, <1>3, <1>7 DEF SlotSet, EntrySet
<1> HIDE DEF slot, entry
<1>11. Downwards'
  <2>1. /\ stack_entries' \in Seq(EntrySet) /\ Len(stack_entries') = depth + 1
        /\ DOMAIN stack_entries' = 1 .. depth + 1 /\ DOMAIN stack_entries = 1 .. depth
        /\ stack_entries'[depth + 1] = entry
        /\ \A e \in 1 .. depth : stack_entries'[e] = stack_entries[e]
    BY <1>3, <1>5, <1>10 DEF Downwards
  <2> SUFFICES ASSUME NEW e \in DOMAIN stack_entries'
               PROVE  /\ stack_entries'[e].node \in 1 .. Len(nodes)
                      /\ stack_entries'[e].previous < e
    BY <1>5, <2>1 DEF Downwards
  <2>2. CASE e = depth + 1
    BY <1>10, <2>1, <2>2
  <2>3. CASE e \in 1 .. depth
    BY <1>3, <2>1, <2>3 DEF Downwards
  <2> QED
    BY <1>3, <2>1, <2>2, <2>3
<1>12. Len(stack_entries') = depth + 1
  BY <1>3, <1>5, <1>10 DEF Downwards
<1>13. Table(contexts, depth + 1)
  <2>1. ASSUME NEW k \in DOMAIN contexts PROVE contexts[k].top <= depth + 1
    <3>1. contexts[k] \in SlotSet
      BY <1>7, <2>1
    <3>2. contexts[k].top <= depth
      BY <1>6, <2>1 DEF Table
    <3> QED
      BY <1>3, <3>1, <3>2 DEF SlotSet
  <2> QED
    BY <1>6, <2>1 DEF Table
<1>14. Table(trace_contexts', depth + 1)
  <2>1. depth + 1 \in Nat
    BY <1>3
  <2> HIDE DEF depth
  <2> QED
    BY <1>7, <1>8, <1>9, <1>13, <2>1, SlotUpdated
<1>15. Table(trace_contexts, Len(stack_entries))'
  <2>1. UNCHANGED nodes
    BY <1>5
  <2>2. \A pid, context : Made(pid, context) => Made(pid, context)'
    BY <2>1 DEF Made
  <2> QED
    BY <1>12, <1>14, <2>2 DEF Table
<1> QED
  BY <1>11, <1>15 DEF StacksApart

LEMMA ExitKeepsTable ==
  ASSUME Promises, WalkInv, WalkExit
  PROVE  Table(trace_contexts', Len(stack_entries))
<1> DEFINE n == nodes[Current]
           depth == Len(stack_entries)
           contexts == WithContext(trace_contexts, n.pid, n.context)
           own == Slot(contexts, n.pid, n.context)
           slot == contexts[own]
<1>1. n \in Records /\ Current \in 1 .. Len(nodes)
  BY CurrentIs DEF WalkExit
<1>2. n.pid \in Pids /\ n.context \in Contexts
  BY <1>1, RecordIs
<1>3. depth \in Nat /\ Table(trace_contexts, depth) /\ Downwards
  BY DEF WalkInv, StacksApart, Downwards
<1>4. Made(n.pid, n.context)
  BY <1>1 DEF Made
<1>5. \/ trace_contexts' = contexts
      \/ slot.top # 0 /\ trace_contexts' = [contexts EXCEPT ![own] = Popped(slot)]
  BY DEF WalkExit
<1> HIDE DEF n, depth
<1>6. Table(contexts, depth) /\ SlotsOf(contexts, n.pid, n.context) # {}
  BY <1>2, <1>3, <1>4, WithContextIs
<1> HIDE DEF contexts
<1>7. own \in DOMAIN contexts
  BY <1>6, SlotIs
<1> HIDE DEF own
<1>8. slot \in SlotSet /\ slot.top <= depth
  BY <1>6, <1>7 DEF Table
<1>9. CASE trace_contexts' = contexts
  BY <1>6, <1>9 DEF depth
<1>10. CASE slot.top # 0 /\ trace_contexts' = [contexts EXCEPT ![own] = Popped(slot)]
  <2>1. Popped(slot) \in SlotSet /\ SameKey(Popped(slot), slot) /\ Popped(slot).top < slot.top
    BY <1>3, <1>8, <1>10, PoppedIs DEF depth
  <2>2. Popped(slot).top <= depth
    BY <1>3, <1>8, <2>1 DEF SlotSet
  <2>3. Table([contexts EXCEPT ![own] = Popped(slot)], depth)
    BY <1>3, <1>6, <1>7, <2>1, <2>2, SlotUpdated
  <2> QED
    BY <1>10, <2>3 DEF depth
<1> QED
  BY <1>5, <1>9, <1>10

LEMMA NoStacks ==
  /\ stack_entries = <<>> /\ trace_contexts = <<>> => StacksApart
  /\ stack_entries' = <<>> /\ trace_contexts' = <<>> => StacksApart'
<1>1. /\ \A S : <<>> \in Seq(S)
      /\ DOMAIN <<>> = {} /\ Len(<<>>) = 0
  OBVIOUS
<1>2. stack_entries = <<>> /\ trace_contexts = <<>> => StacksApart
  BY <1>1 DEF StacksApart, Downwards, Table
<1>3. stack_entries' = <<>> /\ trace_contexts' = <<>> => StacksApart'
  BY <1>1 DEF StacksApart, Downwards, Table
<1> QED
  BY <1>2, <1>3

\* What a step that leaves the model and the stacks alone leaves.
LEMMA StacksStay ==
  ASSUME StacksApart, UNCHANGED <<nodes, stack_entries>>, Table(trace_contexts', Len(stack_entries))
  PROVE  StacksApart'
<1>1. Downwards'
  BY DEF StacksApart, Downwards
<1>2. Table(trace_contexts, Len(stack_entries))'
  BY DEF Table, Made
<1> QED
  BY <1>1, <1>2 DEF StacksApart

LEMMA WalkStep ==
  ASSUME Promises, WalkInv, [AnalysisNext]_analysis
  PROVE  WalkInv'
<1>1. Table(trace_contexts, Len(stack_entries)) /\ StacksApart /\ walked \in Nat
  BY DEF WalkInv, StacksApart
<1>2. CASE Next /\ UNCHANGED <<ordering, tracing>>
  <2>1. ~finished
    BY <1>2 DEF Next, Ingest, IngestFails, Finish, FinishFails
  <2>2. stage = "none"
    BY <2>1 DEF Promises, OrderInv
  <2>3. /\ stage' = "none" /\ "none" \notin Later
        /\ walked' = 0 /\ stack_entries' = <<>> /\ trace_contexts' = <<>>
    BY <1>2, <2>2 DEF WalkInv, ordering, tracing, Later
  <2>4. StacksApart'
    BY <2>3, NoStacks
  <2> QED
    BY <2>3, <2>4 DEF WalkInv
<1>3. CASE OrderNext /\ UNCHANGED tracing
  <2>1. /\ UNCHANGED <<nodes, walked, stack_entries, trace_contexts>>
        /\ stage \notin Later /\ stage' # "overflow"
    BY <1>3 DEF OrderNext, StartOrder, Emit, OrderDone, StartFails, model, tracing, Later
  <2>2. StacksApart'
    BY <1>1, <2>1, StacksStay
  <2> QED
    BY <1>1, <2>1, <2>2 DEF WalkInv
<1>4. CASE TraceNext
  <2>1. UNCHANGED nodes /\ UNCHANGED model
    BY <1>4 DEF TraceNext, model
  <2>2. CASE WalkFork
    <3>1. StacksApart'
      BY <1>1, <2>1, <2>2, ForkKeepsTable, StacksStay DEF WalkFork
    <3>2. stage \in Later /\ stage # "overflow" /\ walked' = walked + 1 /\ stage' = stage
      BY <2>2 DEF WalkFork, Walking, Later
    <3> QED
      BY <1>1, <3>1, <3>2 DEF WalkInv
  <2>3. CASE WalkEnter
    <3>1. StacksApart'
      BY <2>1, <2>3, EnterKeepsStacks
    <3>2. stage \in Later /\ stage # "overflow" /\ walked' = walked + 1 /\ stage' = stage
      BY <2>3 DEF WalkEnter, Walking, Later
    <3> QED
      BY <1>1, <3>1, <3>2 DEF WalkInv
  <2>4. CASE WalkExit
    <3>1. StacksApart'
      BY <1>1, <2>1, <2>4, ExitKeepsTable, StacksStay DEF WalkExit
    <3>2. stage \in Later /\ stage # "overflow" /\ walked' = walked + 1 /\ stage' = stage
      BY <2>4 DEF WalkExit, Walking, Later
    <3> QED
      BY <1>1, <3>1, <3>2 DEF WalkInv
  <2>5. CASE WalkOther
    <3>1. StacksApart'
      BY <1>1, <2>1, <2>5, StacksStay DEF WalkOther
    <3>2. stage \in Later /\ stage # "overflow" /\ walked' = walked + 1 /\ stage' = stage
      BY <2>5 DEF WalkOther, Walking, Later
    <3> QED
      BY <1>1, <3>1, <3>2 DEF WalkInv
  <2>6. CASE WalkOverflows
    <3>1. Len(nodes) \in Nat /\ ordered_count = Len(nodes) /\ Walking
      BY <2>6, CurrentIs DEF WalkOverflows
    <3>2. ~(Len(Needs(nodes[Current])) <= Len(nodes))
      BY <2>6, <3>1 DEF WalkOverflows, Fits
    <3>3. Table(Needs(nodes[Current]), Len(stack_entries)) /\ Len(stack_entries) \in Nat
      BY <3>1, NeedsIs DEF WalkInv, StacksApart, Downwards
    <3>4. Bare
      BY <3>1, <3>2, <3>3, TableFits
    <3>5. Bare'
      BY <2>1, <3>4 DEF Bare
    <3>6. /\ UNCHANGED <<walked, stack_entries, trace_contexts>> /\ stage' \in Later
      BY <2>6 DEF WalkOverflows, tracing, Later
    <3>7. StacksApart'
      BY <1>1, <2>1, <3>6, StacksStay
    <3> QED
      BY <1>1, <3>5, <3>6, <3>7 DEF WalkInv
  <2>7. CASE WalkDone \/ WalkFails
    <3>1. /\ UNCHANGED <<walked, stack_entries, trace_contexts>>
          /\ stage' \in Later /\ stage' # "overflow"
      BY <2>7 DEF WalkDone, WalkFails, tracing, Later
    <3>2. StacksApart'
      BY <1>1, <2>1, <3>1, StacksStay
    <3> QED
      BY <1>1, <3>1, <3>2 DEF WalkInv
  <2> QED
    BY <1>4, <2>2, <2>3, <2>4, <2>5, <2>6, <2>7 DEF TraceNext
<1>5. CASE UNCHANGED analysis
  <2>1. UNCHANGED <<nodes, stage, walked, stack_entries, trace_contexts>>
    BY <1>5 DEF analysis, model, ordering, tracing
  <2>2. StacksApart'
    BY <1>1, <2>1, StacksStay
  <2>3. Bare' <=> Bare
    BY <2>1 DEF Bare
  <2> QED
    BY <2>1, <2>2, <2>3 DEF WalkInv
<1> QED
  BY <1>2, <1>3, <1>4, <1>5 DEF AnalysisNext

LEMMA WalkCorrect == AnalysisSpec => []WalkInv
<1>1. AnalysisInit => WalkInv
  <2> SUFFICES ASSUME AnalysisInit PROVE WalkInv
    OBVIOUS
  <2>1. /\ stage = "none" /\ walked = 0 /\ stack_entries = <<>> /\ trace_contexts = <<>>
    BY DEF AnalysisInit, OrderInit, TraceInit
  <2> QED
    BY <2>1, NoStacks DEF WalkInv
<1>2. Promises /\ WalkInv /\ [AnalysisNext]_analysis => WalkInv'
  BY WalkStep
<1> QED
  BY <1>1, <1>2, PromisesKept, PTL DEF AnalysisSpec

\* An entry of stack_entries points to an older one and the top of a context to
\* an entry there is, so that a walk down any stack ends (analyze_trace); and no
\* context has two slots (trace_context).
THEOREM StacksEnd == AnalysisSpec => []StacksApart
<1>1. WalkInv => StacksApart
  BY DEF WalkInv
<1> QED
  BY <1>1, WalkCorrect, PTL

\* The limit on contexts stops only a run with a context of nothing but forks:
\* else every slot belongs to a node, and no node to two (trace_context).
THEOREM OverflowCorrect == AnalysisSpec => []OverflowOnlyBare
<1>1. WalkInv => OverflowOnlyBare
  BY DEF WalkInv, OverflowOnlyBare, Bare
<1> QED
  BY <1>1, WalkCorrect, PTL

-----------------------------------------------------------------------------
(* The call tree.  The height of a context rises with each ENTER and falls *)
(* with each EXIT; an EXIT closes the latest ENTER whose level it returns  *)
(* to.                                                                     *)

Here(k, p, x) == nodes[k].pid = p /\ nodes[k].context = x
Upto(kind, p, x, k) == Cardinality({j \in 1 .. k : nodes[j].kind = kind /\ Here(j, p, x)})
Height(p, x, k) == Upto("ENTER", p, x, k) - Upto("EXIT", p, x, k)

\* A count up to a place is the count before another one and the count between.
LEMMA CountBetween ==
  ASSUME NEW kind, NEW p, NEW x, NEW a \in Nat \ {0}, NEW b \in Nat, a <= b + 1
  PROVE  /\ Upto(kind, p, x, b) \in Nat
         /\ Cardinality({j \in a .. b : nodes[j].kind = kind /\ Here(j, p, x)})
              = Upto(kind, p, x, b) - Upto(kind, p, x, a - 1)
<1> DEFINE Is(j) == nodes[j].kind = kind /\ Here(j, p, x)
           all == {j \in 1 .. b : Is(j)}
           before == {j \in 1 .. a - 1 : Is(j)}
           between == {j \in a .. b : Is(j)}
<1>1. all = before \cup between /\ before \cap between = {}
  <2> HIDE DEF Is
  <2> QED
    OBVIOUS
<1>2. IsFiniteSet(1 .. b) /\ all \subseteq 1 .. b
  <2> HIDE DEF Is
  <2> QED
    BY FS_Interval
<1>3. IsFiniteSet(all) /\ before \subseteq all /\ between \subseteq all
  BY <1>1, <1>2, FS_Subset
<1>4. /\ Upto(kind, p, x, b) = Cardinality(all)
      /\ Upto(kind, p, x, a - 1) = Cardinality(before)
  BY DEF Upto
<1> HIDE DEF all, before, between
<1>5. IsFiniteSet(before) /\ IsFiniteSet(between)
  BY <1>3, FS_Subset
<1>6. Cardinality(all) = Cardinality(before) + Cardinality(between) - Cardinality(before \cap between)
  BY <1>1, <1>5, FS_Union
<1>7. Cardinality(before \cap between) = 0 /\ Cardinality(all) \in Nat
      /\ Cardinality(before) \in Nat /\ Cardinality(between) \in Nat
  BY <1>1, <1>3, <1>5, FS_EmptySet, FS_CardinalityType
<1> QED
  BY <1>4, <1>6, <1>7 DEF between

LEMMA CountIs ==
  ASSUME NEW kind, NEW p, NEW x, NEW k \in Nat
  PROVE  Upto(kind, p, x, k) \in Nat
<1>1. 1 \in Nat \ {0} /\ 1 <= k + 1
  OBVIOUS
<1> QED
  BY <1>1, CountBetween

\* Only an ENTER or an EXIT of the context changes its height, by one.
LEMMA HeightIs ==
  ASSUME NEW p, NEW x, NEW k \in Nat
  PROVE  /\ Height(p, x, k) \in Int
         /\ k # 0 => Height(p, x, k) = Height(p, x, k - 1)
              + (IF ~Here(k, p, x) THEN 0
                 ELSE IF nodes[k].kind = "ENTER" THEN 1
                 ELSE IF nodes[k].kind = "EXIT" THEN -1 ELSE 0)
<1>1. \A kind : Upto(kind, p, x, k) \in Nat
  BY CountIs
<1>2. ASSUME NEW kind, k # 0
      PROVE  /\ Upto(kind, p, x, k - 1) \in Nat
             /\ Upto(kind, p, x, k) = Upto(kind, p, x, k - 1)
                  + (IF nodes[k].kind = kind /\ Here(k, p, x) THEN 1 ELSE 0)
  <2> DEFINE S == {j \in k .. k : nodes[j].kind = kind /\ Here(j, p, x)}
  <2>1. Cardinality(S) = Upto(kind, p, x, k) - Upto(kind, p, x, k - 1)
    BY <1>2, CountBetween
  <2>2. Upto(kind, p, x, k - 1) \in Nat
    BY <1>2, CountIs
  <2>3. k .. k = {k}
    OBVIOUS
  <2>4. S = IF nodes[k].kind = kind /\ Here(k, p, x) THEN {k} ELSE {}
    BY <2>3
  <2>5. Cardinality({k}) = 1 /\ Cardinality({}) = 0
    BY FS_Singleton, FS_EmptySet
  <2> HIDE DEF S
  <2> QED
    BY <1>1, <2>1, <2>2, <2>4, <2>5
<1> QED
  BY <1>1, <1>2 DEF Height

\* An EXIT closes an ENTER if the height comes back to what it was before the
\* ENTER, and was above it ever since.
ClosesAt(p, x, a, b) ==
  /\ Here(a, p, x) /\ nodes[a].kind = "ENTER" /\ Here(b, p, x) /\ nodes[b].kind = "EXIT"
  /\ a < b /\ Height(p, x, b) = Height(p, x, a - 1)
  /\ \A k \in a .. b - 1 : Height(p, x, k) > Height(p, x, a - 1)

LEMMA ClosesIs ==
  ASSUME NEW p, NEW x, NEW a \in 1 .. Len(nodes), NEW b \in 1 .. Len(nodes), Here(b, p, x)
  PROVE  Closes(a, b) <=> ClosesAt(p, x, a, b)
<1>1. ASSUME NEW k \in a .. b, Here(k, p, x), NEW kind
      PROVE  CallsBetween(kind, a, k) = Upto(kind, p, x, k) - Upto(kind, p, x, a - 1)
  <2>1. CallsBetween(kind, a, k) = Cardinality({j \in a .. k : nodes[j].kind = kind /\ Here(j, p, x)})
    BY <1>1 DEF CallsBetween, SameContext, Here
  <2> QED
    BY <1>1, <2>1, CountBetween
<1>2. \A k \in 0 .. b : \A kind : Upto(kind, p, x, k) \in Nat
  BY CountIs
<1>3. ASSUME NEW k \in a .. b, Here(k, p, x)
      PROVE  /\ CallsBetween("ENTER", a, k) - CallsBetween("EXIT", a, k)
                  = Height(p, x, k) - Height(p, x, a - 1)
             /\ CallsBetween("ENTER", a, k) \in Int /\ CallsBetween("EXIT", a, k) \in Int
             /\ Height(p, x, k) \in Int /\ Height(p, x, a - 1) \in Int
  <2>1. a - 1 \in 0 .. b /\ k \in 0 .. b
    OBVIOUS
  <2>2. /\ Upto("ENTER", p, x, k) \in Nat /\ Upto("EXIT", p, x, k) \in Nat
        /\ Upto("ENTER", p, x, a - 1) \in Nat /\ Upto("EXIT", p, x, a - 1) \in Nat
    BY <1>2, <2>1
  <2>3. /\ CallsBetween("ENTER", a, k) = Upto("ENTER", p, x, k) - Upto("ENTER", p, x, a - 1)
        /\ CallsBetween("EXIT", a, k) = Upto("EXIT", p, x, k) - Upto("EXIT", p, x, a - 1)
    BY <1>1, <1>3
  <2> QED
    BY <2>2, <2>3 DEF Height
<1> DEFINE above == \A k \in a .. b - 1 : Here(k, p, x) => Height(p, x, k) > Height(p, x, a - 1)
<1>4. a < b =>
        (/\ CallsBetween("ENTER", a, b) = CallsBetween("EXIT", a, b)
         /\ \A k \in a .. b - 1 : SameContext(nodes[k], nodes[b]) =>
              CallsBetween("ENTER", a, k) > CallsBetween("EXIT", a, k))
        <=> Height(p, x, b) = Height(p, x, a - 1) /\ above
  <2> SUFFICES ASSUME a < b
               PROVE  (/\ CallsBetween("ENTER", a, b) = CallsBetween("EXIT", a, b)
                       /\ \A k \in a .. b - 1 : SameContext(nodes[k], nodes[b]) =>
                            CallsBetween("ENTER", a, k) > CallsBetween("EXIT", a, k))
                      <=> Height(p, x, b) = Height(p, x, a - 1) /\ above
    OBVIOUS
  <2>1. CallsBetween("ENTER", a, b) = CallsBetween("EXIT", a, b) <=> Height(p, x, b) = Height(p, x, a - 1)
    BY <1>3
  <2>2. \A k \in a .. b - 1 : SameContext(nodes[k], nodes[b]) <=> Here(k, p, x)
    BY DEF SameContext, Here
  <2>3. \A k \in a .. b - 1 : Here(k, p, x) =>
          (CallsBetween("ENTER", a, k) > CallsBetween("EXIT", a, k)
             <=> Height(p, x, k) > Height(p, x, a - 1))
    BY <1>3
  <2> QED
    BY <2>1, <2>2, <2>3
<1>5. ASSUME above, a < b, Here(a, p, x), nodes[a].kind = "ENTER", NEW m \in a .. b - 1
      PROVE  Height(p, x, m) > Height(p, x, a - 1)
  <2> DEFINE low == {k \in a .. b - 1 : ~(Height(p, x, k) > Height(p, x, a - 1))}
  <2> SUFFICES ASSUME low # {} PROVE FALSE
    OBVIOUS
  <2>1. low \in SUBSET Nat
    OBVIOUS
  <2>2. PICK k \in low : \A l \in low : k <= l
    BY <2>1, LeastNatural
  <2>3. Height(p, x, a) = Height(p, x, a - 1) + 1 /\ Height(p, x, a - 1) \in Int
    BY <1>5, HeightIs
  <2>4. k # a /\ k \in a .. b - 1 /\ ~Here(k, p, x)
    BY <1>5, <2>3
  <2>5. Height(p, x, k) = Height(p, x, k - 1) + 0 /\ Height(p, x, k - 1) \in Int
    BY <2>4, HeightIs
  <2>6. k - 1 \in low
    BY <2>4, <2>5
  <2> QED
    BY <2>2, <2>4, <2>6
<1>6. Here(b, p, x) /\ (SameContext(nodes[a], nodes[b]) <=> Here(a, p, x))
  BY DEF SameContext, Here
<1>7. ASSUME Closes(a, b) PROVE ClosesAt(p, x, a, b)
  <2>1. above /\ a < b /\ Here(a, p, x) /\ nodes[a].kind = "ENTER" /\ nodes[b].kind = "EXIT"
        /\ Height(p, x, b) = Height(p, x, a - 1)
    BY <1>4, <1>6, <1>7 DEF Closes
  <2>2. \A m \in a .. b - 1 : Height(p, x, m) > Height(p, x, a - 1)
    BY <1>5, <2>1
  <2> QED
    BY <2>1, <2>2 DEF ClosesAt
<1>8. ASSUME ClosesAt(p, x, a, b) PROVE Closes(a, b)
  <2>1. /\ a < b /\ Here(a, p, x) /\ nodes[a].kind = "ENTER" /\ nodes[b].kind = "EXIT"
        /\ Height(p, x, b) = Height(p, x, a - 1) /\ above
    BY <1>8 DEF ClosesAt
  <2> HIDE DEF above
  <2> QED
    BY <1>4, <1>6, <2>1 DEF Closes
<1> QED
  BY <1>7, <1>8

\* An EXIT closes one ENTER, and an ENTER is closed by one EXIT.
LEMMA ClosesOnce ==
  ASSUME NEW p, NEW x, NEW a \in Nat \ {0}, NEW b \in Nat, NEW c \in Nat \ {0}, NEW d \in Nat,
         ClosesAt(p, x, a, b), ClosesAt(p, x, c, d)
  PROVE  a = c <=> b = d
<1>1. /\ Height(p, x, a - 1) \in Int /\ Height(p, x, b) \in Int
      /\ Height(p, x, c - 1) \in Int /\ Height(p, x, d) \in Int
  BY HeightIs
<1>2. /\ a < b /\ Height(p, x, b) = Height(p, x, a - 1)
      /\ \A k \in a .. b - 1 : Height(p, x, k) > Height(p, x, a - 1)
      /\ c < d /\ Height(p, x, d) = Height(p, x, c - 1)
      /\ \A k \in c .. d - 1 : Height(p, x, k) > Height(p, x, c - 1)
  BY DEF ClosesAt
<1>3. ASSUME b = d, a < c PROVE FALSE
  <2>1. c - 1 \in a .. b - 1
    BY <1>2, <1>3
  <2> QED
    BY <1>1, <1>2, <1>3, <2>1
<1>4. ASSUME b = d, c < a PROVE FALSE
  <2>1. a - 1 \in c .. d - 1
    BY <1>2, <1>4
  <2> QED
    BY <1>1, <1>2, <1>4, <2>1
<1>5. ASSUME a = c, b < d PROVE FALSE
  <2>1. b \in c .. d - 1
    BY <1>2, <1>5
  <2> QED
    BY <1>1, <1>2, <1>5, <2>1
<1>6. ASSUME a = c, d < b PROVE FALSE
  <2>1. d \in a .. b - 1
    BY <1>2, <1>6
  <2> QED
    BY <1>1, <1>2, <1>6, <2>1
<1> QED
  BY <1>3, <1>4, <1>5, <1>6

\* Where the height has come back to what it was before an ENTER, an EXIT has
\* closed it.
LEMMA FallCloses ==
  ASSUME NEW p, NEW x, NEW a \in Nat \ {0}, Here(a, p, x), nodes[a].kind = "ENTER",
         NEW m \in Nat, a <= m, Height(p, x, m) <= Height(p, x, a - 1)
  PROVE  \E b \in a + 1 .. m : ClosesAt(p, x, a, b)
<1> DEFINE low == {k \in a .. m : Height(p, x, k) <= Height(p, x, a - 1)}
<1>1. low \in SUBSET Nat /\ m \in low
  OBVIOUS
<1>2. PICK k \in low : \A l \in low : k <= l
  <2> HIDE DEF low
  <2> QED
    BY <1>1, LeastNatural
<1>3. Height(p, x, a) = Height(p, x, a - 1) + 1 /\ Height(p, x, a - 1) \in Int
  BY HeightIs
<1>4. k # a /\ k \in a + 1 .. m
  BY <1>3
<1>5. /\ Height(p, x, k) \in Int /\ Height(p, x, k - 1) \in Int
      /\ Height(p, x, k) = Height(p, x, k - 1)
           + (IF ~Here(k, p, x) THEN 0
              ELSE IF nodes[k].kind = "ENTER" THEN 1
              ELSE IF nodes[k].kind = "EXIT" THEN -1 ELSE 0)
  BY <1>4, HeightIs
<1>6. \A l \in a .. k - 1 : Height(p, x, l) > Height(p, x, a - 1)
  <2> SUFFICES ASSUME NEW l \in a .. k - 1, ~(Height(p, x, l) > Height(p, x, a - 1))
               PROVE  FALSE
    OBVIOUS
  <2>1. Height(p, x, l) \in Int
    BY HeightIs
  <2>2. l \in low
    BY <1>3, <1>4, <2>1
  <2> QED
    BY <1>2, <1>4, <2>2
<1>7. Height(p, x, k - 1) > Height(p, x, a - 1) /\ Height(p, x, k) <= Height(p, x, a - 1)
  BY <1>4, <1>6
<1>8. /\ Here(k, p, x) /\ nodes[k].kind = "EXIT" /\ Height(p, x, k) = Height(p, x, a - 1)
  BY <1>3, <1>5, <1>7
<1> QED
  BY <1>4, <1>6, <1>8 DEF ClosesAt

\* The calls that matched_exit knows after i nodes are those closed by then.
Stacked(p, x, M, i) ==
  \A j \in 1 .. Len(nodes) :
    Here(j, p, x) /\ nodes[j].kind = "ENTER" =>
      /\ j \in DOMAIN M[i] <=> \E b \in 1 .. i : ClosesAt(p, x, j, b)
      /\ j \in DOMAIN M[i] => M[i][j] \in 1 .. i /\ ClosesAt(p, x, j, M[i][j])

\* Every EXIT of the context has the name of the call it closes.
Nests(p, x) ==
  \A b \in 1 .. Len(nodes) :
    nodes[b].kind = "EXIT" /\ Here(b, p, x) =>
      \E a \in 1 .. Len(nodes) : ClosesAt(p, x, a, b) /\ nodes[a].name = nodes[b].name

\* An EXIT then finds the call that it closes.
LEMMA ExitFinds ==
  ASSUME nodes \in Seq(Records),
         NEW p, NEW x, NEW M, NEW i \in 1 .. Len(nodes), Stacked(p, x, M, i - 1),
         NEW a \in 1 .. Len(nodes), ClosesAt(p, x, a, i), nodes[a].name = nodes[i].name
  PROVE  ActiveEnter(nodes, M[i - 1], i, TRUE) = a
<1> DEFINE active == {j \in 1 .. i - 1 : /\ nodes[j].kind = "ENTER"
                                         /\ j \notin DOMAIN M[i - 1]
                                         /\ SameContext(nodes[j], nodes[i])
                                         /\ TRUE => nodes[j].name = nodes[i].name}
<1>0. Len(nodes) \in Nat /\ i \in Nat /\ a \in Nat
  OBVIOUS
<1>1. ActiveEnter(nodes, M[i - 1], i, TRUE) = IF active = {} THEN 0 ELSE Max(active)
  BY DEF ActiveEnter
<1>2. /\ Here(a, p, x) /\ nodes[a].kind = "ENTER" /\ Here(i, p, x) /\ nodes[i].kind = "EXIT"
      /\ a < i /\ Height(p, x, i) = Height(p, x, a - 1)
      /\ \A k \in a .. i - 1 : Height(p, x, k) > Height(p, x, a - 1)
  BY DEF ClosesAt
<1>3. \A j \in 1 .. i - 1 : j \in active <=> /\ nodes[j].kind = "ENTER" /\ Here(j, p, x)
                                            /\ nodes[j].name = nodes[i].name
                                            /\ j \notin DOMAIN M[i - 1]
  BY <1>2 DEF SameContext, Here
<1>4. a \in active
  <2>1. ASSUME NEW b \in 1 .. i - 1, ClosesAt(p, x, a, b) PROVE FALSE
    <3>1. b = i
      BY <2>1, ClosesOnce
    <3> QED
      BY <2>1, <3>1
  <2>2. a \notin DOMAIN M[i - 1]
    BY <1>2, <2>1 DEF Stacked
  <2> QED
    BY <1>2, <1>3, <2>2
<1>5. ASSUME NEW j \in active PROVE j <= a
  <2> SUFFICES ASSUME a < j PROVE FALSE
    OBVIOUS
  <2>1. /\ j \in 1 .. i - 1 /\ nodes[j].kind = "ENTER" /\ Here(j, p, x) /\ j \notin DOMAIN M[i - 1]
    BY <1>3
  <2>2. Height(p, x, j - 1) > Height(p, x, a - 1)
    BY <1>2, <2>1
  <2>3. /\ Height(p, x, i) = Height(p, x, i - 1) - 1
        /\ Height(p, x, i - 1) \in Int /\ Height(p, x, j - 1) \in Int /\ Height(p, x, a - 1) \in Int
    <3>1. i # 0 /\ i - 1 \in Nat /\ j - 1 \in Nat /\ a - 1 \in Nat
      BY <1>0, <2>1
    <3>2. Height(p, x, i) = Height(p, x, i - 1) + (-1)
      BY <1>0, <1>2, <3>1, HeightIs
    <3>3. Height(p, x, i - 1) \in Int /\ Height(p, x, j - 1) \in Int /\ Height(p, x, a - 1) \in Int
      BY <3>1, HeightIs
    <3> QED
      BY <3>2, <3>3
  <2>4. Height(p, x, i - 1) <= Height(p, x, j - 1)
    BY <1>2, <2>2, <2>3
  <2>5. \E b \in j + 1 .. i - 1 : ClosesAt(p, x, j, b)
    <3>1. i - 1 \in Nat /\ j \in Nat \ {0} /\ j <= i - 1
      BY <2>1
    <3> HIDE DEF active
    <3> QED
      BY <2>1, <2>4, <3>1, FallCloses
  <2>6. \E b \in 1 .. i - 1 : ClosesAt(p, x, j, b)
    BY <2>1, <2>5
  <2>7. j \in DOMAIN M[i - 1]
    BY <2>1, <2>6 DEF Stacked
  <2> QED
    BY <2>1, <2>7
<1>6. active \in SUBSET Nat /\ \A j \in active : j <= i
  OBVIOUS
<1> HIDE DEF active
<1>7. Max(active) \in active /\ \A j \in active : j <= Max(active)
  BY <1>0, <1>4, <1>6, MaxIs
<1>8. Max(active) = a
  <2>1. Max(active) <= a /\ a <= Max(active) /\ Max(active) \in Nat
    BY <1>4, <1>5, <1>6, <1>7
  <2> QED
    BY <1>0, <2>1
<1> QED
  BY <1>1, <1>4, <1>8

\* After each node, what matched_exit knows of a context that nests its calls
\* is what the heights say.
LEMMA StackIs ==
  ASSUME nodes \in Seq(Records), NEW p, NEW x, Nests(p, x), NEW M, M = MatchedExit(nodes)
  PROVE  \A i \in 0 .. Len(nodes) : Stacked(p, x, M, i)
<1> DEFINE n == Len(nodes)
           H == {i \in 0 .. n : Stacked(p, x, M, i)}
<1>0. n \in Nat
  OBVIOUS
<1>1. 0 \in H
  <2>1. M[0] = <<>>
    BY MatchedExitIs
  <2>2. DOMAIN M[0] = {} /\ 1 .. 0 = {}
    BY <2>1
  <2> QED
    BY <2>2 DEF Stacked
<1>2. ASSUME NEW i \in 1 .. n, i - 1 \in H PROVE i \in H
  <2> DEFINE enter == ActiveEnter(nodes, M[i - 1], i, TRUE)
             before == M[i - 1]
             after == M[i]
  <2>1. after = Noted(nodes, before, i) /\ Stacked(p, x, M, i - 1) /\ i \in 0 .. n
    BY <1>2, MatchedExitIs
  <2>2. after = IF nodes[i].kind = "EXIT" /\ enter # 0
                THEN [j \in DOMAIN before \cup {enter} |-> IF j = enter THEN i ELSE before[j]]
                ELSE before
    BY <2>1 DEF Noted
  <2>3. SUFFICES ASSUME NEW j \in 1 .. n, Here(j, p, x), nodes[j].kind = "ENTER"
                 PROVE  /\ j \in DOMAIN after <=> \E b \in 1 .. i : ClosesAt(p, x, j, b)
                        /\ j \in DOMAIN after => after[j] \in 1 .. i /\ ClosesAt(p, x, j, after[j])
    BY <2>1 DEF Stacked
  <2>4. /\ j \in DOMAIN before <=> \E b \in 1 .. i - 1 : ClosesAt(p, x, j, b)
        /\ j \in DOMAIN before => before[j] \in 1 .. i - 1 /\ ClosesAt(p, x, j, before[j])
    BY <2>1, <2>3 DEF Stacked
  <2>5. /\ i \in Nat /\ i # 0 /\ \A b \in 1 .. i : b = i \/ b \in 1 .. i - 1
        /\ \A b \in 1 .. i - 1 : b \in 1 .. i
        /\ j \in Nat \ {0}
    OBVIOUS
  <2>6. CASE nodes[i].kind = "EXIT" /\ Here(i, p, x)
    <3>1. PICK a \in 1 .. n : ClosesAt(p, x, a, i) /\ nodes[a].name = nodes[i].name
      BY <2>6 DEF Nests
    <3>2. enter = a /\ a # 0 /\ a \in Nat \ {0}
      <4>1. enter = a
        BY <2>1, <3>1, ExitFinds
      <4> HIDE DEF enter
      <4> QED
        BY <1>0, <4>1
    <3> HIDE DEF enter, before, after
    <3>3. after = [k \in DOMAIN before \cup {a} |-> IF k = a THEN i ELSE before[k]]
      BY <2>2, <2>6, <3>2
    <3>4. ClosesAt(p, x, j, i) <=> j = a
      BY <2>5, <3>1, <3>2, ClosesOnce
    <3>5. j \in DOMAIN after <=> j \in DOMAIN before \/ j = a
      BY <3>3
    <3>6. j \in DOMAIN after <=> \E b \in 1 .. i : ClosesAt(p, x, j, b)
      BY <2>4, <2>5, <3>4, <3>5
    <3>7. j = a => after[j] = i
      BY <3>3
    <3>8. j # a /\ j \in DOMAIN after => after[j] = before[j] /\ j \in DOMAIN before
      BY <3>3
    <3> QED
      BY <2>4, <2>5, <3>4, <3>6, <3>7, <3>8
  <2>7. CASE ~(nodes[i].kind = "EXIT" /\ Here(i, p, x))
    <3>1. ~ClosesAt(p, x, j, i)
      BY <2>7 DEF ClosesAt
    <3>2. nodes[i].kind = "EXIT" /\ enter # 0 => j # enter
      <4>1. enter # 0 => SameContext(nodes[enter], nodes[i])
        BY <2>5, ActiveEnterIs
      <4> QED
        BY <2>3, <2>7, <4>1 DEF SameContext, Here
    <3> HIDE DEF enter, before, after
    <3>3. /\ j \in DOMAIN after <=> j \in DOMAIN before
          /\ j \in DOMAIN after => after[j] = before[j]
      BY <2>2, <3>2
    <3> QED
      BY <2>4, <2>5, <3>1, <3>3
  <2> QED
    BY <2>6, <2>7
<1> HIDE DEF H
<1>3. \A i \in 0 .. n : i \in H
  BY <1>0, <1>1, <1>2, UpTo
<1> QED
  BY <1>3 DEF H

LEMMA EdgeIfHas ==
  ASSUME NEW kind, NEW from, NEW to, to # 0, NEW e
  PROVE  e \in ToSet(EdgeIf(kind, from, to)) <=> from # 0 /\ e = Edge(kind, from, to)
<1>1. CASE from = 0
  BY <1>1 DEF EdgeIf, ToSet
<1>2. CASE from # 0
  <2> DEFINE d == Edge(kind, from, to)
  <2>1. EdgeIf(kind, from, to) = <<d>>
    BY <1>2 DEF EdgeIf
  <2> HIDE DEF d
  <2>2. ToSet(<<d>>) = {d}
    BY DEF ToSet
  <2> QED
    BY <1>2, <2>1, <2>2 DEF d
<1> QED
  BY <1>1, <1>2

LEMMA EdgesEqual ==
  ASSUME NEW k, NEW f, NEW t, NEW l, NEW g, NEW u
  PROVE  Edge(k, f, t) = Edge(l, g, u) <=> k = l /\ f = g /\ t = u
BY DEF Edge

\* Which call edges and causes a model has: those that the searches name.
LEMMA CallLinksAre ==
  ASSUME NEW ns \in Seq(Records), NEW c \in 1 .. Len(ns), NEW i \in 1 .. Len(ns)
  PROVE  /\ Edge("CALL_RETURN", c, i) \in ToSet(AllEdges(ns))
              <=> ns[i].kind = "EXIT" /\ ActiveEnter(ns, MatchedExit(ns)[i - 1], i, TRUE) = c
         /\ Edge("CALL_PARENT", c, i) \in ToSet(AllEdges(ns))
              <=> ns[i].kind = "ENTER" /\ ActiveEnter(ns, MatchedExit(ns)[i - 1], i, FALSE) = c
         /\ Edge("CALL_CAUSED_EVENT", c, i) \in ToSet(AllEdges(ns))
              <=> ~Call(ns[i]) /\ EnclosingCall(ns, MatchedExit(ns)[Len(ns)], i) = c
<1> DEFINE S == EdgesUpto(Len(ns))
           calls == [j \in 1 .. Len(ns) |-> CallPiece(ns, j)]
           events == [j \in 1 .. Len(ns) |-> ResourcePiece(ns, j)]
           Returning(j) == ActiveEnter(ns, MatchedExit(ns)[j - 1], j, TRUE)
           Parent(j) == ActiveEnter(ns, MatchedExit(ns)[j - 1], j, FALSE)
           Cause(j) == EnclosingCall(ns, MatchedExit(ns)[Len(ns)], j)
<1>0. Len(ns) \in Nat /\ c # 0 /\ \A j \in 1 .. Len(ns) : j # 0
  OBVIOUS
<1>1. /\ CallEdges(ns) = FlattenSeq(calls) /\ ResourceEdges(ns) = FlattenSeq(events)
      /\ CallEdges(ns) \in Seq(S) /\ ResourceEdges(ns) \in Seq(S)
  <2>1. CallEdges(ns) = FlattenSeq(calls)
    BY DEF CallEdges, CallPiece
  <2>2. ResourceEdges(ns) = FlattenSeq(events)
    BY DEF ResourceEdges, ResourcePiece
  <2> QED
    BY <2>1, <2>2, CallEdgesAre, ResourceEdgesAre
<1>2. ToSet(AllEdges(ns)) = ToSet(CallEdges(ns)) \cup ToSet(ResourceEdges(ns))
  <2> DEFINE a == CallEdges(ns)
             b == ResourceEdges(ns)
  <2>1. AllEdges(ns) = a \o b
    BY DEF AllEdges
  <2> HIDE DEF S, a, b
  <2>2. a \in Seq(S) /\ b \in Seq(S)
    BY <1>1 DEF a, b
  <2>3. ToSet(a \o b) = ToSet(a) \cup ToSet(b)
    BY <2>2, ConcatIs
  <2> QED
    BY <2>1, <2>3 DEF a, b
<1>3. ToSet(CallEdges(ns)) = UNION {ToSet(CallPiece(ns, j)) : j \in 1 .. Len(ns)}
  <2>1. \A j \in 1 .. Len(ns) : CallPiece(ns, j) \in Seq(S)
    BY CallPieceIs
  <2> HIDE DEF S
  <2>2. calls \in Seq(Seq(S)) /\ Len(calls) = Len(ns)
        /\ \A j \in 1 .. Len(ns) : calls[j] = CallPiece(ns, j)
    BY <1>0, <2>1
  <2> HIDE DEF calls
  <2>3. ToSet(FlattenSeq(calls)) = UNION {ToSet(calls[j]) : j \in 1 .. Len(calls)}
    BY <2>2, FlattenIs
  <2> QED
    BY <1>1, <2>2, <2>3
<1>4. ToSet(ResourceEdges(ns)) = UNION {ToSet(ResourcePiece(ns, j)) : j \in 1 .. Len(ns)}
  <2>1. \A j \in 1 .. Len(ns) : ResourcePiece(ns, j) \in Seq(S)
    BY ResourcePieceIs
  <2> HIDE DEF S
  <2>2. events \in Seq(Seq(S)) /\ Len(events) = Len(ns)
        /\ \A j \in 1 .. Len(ns) : events[j] = ResourcePiece(ns, j)
    BY <1>0, <2>1
  <2> HIDE DEF events
  <2>3. ToSet(FlattenSeq(events)) = UNION {ToSet(events[j]) : j \in 1 .. Len(events)}
    BY <2>2, FlattenIs
  <2> QED
    BY <1>1, <2>2, <2>3
<1> HIDE DEF S, calls, events
<1>5. ASSUME NEW j \in 1 .. Len(ns), NEW e
      PROVE  e \in ToSet(CallPiece(ns, j)) <=>
               \/ ns[j].kind = "ENTER" /\ Parent(j) # 0 /\ e = Edge("CALL_PARENT", Parent(j), j)
               \/ ns[j].kind = "EXIT" /\ Returning(j) # 0 /\ e = Edge("CALL_RETURN", Returning(j), j)
  <2>1. CASE ns[j].kind = "ENTER"
    <3>1. CallPiece(ns, j) = EdgeIf("CALL_PARENT", Parent(j), j)
      BY <2>1 DEF CallPiece
    <3> HIDE DEF Parent, Returning
    <3> QED
      BY <1>0, <2>1, <3>1, EdgeIfHas
  <2>2. CASE ns[j].kind = "EXIT"
    <3>1. CallPiece(ns, j) = EdgeIf("CALL_RETURN", Returning(j), j)
      BY <2>2 DEF CallPiece
    <3> HIDE DEF Parent, Returning
    <3> QED
      BY <1>0, <2>2, <3>1, EdgeIfHas
  <2>3. CASE ~(ns[j].kind \in {"ENTER", "EXIT"})
    <3>1. CallPiece(ns, j) = <<>>
      BY <2>3 DEF CallPiece
    <3>2. ToSet(<<>>) = {}
      BY DEF ToSet
    <3> QED
      BY <2>3, <3>1, <3>2
  <2> QED
    BY <2>1, <2>2, <2>3
<1>6. ASSUME NEW j \in 1 .. Len(ns), ~Call(ns[j])
      PROVE  Cause(j) # 0 => Edge("CALL_CAUSED_EVENT", Cause(j), j) \in ToSet(ResourcePiece(ns, j))
  <2> DEFINE caused == EdgeIf("CALL_CAUSED_EVENT", Cause(j), j)
             lifetime == EdgeIf("RESOURCE_LIFETIME", j, LifetimeEnd(ns, j))
             children == ChildEdges(ns, j)
  <2>1. ResourcePiece(ns, j) = (caused \o lifetime) \o children
    BY <1>6 DEF ResourcePiece
  <2>2. Cause(j) # 0 => Edge("CALL_CAUSED_EVENT", Cause(j), j) \in S
    <3>1. Cause(j) # 0 => Cause(j) \in 1 .. Len(ns)
      BY EnclosingCallIs
    <3> HIDE DEF Cause
    <3> QED
      BY <3>1 DEF Edge, EdgesUpto, EdgeKinds, S
  <2>3. LifetimeEnd(ns, j) # 0 => Edge("RESOURCE_LIFETIME", j, LifetimeEnd(ns, j)) \in S
    <3>1. LifetimeEnd(ns, j) # 0 => LifetimeEnd(ns, j) \in 1 .. Len(ns)
      BY LifetimeEndIs
    <3> QED
      BY <3>1 DEF Edge, EdgesUpto, EdgeKinds, S
  <2>4. children \in Seq(S)
    BY ChildEdgesAre DEF S
  <2> HIDE DEF Cause
  <2>5. caused \in Seq(S) /\ lifetime \in Seq(S)
    BY <2>2, <2>3, EdgeIfIs
  <2>6. Cause(j) # 0 => Edge("CALL_CAUSED_EVENT", Cause(j), j) \in ToSet(caused)
    BY <1>0, EdgeIfHas
  <2> HIDE DEF caused, lifetime, children
  <2>7. caused \o lifetime \in Seq(S) /\ ToSet(caused) \subseteq ToSet(caused \o lifetime)
    BY <2>5, ConcatIs
  <2> DEFINE two == caused \o lifetime
  <2> HIDE DEF two
  <2>8. ToSet(two \o children) = ToSet(two) \cup ToSet(children)
    <3>1. two \in Seq(S)
      BY <2>7 DEF two
    <3> QED
      BY <2>4, <3>1, ConcatIs
  <2> QED
    BY <2>1, <2>6, <2>7, <2>8 DEF two
<1>7. ASSUME NEW j \in 1 .. Len(ns), NEW f, NEW t, Edge("CALL_CAUSED_EVENT", f, t) \in ToSet(ResourcePiece(ns, j))
      PROVE  t = j /\ ~Call(ns[j]) /\ f = Cause(j) /\ f # 0
  <2>1. Causes(ns, j, Edge("CALL_CAUSED_EVENT", f, t))
    BY <1>7, ResourcePieceIs
  <2> QED
    BY <2>1 DEF Causes, Edge
<1>8. ASSUME NEW j \in 1 .. Len(ns), NEW kind \in {"CALL_RETURN", "CALL_PARENT"}, NEW f, NEW t
      PROVE  Edge(kind, f, t) \notin ToSet(ResourcePiece(ns, j))
  <2> SUFFICES ASSUME Edge(kind, f, t) \in ToSet(ResourcePiece(ns, j)) PROVE FALSE
    OBVIOUS
  <2>1. Causes(ns, j, Edge(kind, f, t))
    BY ResourcePieceIs
  <2> QED
    BY <2>1 DEF Causes, Edge
<1> HIDE DEF Returning, Parent, Cause
<1>9. Edge("CALL_RETURN", c, i) \in ToSet(AllEdges(ns)) <=> ns[i].kind = "EXIT" /\ Returning(i) = c
  <2>1. ASSUME NEW j \in 1 .. Len(ns)
        PROVE  Edge("CALL_RETURN", c, i) \in ToSet(CallPiece(ns, j))
                 <=> j = i /\ ns[i].kind = "EXIT" /\ Returning(i) = c
    BY <1>0, <1>5, EdgesEqual
  <2> QED
    BY <1>2, <1>3, <1>4, <1>8, <2>1
<1>10. Edge("CALL_PARENT", c, i) \in ToSet(AllEdges(ns)) <=> ns[i].kind = "ENTER" /\ Parent(i) = c
  <2>1. ASSUME NEW j \in 1 .. Len(ns)
        PROVE  Edge("CALL_PARENT", c, i) \in ToSet(CallPiece(ns, j))
                 <=> j = i /\ ns[i].kind = "ENTER" /\ Parent(i) = c
    BY <1>0, <1>5, EdgesEqual
  <2> QED
    BY <1>2, <1>3, <1>4, <1>8, <2>1
<1>11. Edge("CALL_CAUSED_EVENT", c, i) \in ToSet(AllEdges(ns)) <=> ~Call(ns[i]) /\ Cause(i) = c
  <2>1. ASSUME NEW j \in 1 .. Len(ns)
        PROVE  Edge("CALL_CAUSED_EVENT", c, i) \notin ToSet(CallPiece(ns, j))
    BY <1>5, EdgesEqual
  <2>2. ASSUME NEW j \in 1 .. Len(ns)
        PROVE  Edge("CALL_CAUSED_EVENT", c, i) \in ToSet(ResourcePiece(ns, j))
                 <=> j = i /\ ~Call(ns[i]) /\ Cause(i) = c
    BY <1>0, <1>6, <1>7
  <2> QED
    BY <1>2, <1>3, <1>4, <2>1, <2>2
<1> QED
  BY <1>9, <1>10, <1>11 DEF Returning, Parent, Cause

\* Where calls return in order, every EXIT has the name of the call it closes.
LEMMA NestsIs ==
  ASSUME nodes \in Seq(Records), NEW p, NEW x, WellNested(p, x)
  PROVE  Nests(p, x)
<1> SUFFICES ASSUME NEW b \in 1 .. Len(nodes), nodes[b].kind = "EXIT", Here(b, p, x)
             PROVE  \E a \in 1 .. Len(nodes) : ClosesAt(p, x, a, b) /\ nodes[a].name = nodes[b].name
  BY DEF Nests
<1>1. PICK a \in 1 .. b : Closes(a, b) /\ nodes[a].name = nodes[b].name
  BY DEF WellNested, Here
<1>2. a \in 1 .. Len(nodes)
  BY <1>1
<1>3. ClosesAt(p, x, a, b)
  BY <1>1, <1>2, ClosesIs
<1> QED
  BY <1>1, <1>2, <1>3

\* A call lasts from its ENTER to the EXIT that closes it.
LEMMA DuringIs ==
  ASSUME nodes \in Seq(Records), NEW p, NEW x,
         NEW i \in 1 .. Len(nodes), Here(i, p, x), NEW d \in 1 .. Len(nodes)
  PROVE  During(i, d) <=>
           /\ nodes[d].kind = "ENTER" /\ Here(d, p, x) /\ nodes[d].seq < nodes[i].seq
           /\ \A j \in 1 .. Len(nodes) : ClosesAt(p, x, d, j) => nodes[i].seq < nodes[j].seq
<1>1. SameContext(nodes[d], nodes[i]) <=> Here(d, p, x)
  BY DEF SameContext, Here
<1>2. ASSUME Here(d, p, x), NEW j \in 1 .. Len(nodes)
      PROVE  Closes(d, j) <=> ClosesAt(p, x, d, j)
  <2>1. CASE Here(j, p, x)
    BY <2>1, ClosesIs
  <2>2. CASE ~Here(j, p, x)
    BY <1>2, <2>2 DEF Closes, ClosesAt, SameContext, Here
  <2> QED
    BY <2>1, <2>2
<1>3. nodes[d].seq < nodes[i].seq => d # i
  <2>1. nodes[d].seq \in 1 .. MaxSeq /\ MaxSeq \in Nat
    BY RecordSeq, ModelAssumption
  <2> QED
    BY <2>1
<1> QED
  BY <1>1, <1>2, <1>3 DEF During

\* A return is linked with the call it closes.
LEMMA ReturnFound ==
  ASSUME nodes \in Seq(Records), NEW p, NEW x, Nests(p, x),
         NEW i \in 1 .. Len(nodes), Here(i, p, x), NEW c \in 1 .. Len(nodes)
  PROVE  nodes[i].kind = "EXIT" /\ ActiveEnter(nodes, MatchedExit(nodes)[i - 1], i, TRUE) = c
           <=> Closes(c, i)
<1> DEFINE M == MatchedExit(nodes)
<1>1. Closes(c, i) <=> ClosesAt(p, x, c, i)
  BY ClosesIs
<1>2. ASSUME nodes[i].kind = "EXIT"
      PROVE  ActiveEnter(nodes, M[i - 1], i, TRUE) = c <=> ClosesAt(p, x, c, i)
  <2>1. PICK a \in 1 .. Len(nodes) : ClosesAt(p, x, a, i) /\ nodes[a].name = nodes[i].name
    BY <1>2 DEF Nests
  <2>2. Stacked(p, x, M, i - 1)
    <3>1. i - 1 \in 0 .. Len(nodes)
      OBVIOUS
    <3> QED
      BY <3>1, StackIs
  <2> HIDE DEF M
  <2>3. ActiveEnter(nodes, M[i - 1], i, TRUE) = a
    BY <2>1, <2>2, ExitFinds
  <2>4. ClosesAt(p, x, c, i) => c = a
    <3>1. a \in Nat \ {0} /\ c \in Nat \ {0} /\ i \in Nat
      OBVIOUS
    <3> QED
      BY <2>1, <3>1, ClosesOnce
  <2> QED
    BY <2>1, <2>3, <2>4
<1>3. ClosesAt(p, x, c, i) => nodes[i].kind = "EXIT"
  BY DEF ClosesAt
<1> QED
  BY <1>1, <1>2, <1>3

\* The calls of a context are numbered in the order of their admission.
LEMMA CallsInOrder ==
  ASSUME nodes \in Seq(Records), Ascending(nodes), NEW p, NEW x,
         NEW i \in 1 .. Len(nodes), NEW j \in 1 .. Len(nodes),
         Here(i, p, x), Here(j, p, x), Call(nodes[i]), Call(nodes[j])
  PROVE  i < j <=> nodes[i].seq < nodes[j].seq
<1>1. nodes[i].seq \in Nat /\ nodes[j].seq \in Nat
  <2>1. nodes[i].seq \in 1 .. MaxSeq /\ nodes[j].seq \in 1 .. MaxSeq
    BY RecordSeq
  <2> QED
    BY <2>1
<1>2. SameContext(nodes[i], nodes[j]) /\ SameContext(nodes[j], nodes[i])
  BY DEF SameContext, Here
<1>3. i < j => nodes[i].seq < nodes[j].seq
  BY <1>2 DEF Ascending
<1>4. j < i => nodes[j].seq < nodes[i].seq
  BY <1>2 DEF Ascending
<1> QED
  BY <1>1, <1>3, <1>4

\* The parent of a call is the innermost call at its ENTER.
LEMMA ParentFound ==
  ASSUME nodes \in Seq(Records), Ascending(nodes), NEW p, NEW x, Nests(p, x),
         NEW i \in 1 .. Len(nodes), Here(i, p, x), nodes[i].kind = "ENTER", NEW c \in 1 .. Len(nodes)
  PROVE  ActiveEnter(nodes, MatchedExit(nodes)[i - 1], i, FALSE) = c <=> Innermost(i, c)
<1> DEFINE M == MatchedExit(nodes)
           active == {j \in 1 .. i - 1 : /\ nodes[j].kind = "ENTER"
                                         /\ j \notin DOMAIN M[i - 1]
                                         /\ SameContext(nodes[j], nodes[i])
                                         /\ FALSE => nodes[j].name = nodes[i].name}
<1>0. c # 0 /\ c \in Nat
  OBVIOUS
<1>1. ActiveEnter(nodes, M[i - 1], i, FALSE) = IF active = {} THEN 0 ELSE Max(active)
  BY DEF ActiveEnter
<1>2. Stacked(p, x, M, i - 1)
  <2>1. i - 1 \in 0 .. Len(nodes)
    OBVIOUS
  <2> QED
    BY <2>1, StackIs
<1>3. \A d \in active : d \in 1 .. Len(nodes) /\ d <= i
  OBVIOUS
<1>4. ASSUME NEW d \in 1 .. Len(nodes)
      PROVE  d \in active <=> During(i, d)
  <2>1. d \in active <=> /\ d < i /\ nodes[d].kind = "ENTER" /\ Here(d, p, x)
                         /\ d \notin DOMAIN M[i - 1]
    BY DEF SameContext, Here
  <2> HIDE DEF M, active
  <2>2. CASE ~(nodes[d].kind = "ENTER" /\ Here(d, p, x))
    BY <2>1, <2>2, DuringIs
  <2>3. CASE nodes[d].kind = "ENTER" /\ Here(d, p, x)
    <3>1. d < i <=> nodes[d].seq < nodes[i].seq
      BY <2>3, CallsInOrder DEF Call, CallKinds
    <3>2. ASSUME NEW j \in 1 .. Len(nodes), ClosesAt(p, x, d, j)
          PROVE  nodes[i].seq < nodes[j].seq <=> j \notin 1 .. i - 1
      <4>1. Here(j, p, x) /\ nodes[j].kind = "EXIT"
        BY <3>2 DEF ClosesAt
      <4>2. i < j <=> nodes[i].seq < nodes[j].seq
        BY <4>1, CallsInOrder DEF Call, CallKinds
      <4>3. j # i
        BY <4>1
      <4> QED
        BY <4>2, <4>3
    <3>3. d \in DOMAIN M[i - 1] <=> \E b \in 1 .. i - 1 : ClosesAt(p, x, d, b)
      BY <1>2, <2>3 DEF Stacked
    <3>4. \A b \in 1 .. i - 1 : b \in 1 .. Len(nodes)
      OBVIOUS
    <3>5. d \notin DOMAIN M[i - 1]
            <=> \A j \in 1 .. Len(nodes) : ClosesAt(p, x, d, j) => nodes[i].seq < nodes[j].seq
      BY <3>2, <3>3, <3>4
    <3>6. During(i, d) <=>
            /\ nodes[d].seq < nodes[i].seq
            /\ \A j \in 1 .. Len(nodes) : ClosesAt(p, x, d, j) => nodes[i].seq < nodes[j].seq
      BY <2>3, DuringIs
    <3> QED
      BY <2>1, <2>3, <3>1, <3>5, <3>6
  <2> QED
    BY <2>2, <2>3
<1>5. ASSUME NEW d \in active, NEW e \in active
      PROVE  d <= e <=> nodes[d].seq <= nodes[e].seq
  <2>1. d \in 1 .. Len(nodes) /\ e \in 1 .. Len(nodes)
    BY <1>3
  <2>2. /\ Here(d, p, x) /\ Here(e, p, x)
        /\ nodes[d].kind = "ENTER" /\ nodes[e].kind = "ENTER"
    BY DEF SameContext, Here
  <2>3. e < d <=> nodes[e].seq < nodes[d].seq
    BY <2>1, <2>2, CallsInOrder DEF Call, CallKinds
  <2>4. nodes[d].seq \in 1 .. MaxSeq /\ nodes[e].seq \in 1 .. MaxSeq
    BY <2>1, RecordSeq
  <2> QED
    BY <2>1, <2>3, <2>4
<1> HIDE DEF M, active
<1>6. Innermost(i, c) <=> c \in active /\ \A d \in active : d <= c
  <2>1. Innermost(i, c) <=> c \in active /\ \A d \in active : nodes[d].seq <= nodes[c].seq
    BY <1>3, <1>4 DEF Innermost
  <2> QED
    BY <1>5, <2>1
<1>7. ASSUME active = {}
      PROVE  ActiveEnter(nodes, M[i - 1], i, FALSE) = c <=> Innermost(i, c)
  BY <1>1, <1>6, <1>7, <1>0
<1>8. ASSUME active # {}
      PROVE  ActiveEnter(nodes, M[i - 1], i, FALSE) = c <=> Innermost(i, c)
  <2>1. active \in SUBSET Nat /\ i \in Nat /\ \A d \in active : d <= i
    BY <1>3
  <2>2. Max(active) \in active /\ \A d \in active : d <= Max(active)
    BY <1>8, <2>1, MaxIs
  <2> DEFINE max == Max(active)
  <2> HIDE DEF max
  <2>3. max \in active /\ (\A d \in active : d <= max) /\ max \in Nat
    BY <2>1, <2>2 DEF max
  <2>4. c \in active /\ (\A d \in active : d <= c) <=> max = c
    BY <1>0, <2>1, <2>3
  <2> QED
    BY <1>1, <1>6, <1>8, <2>4 DEF max
<1> QED
  BY <1>7, <1>8 DEF M

\* The cause of an event is the innermost call at that moment.
LEMMA CauseFound ==
  ASSUME nodes \in Seq(Records), SeqsDiffer, NEW p, NEW x, Nests(p, x),
         NEW i \in 1 .. Len(nodes), Here(i, p, x), ~Call(nodes[i]), NEW c \in 1 .. Len(nodes)
  PROVE  EnclosingCall(nodes, MatchedExit(nodes)[Len(nodes)], i) = c <=> Innermost(i, c)
<1> DEFINE M == MatchedExit(nodes)
           matched == M[Len(nodes)]
           around == {j \in 1 .. Len(nodes) :
                        /\ nodes[j].kind = "ENTER" /\ SameContext(nodes[j], nodes[i])
                        /\ nodes[j].seq <= nodes[i].seq
                        /\ j \in DOMAIN matched => nodes[matched[j]].seq >= nodes[i].seq}
           Latest(j) == \A k \in around : nodes[k].seq <= nodes[j].seq
<1>0. \A j \in 1 .. Len(nodes) : nodes[j].seq \in Nat
  <2>1. \A j \in 1 .. Len(nodes) : nodes[j].seq \in 1 .. MaxSeq
    BY RecordSeq
  <2> QED
    BY <2>1
<1>1. EnclosingCall(nodes, matched, i) = IF around = {} THEN 0 ELSE CHOOSE j \in around : Latest(j)
  BY DEF EnclosingCall
<1>2. Stacked(p, x, M, Len(nodes))
  <2>1. Len(nodes) \in 0 .. Len(nodes)
    OBVIOUS
  <2> QED
    BY <2>1, StackIs
<1>3. ASSUME NEW d \in 1 .. Len(nodes), Here(d, p, x), d # i
      PROVE  nodes[d].seq # nodes[i].seq
  BY <1>3 DEF SeqsDiffer, SameContext, Here
<1>4. ASSUME NEW d \in 1 .. Len(nodes)
      PROVE  d \in around <=> During(i, d)
  <2>1. d \in around <=> /\ nodes[d].kind = "ENTER" /\ Here(d, p, x) /\ nodes[d].seq <= nodes[i].seq
                         /\ d \in DOMAIN matched => nodes[matched[d]].seq >= nodes[i].seq
    BY DEF SameContext, Here
  <2> HIDE DEF around
  <2>2. CASE ~(nodes[d].kind = "ENTER" /\ Here(d, p, x))
    BY <2>1, <2>2, DuringIs
  <2>3. CASE nodes[d].kind = "ENTER" /\ Here(d, p, x)
    <3>1. d # i
      BY <2>3 DEF Call, CallKinds
    <3>2. nodes[d].seq <= nodes[i].seq <=> nodes[d].seq < nodes[i].seq
      BY <1>0, <1>3, <2>3, <3>1
    <3>3. /\ d \in DOMAIN matched <=> \E b \in 1 .. Len(nodes) : ClosesAt(p, x, d, b)
          /\ d \in DOMAIN matched => matched[d] \in 1 .. Len(nodes) /\ ClosesAt(p, x, d, matched[d])
      <4> HIDE DEF M
      <4> QED
        BY <1>2, <2>3 DEF Stacked
    <3> HIDE DEF matched
    <3>4. ASSUME NEW j \in 1 .. Len(nodes), ClosesAt(p, x, d, j)
          PROVE  /\ d \in DOMAIN matched /\ matched[d] = j
                 /\ nodes[j].seq >= nodes[i].seq <=> nodes[i].seq < nodes[j].seq
      <4>1. d \in DOMAIN matched /\ matched[d] \in 1 .. Len(nodes) /\ ClosesAt(p, x, d, matched[d])
        BY <3>3, <3>4
      <4>2. d \in Nat \ {0} /\ j \in Nat /\ matched[d] \in Nat
        BY <4>1
      <4>3. matched[d] = j
        BY <3>4, <4>1, <4>2, ClosesOnce
      <4>4. Here(j, p, x) /\ nodes[j].kind = "EXIT"
        BY <3>4 DEF ClosesAt
      <4>5. j # i
        BY <4>4 DEF Call, CallKinds
      <4>6. nodes[j].seq # nodes[i].seq
        BY <1>3, <4>4, <4>5
      <4> QED
        BY <1>0, <4>1, <4>3, <4>6
    <3>5. (d \in DOMAIN matched => nodes[matched[d]].seq >= nodes[i].seq)
            <=> \A j \in 1 .. Len(nodes) : ClosesAt(p, x, d, j) => nodes[i].seq < nodes[j].seq
      BY <3>3, <3>4
    <3>6. During(i, d) <=>
            /\ nodes[d].seq < nodes[i].seq
            /\ \A j \in 1 .. Len(nodes) : ClosesAt(p, x, d, j) => nodes[i].seq < nodes[j].seq
      BY <2>3, DuringIs
    <3> QED
      BY <2>1, <2>3, <3>2, <3>5, <3>6
  <2> QED
    BY <2>2, <2>3
<1>5. around \subseteq 1 .. Len(nodes) /\ \A d \in around : Here(d, p, x)
  BY DEF SameContext, Here
<1>6. ASSUME NEW d \in around, NEW e \in around, d # e
      PROVE  nodes[d].seq # nodes[e].seq
  BY <1>5, <1>6 DEF SeqsDiffer, SameContext, Here
<1> HIDE DEF M, matched, around
<1>7. Innermost(i, c) <=> c \in around /\ Latest(c)
  BY <1>4, <1>5 DEF Innermost
<1>8. ASSUME NEW d \in around, NEW e \in around, Latest(d), Latest(e)
      PROVE  d = e
  <2>1. nodes[d].seq <= nodes[e].seq /\ nodes[e].seq <= nodes[d].seq
    BY <1>8
  <2>2. nodes[d].seq \in Nat /\ nodes[e].seq \in Nat
    BY <1>0, <1>5
  <2> QED
    BY <1>6, <2>1, <2>2
<1>9. ASSUME around # {}
      PROVE  \E d \in around : Latest(d)
  <2> DEFINE seqs == {nodes[d].seq : d \in around}
  <2>1. \A d \in around : nodes[d].seq \in 1 .. MaxSeq
    BY <1>5, RecordSeq
  <2>2. seqs \in SUBSET Nat /\ seqs # {} /\ MaxSeq \in Nat /\ \A y \in seqs : y <= MaxSeq
    BY <1>9, <2>1, ModelAssumption
  <2>3. PICK y \in seqs : \A z \in seqs : z <= y
    <3> HIDE DEF seqs
    <3> QED
      BY <2>2, GreatestNatural
  <2> QED
    BY <2>3
<1> HIDE DEF Latest
<1>10. CASE around = {}
  BY <1>1, <1>7, <1>10 DEF matched, M
<1>11. CASE around # {}
  <2> DEFINE last == CHOOSE j \in around : Latest(j)
  <2>1. last \in around /\ Latest(last)
    BY <1>9, <1>11
  <2> HIDE DEF last
  <2>2. c \in around /\ Latest(c) <=> last = c
    BY <1>8, <2>1
  <2> QED
    BY <1>1, <1>7, <1>11, <2>2 DEF last, matched, M
<1> QED
  BY <1>10, <1>11 DEF matched, M

\* Where the calls of a context return in order, build_call_edges links each
\* return with the call it closes and each call with its caller, although it
\* goes by the order of admission, and find_enclosing_call finds for every
\* event the innermost call at that moment, although it goes by number.
THEOREM CallTreeCorrect == Spec => []CallTreeExact
<1>1. ModelInv => CallTreeExact
  <2> SUFFICES ASSUME ModelInv, finished, NEW i \in 1 .. Len(nodes), NEW c \in 1 .. Len(nodes),
                      WellNested(nodes[i].pid, nodes[i].context)
               PROVE  /\ Linked("CALL_RETURN", c, i) <=> Closes(c, i)
                      /\ Linked("CALL_PARENT", c, i) <=> nodes[i].kind = "ENTER" /\ Innermost(i, c)
                      /\ Linked("CALL_CAUSED_EVENT", c, i) <=> ~Call(nodes[i]) /\ Innermost(i, c)
    BY DEF CallTreeExact
  <2> DEFINE p == nodes[i].pid
             x == nodes[i].context
             M == MatchedExit(nodes)
  <2>1. /\ nodes \in Seq(Records) /\ SeqsDiffer /\ Ascending(nodes)
        /\ edges = AllEdges(nodes)
    BY DEF ModelInv, NodesInv, RunInv, AllOrNothing
  <2>2. Here(i, p, x) /\ Nests(p, x)
    BY <2>1, NestsIs DEF Here
  <2> HIDE DEF p, x, M
  <2>3. \A kind : Linked(kind, c, i) <=> Edge(kind, c, i) \in ToSet(AllEdges(nodes))
    BY <2>1 DEF Linked
  <2>4. /\ Linked("CALL_RETURN", c, i)
             <=> nodes[i].kind = "EXIT" /\ ActiveEnter(nodes, M[i - 1], i, TRUE) = c
        /\ Linked("CALL_PARENT", c, i)
             <=> nodes[i].kind = "ENTER" /\ ActiveEnter(nodes, M[i - 1], i, FALSE) = c
        /\ Linked("CALL_CAUSED_EVENT", c, i)
             <=> ~Call(nodes[i]) /\ EnclosingCall(nodes, M[Len(nodes)], i) = c
    BY <2>1, <2>3, CallLinksAre DEF M
  <2>5. nodes[i].kind = "EXIT" /\ ActiveEnter(nodes, M[i - 1], i, TRUE) = c <=> Closes(c, i)
    BY <2>1, <2>2, ReturnFound DEF M
  <2>6. nodes[i].kind = "ENTER" =>
          (ActiveEnter(nodes, M[i - 1], i, FALSE) = c <=> Innermost(i, c))
    BY <2>1, <2>2, ParentFound DEF M
  <2>7. ~Call(nodes[i]) => (EnclosingCall(nodes, M[Len(nodes)], i) = c <=> Innermost(i, c))
    BY <2>1, <2>2, CauseFound DEF M
  <2> QED
    BY <2>4, <2>5, <2>6, <2>7
<1> QED
  BY <1>1, ModelStays, PTL
=============================================================================
