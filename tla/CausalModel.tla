---------------------------- MODULE CausalModel ----------------------------
(***************************************************************************)
(* The causal model of one run (src/model.c): nodes are admitted one by    *)
(* one, finish links them with edges and replays the resource nodes, and   *)
(* a finish that ran out of memory may be tried again.                     *)
(*                                                                         *)
(* A node keeps what the edges depend on.  An object is a descriptor, a    *)
(* pointer or a (class, id) pair; next is the new pointer of a REALLOC or  *)
(* the related id of a REPLACE or TRANSFER; a call's site is its function  *)
(* and file, and the name of a FORK is the function that called fork.      *)
(* A name ending in _slip is no part of the model: it is the next          *)
(* definition with a plausible mistake, kept to show the properties notice.*)
(***************************************************************************)
EXTENDS Integers, Sequences, FiniteSets, SequencesExt

CONSTANTS
  Runs, Pids, Contexts, Names, Sites, Objects,
  None,        \* an absent field, a model without run or lifecycle
  Kinds,       \* the record kinds that occur
  PidReuse,    \* may one process id name two processes of the run?
  MaxNodes,    \* bound: nodes admitted
  MaxSeq       \* bound: the largest sequence number

ASSUME ModelAssumption ==
  /\ Contexts \subseteq Nat \ {0}
  /\ None \notin Runs \cup Pids \cup Names \cup Sites \cup Objects
  /\ PidReuse \in BOOLEAN
  /\ MaxNodes \in Nat /\ MaxSeq \in Nat

VARIABLES
  model_run,   \* model->run_id
  nodes,       \* model->nodes
  edges,       \* model->edges up to edge_count
  finished,    \* model->finished
  lifecycle    \* the nodes replayed by model->lifecycle, or None

model == <<model_run, nodes, edges, finished, lifecycle>>

Births == {"OPEN", "ALLOC", "ACQUIRE"}
Deaths == {"CLOSE", "FREE", "RELEASE"}
Moves == {"REALLOC", "REPLACE", "TRANSFER"}
CallKinds == {"ENTER", "EXIT"}
ForkKinds == {"FORK", "SPAWN"}

\* The records the two streams may hold; COMPLETE is no node.
Records ==
  LET Of(kinds, names, sites, objects, nexts, children) ==
        [run : Runs, pid : Pids, context : Contexts, seq : 1 .. MaxSeq, kind : kinds \cap Kinds,
         name : names, site : sites, object : objects, next : nexts, child : children]
  IN  Of(CallKinds, Names, Sites, {None}, {None}, {None})
      \cup Of(Births \cup Deaths \cup {"USE"}, {None}, {None}, Objects, {None}, {None})
      \cup Of(Moves, {None}, {None}, Objects, Objects \cup {None}, {None})
      \cup {r \in Of(ForkKinds, Names, {None}, {None}, {None}, Pids) : r.child # r.pid}
      \cup Of({"EXEC", "COMPLETE"}, {None}, {None}, {None}, {None}, {None})

Call(n) == n.kind \in CallKinds
SameContext(m, n) == m.pid = n.pid /\ m.context = n.context

-----------------------------------------------------------------------------
\* find_active_enter: the latest ENTER of the context before node i that no
\* EXIT was matched with, of the same name where that is asked for; 0 if none.
ActiveEnter_slip(ns, matched, i, named) ==
  LET active == {j \in 1 .. i - 1 : /\ ns[j].kind = "ENTER"
                                    /\ SameContext(ns[j], ns[i])
                                    /\ named => ns[j].name = ns[i].name}
  IN  IF active = {} THEN 0 ELSE Max(active)
ActiveEnter(ns, matched, i, named) ==
  LET active == {j \in 1 .. i - 1 : /\ ns[j].kind = "ENTER"
                                    /\ j \notin DOMAIN matched
                                    /\ SameContext(ns[j], ns[i])
                                    /\ named => ns[j].name = ns[i].name}
  IN  IF active = {} THEN 0 ELSE Max(active)

\* matched_exit once the first i nodes are linked: from ENTER to its EXIT.
MatchedExit(ns) ==
  LET matched[i \in 0 .. Len(ns)] ==
        IF i = 0 THEN <<>>
        ELSE LET enter == ActiveEnter(ns, matched[i - 1], i, TRUE)
             IN  IF ns[i].kind = "EXIT" /\ enter # 0
                 THEN [j \in DOMAIN matched[i - 1] \cup {enter} |->
                         IF j = enter THEN i ELSE matched[i - 1][j]]
                 ELSE matched[i - 1]
  IN  matched

Edge(kind, from, to) == [kind |-> kind, from |-> from, to |-> to]
EdgeIf_slip(kind, from, to) == <<Edge(kind, from, to)>>
EdgeIf(kind, from, to) == IF from = 0 \/ to = 0 THEN <<>> ELSE <<Edge(kind, from, to)>>

\* build_call_edges.
CallEdges(ns) ==
  LET matched == MatchedExit(ns)
  IN  FlattenSeq([i \in 1 .. Len(ns) |->
        CASE ns[i].kind = "ENTER" ->
               EdgeIf("CALL_PARENT", ActiveEnter(ns, matched[i - 1], i, FALSE), i)
          [] ns[i].kind = "EXIT" ->
               EdgeIf("CALL_RETURN", ActiveEnter(ns, matched[i - 1], i, TRUE), i)
          [] OTHER -> <<>>])

\* find_enclosing_call: by sequence number, over all nodes; 0 if none.
EnclosingCall_slip(ns, matched, i) ==
  LET around == {j \in 1 .. Len(ns) :
                   /\ ns[j].kind = "ENTER" /\ SameContext(ns[j], ns[i])
                   /\ ns[j].seq <= ns[i].seq}
  IN  IF around = {} THEN 0
      ELSE CHOOSE j \in around : \A k \in around : ns[k].seq <= ns[j].seq
EnclosingCall(ns, matched, i) ==
  LET around == {j \in 1 .. Len(ns) :
                   /\ ns[j].kind = "ENTER" /\ SameContext(ns[j], ns[i])
                   /\ ns[j].seq <= ns[i].seq
                   /\ j \in DOMAIN matched => ns[matched[j]].seq >= ns[i].seq}
  IN  IF around = {} THEN 0
      ELSE CHOOSE j \in around : \A k \in around : ns[k].seq <= ns[j].seq

\* is_lifetime_birth and lifetime_matches: the object a node brings to life,
\* and the one it ends; None for neither.  Families never mix.
Family(n) ==
  CASE n.kind \in {"OPEN", "CLOSE"} -> "fd"
    [] n.kind \in {"ALLOC", "FREE", "REALLOC"} -> "allocation"
    [] OTHER -> "resource"
Born(n) == IF n.kind \in Births THEN n.object ELSE IF n.kind \in Moves THEN n.next ELSE None
Dying(n) == IF n.kind \in Deaths \cup Moves THEN n.object ELSE None
Ends(death, birth) ==
  /\ Born(birth) # None /\ Dying(death) = Born(birth)
  /\ Family(death) = Family(birth)
  /\ death.pid = birth.pid

\* find_lifetime_end: the first death after the birth, by sequence number.
LifetimeEnd_slip(ns, i) ==
  LET later == {j \in 1 .. Len(ns) : Ends(ns[j], ns[i]) /\ ns[j].seq > ns[i].seq}
  IN  IF later = {} THEN 0 ELSE Max(later)
LifetimeEnd(ns, i) ==
  LET later == {j \in 1 .. Len(ns) : Ends(ns[j], ns[i]) /\ ns[j].seq > ns[i].seq}
      first == {j \in later : \A k \in later : ns[j].seq <= ns[k].seq}
  IN  IF later = {} THEN 0 ELSE Min(first)

\* The edges of a fork to every node of its child.
ChildEdges(ns, i) ==
  IF ns[i].kind \notin ForkKinds THEN <<>>
  ELSE FlattenSeq([j \in 1 .. Len(ns) |->
         IF ns[j].pid = ns[i].child THEN <<Edge("PROCESS_CHILD_EVENT", i, j)>> ELSE <<>>])

\* build_resource_edges.
ResourceEdges(ns) ==
  LET matched == MatchedExit(ns)[Len(ns)]
  IN  FlattenSeq([i \in 1 .. Len(ns) |->
        IF Call(ns[i]) THEN <<>>
        ELSE EdgeIf("CALL_CAUSED_EVENT", EnclosingCall(ns, matched, i), i)
             \o EdgeIf("RESOURCE_LIFETIME", i, LifetimeEnd(ns, i))
             \o ChildEdges(ns, i)])

AllEdges(ns) == CallEdges(ns) \o ResourceEdges(ns)

\* build_lifecycle feeds the resource nodes, SPAWN aside, to a new replay.
Replayed(ns) == SelectSeq(ns, LAMBDA n : ~Call(n) /\ n.kind # "SPAWN")

-----------------------------------------------------------------------------
\* The gate in front of the model: each stream numbers the records of a
\* context upwards, and the two streams share the numbers.
InOrder(rec) ==
  \A i \in 1 .. Len(nodes) :
    SameContext(nodes[i], rec) =>
      IF Call(nodes[i]) = Call(rec) THEN nodes[i].seq < rec.seq ELSE nodes[i].seq # rec.seq

\* The forks recorded name parents in a circle: only process ids that were
\* used again can do that.
Circular(ns) ==
  \E S \in (SUBSET Pids) \ {{}} :
    \A p \in S : \E i \in 1 .. Len(ns) :
      ns[i].kind \in ForkKinds /\ ns[i].child = p /\ ns[i].pid \in S
\* Two processes of one id: circular parents, or two births.
Reused(ns) ==
  \/ Circular(ns)
  \/ \E i, j \in 1 .. Len(ns) :
       /\ i # j /\ ns[i].kind \in ForkKinds /\ ns[j].kind \in ForkKinds
       /\ ns[i].child = ns[j].child

-----------------------------------------------------------------------------
Init ==
  /\ model_run = None
  /\ nodes = <<>> /\ edges = <<>>
  /\ finished = FALSE
  /\ lifecycle = None

\* p101_tool_model_ingest: a finished model and another run refuse; a receipt
\* is no node; memory may run out before or after the run id is kept.
OfThisRun_slip(rec) == nodes = <<>> \/ model_run = rec.run
OfThisRun(rec) == model_run \in {None, rec.run}
Ingest(rec) ==
  /\ ~finished /\ OfThisRun(rec)
  /\ model_run' = IF model_run = None THEN rec.run ELSE model_run
  /\ nodes' = IF rec.kind = "COMPLETE" THEN nodes ELSE Append(nodes, rec)
  /\ UNCHANGED <<edges, finished, lifecycle>>

IngestFails(rec) ==
  /\ ~finished /\ OfThisRun(rec)
  /\ model_run' \in {model_run, IF model_run = None THEN rec.run ELSE model_run}
  /\ UNCHANGED <<nodes, edges, finished, lifecycle>>

\* p101_tool_model_finish starts from no edge, whatever an attempt left.
Restarted(old) == <<>>
Finish ==
  /\ ~finished
  /\ edges' = Restarted(edges) \o AllEdges(nodes)
  /\ lifecycle' = Replayed(nodes)
  /\ finished' = TRUE
  /\ UNCHANGED <<model_run, nodes>>

\* Out of memory after some of the edges, or in the replay: the edges built so
\* far and the replay are given up.
Abandoned_slip(built) == built
Abandoned(built) == <<>>
FinishFails ==
  /\ ~finished
  /\ \E count \in 0 .. Len(AllEdges(nodes)) :
       edges' = Abandoned(Restarted(edges) \o SubSeq(AllEdges(nodes), 1, count))
  /\ lifecycle' = None
  /\ UNCHANGED <<model_run, nodes, finished>>

\* What reaches the model has passed the gate; a run has its bounds.
Admissible(rec) ==
  /\ Len(nodes) < MaxNodes
  /\ InOrder(rec)
  /\ ~PidReuse => ~Reused(Append(nodes, rec))

Next ==
  \/ \E rec \in Records : Admissible(rec) /\ (Ingest(rec) \/ IngestFails(rec))
  \/ Finish
  \/ FinishFails

Spec == Init /\ [][Next]_model

-----------------------------------------------------------------------------
\* Every variable has its type: nodes and edges are sequences of their records.
TypeOK ==
  /\ model_run \in Runs \cup {None}
  /\ \A i \in 1 .. Len(nodes) : nodes[i] \in Records
  /\ \A e \in ToSet(edges) :
       /\ e.kind \in {"CALL_PARENT", "CALL_RETURN", "CALL_CAUSED_EVENT",
                      "RESOURCE_LIFETIME", "PROCESS_CHILD_EVENT"}
       /\ {e.from, e.to} \subseteq 1 .. Len(nodes)
  /\ finished \in BOOLEAN

Linked(kind, from, to) == \E e \in ToSet(edges) : e = Edge(kind, from, to)

\* The edges of a model appear all at once: a finish that failed leaves none
\* behind, and whatever failed before, the finish that succeeds counts no edge
\* twice (the retry in p101_tool_model_finish).
AllOrNothing ==
  IF finished THEN edges = AllEdges(nodes) /\ lifecycle = Replayed(nodes)
  ELSE edges = <<>> /\ lifecycle = None
FinishExact ==
  /\ AllOrNothing
  /\ \A i, j \in 1 .. Len(edges) : edges[i] = edges[j] => i = j

\* The brackets of a context, as a reader of the call stream sees them: an EXIT
\* closes the latest ENTER since which as many calls returned as were entered.
CallsBetween(kind, i, j) ==
  Cardinality({k \in i .. j : nodes[k].kind = kind /\ SameContext(nodes[k], nodes[j])})
Closes(i, j) ==
  /\ nodes[i].kind = "ENTER" /\ nodes[j].kind = "EXIT"
  /\ i < j /\ SameContext(nodes[i], nodes[j])
  /\ CallsBetween("ENTER", i, j) = CallsBetween("EXIT", i, j)
  /\ \A k \in i .. j - 1 :
       SameContext(nodes[k], nodes[j]) =>
         CallsBetween("ENTER", i, k) > CallsBetween("EXIT", i, k)
\* Every EXIT of the context returns from the call entered last.
WellNested(pid, context) ==
  \A j \in 1 .. Len(nodes) :
    nodes[j].kind = "EXIT" /\ nodes[j].pid = pid /\ nodes[j].context = context =>
      \E i \in 1 .. j : Closes(i, j) /\ nodes[i].name = nodes[j].name
\* Record i falls into the call entered at node c.
During(i, c) ==
  /\ nodes[c].kind = "ENTER" /\ c # i /\ SameContext(nodes[c], nodes[i])
  /\ nodes[c].seq < nodes[i].seq
  /\ \A j \in 1 .. Len(nodes) : Closes(c, j) => nodes[i].seq < nodes[j].seq
Innermost(i, c) == During(i, c) /\ \A d \in 1 .. Len(nodes) : During(i, d) => nodes[d].seq <= nodes[c].seq

\* Where calls return in order, the call edges are the brackets of the stream
\* and both kinds of cause are the innermost call at that moment, although
\* returns and parents are found by the order of admission and the causes of
\* events by sequence number (find_active_enter, find_enclosing_call).
CallTreeExact ==
  finished =>
    \A i, c \in 1 .. Len(nodes) :
      SameContext(nodes[i], nodes[c]) /\ WellNested(nodes[i].pid, nodes[i].context) =>
        /\ Linked("CALL_RETURN", c, i) <=> Closes(c, i)
        /\ Linked("CALL_PARENT", c, i) <=> nodes[i].kind = "ENTER" /\ Innermost(i, c)
        /\ Linked("CALL_CAUSED_EVENT", c, i) <=> ~Call(nodes[i]) /\ Innermost(i, c)

\* An EXIT is matched with one ENTER and an ENTER with one EXIT, whatever calls
\* were abandoned (longjmp, a lost record) and never returned (matched_exit).
ReturnsOnce ==
  \A e, f \in ToSet(edges) :
    e.kind = "CALL_RETURN" /\ f.kind = "CALL_RETURN" => (e.from = f.from <=> e.to = f.to)

\* An object that one context of a process brings to life and ends in turn has
\* one edge for each of its lives, from its birth to its own death
\* (find_lifetime_end).  Reused objects are where a later death would be taken.
Alternates(n) ==
  LET about == {i \in 1 .. Len(nodes) :
                  /\ nodes[i].pid = n.pid /\ Family(nodes[i]) = Family(n)
                  /\ {Born(nodes[i]), Dying(nodes[i])} \cap {Born(n)} # {}}
  IN  /\ \A i \in about : SameContext(nodes[i], n) /\ Born(nodes[i]) # Dying(nodes[i])
      /\ \A i, j \in about :
           /\ i # j /\ nodes[i].seq < nodes[j].seq
           /\ (Born(nodes[i]) = Born(n)) = (Born(nodes[j]) = Born(n))
           => \E k \in about : nodes[i].seq < nodes[k].seq /\ nodes[k].seq < nodes[j].seq
LifetimesDisjoint ==
  \A e, f \in {x \in ToSet(edges) : x.kind = "RESOURCE_LIFETIME"} :
    /\ Alternates(nodes[e.from])
    /\ Born(nodes[e.from]) = Born(nodes[f.from]) /\ Family(nodes[e.from]) = Family(nodes[f.from])
    /\ nodes[e.from].pid = nodes[f.from].pid /\ e # f
    => nodes[e.to].seq < nodes[f.from].seq \/ nodes[f.to].seq < nodes[e.from].seq

\* One model holds one run, also when the first record of a run was refused for
\* want of memory (run_id in p101_tool_model_ingest).
ModelOfOneRun == \A i \in 1 .. Len(nodes) : nodes[i].run = model_run
=============================================================================
