---------------------------- MODULE TracePolicy ----------------------------
(***************************************************************************)
(* The trace policy (analyze_trace in src/analysis.c): the ordered nodes   *)
(* are walked with one stack of open calls for each context.  The stacks   *)
(* are lists in one array: an entry points to the one below it, and a      *)
(* child of a fork shares the entries of its parent.                       *)
(***************************************************************************)
EXTENDS CausalOrder

VARIABLES
  walked,          \* the ordered nodes walked
  stack_entries,   \* stack_entries up to stack_entry_count: [node, previous]
  trace_contexts,  \* trace_contexts up to trace_context_count
  findings         \* the findings of this policy: <<identifier, node>>

tracing == <<walked, stack_entries, trace_contexts, findings>>
analysis == <<model, ordering, tracing>>

\* trace_context: the slot of a context, a new one where it has none yet; the
\* array has one slot for each ordered node.
SlotsOf(contexts, pid, context) ==
  {k \in DOMAIN contexts : contexts[k].pid = pid /\ contexts[k].context = context}
WithContext(contexts, pid, context) ==
  IF SlotsOf(contexts, pid, context) # {} THEN contexts
  ELSE Append(contexts, [pid |-> pid, context |-> context, top |-> 0])
Slot(contexts, pid, context) == CHOOSE k \in SlotsOf(contexts, pid, context) : TRUE
Fits_slip(contexts) == Len(contexts) < ordered_count
Fits(contexts) == Len(contexts) <= ordered_count

\* A slot without its innermost call.  Its depth is only printed.
Popped(slot) == [slot EXCEPT !.top = stack_entries[slot.top].previous]

\* The stack a child starts with: its parent's, less the call that forked.
Inherited_slip(slot, name) == slot
Inherited(slot, name) ==
  IF slot.top # 0 /\ nodes[stack_entries[slot.top].node].name = name THEN Popped(slot) ELSE slot

-----------------------------------------------------------------------------
TraceInit ==
  /\ walked = 0
  /\ stack_entries = <<>> /\ trace_contexts = <<>>
  /\ findings = <<>>

Current == ordered[walked + 1]
Walking == stage = "ordered" /\ walked < ordered_count

WalkFork ==
  /\ Walking
  /\ LET n == nodes[Current]
         contexts == WithContext(WithContext(trace_contexts, n.pid, n.context), n.child, n.context)
         parent == contexts[Slot(contexts, n.pid, n.context)]
     IN  /\ n.kind = "FORK"
         /\ Fits(contexts)
         /\ trace_contexts' =
              [contexts EXCEPT ![Slot(contexts, n.child, n.context)] =
                 [Inherited(parent, n.name) EXCEPT !.pid = n.child]]
  /\ walked' = walked + 1
  /\ UNCHANGED <<stage, stack_entries, findings>>

WalkEnter ==
  /\ Walking
  /\ LET n == nodes[Current]
         contexts == WithContext(trace_contexts, n.pid, n.context)
         slot == Slot(contexts, n.pid, n.context)
     IN  /\ n.kind = "ENTER"
         /\ Fits(contexts)
         /\ stack_entries' = Append(stack_entries, [node |-> Current, previous |-> contexts[slot].top])
         /\ trace_contexts' = [contexts EXCEPT ![slot].top = Len(stack_entries) + 1]
  /\ walked' = walked + 1
  /\ UNCHANGED <<stage, findings>>

\* An EXIT with no open call, or that differs from the open call in its name,
\* function or file, is a finding and leaves the stack alone.
SameCall(m, n) == m.name = n.name /\ m.site = n.site
WalkExit ==
  /\ Walking
  /\ LET n == nodes[Current]
         contexts == WithContext(trace_contexts, n.pid, n.context)
         slot == Slot(contexts, n.pid, n.context)
         top == contexts[slot].top
         matches == top # 0 /\ SameCall(nodes[stack_entries[top].node], n)
     IN  /\ n.kind = "EXIT"
         /\ Fits(contexts)
         /\ trace_contexts' = IF matches THEN [contexts EXCEPT ![slot] = Popped(@)] ELSE contexts
         /\ findings' = IF matches THEN findings
                        ELSE Append(findings, <<IF top = 0 THEN "TRACE-001" ELSE "TRACE-002", Current>>)
  /\ walked' = walked + 1
  /\ UNCHANGED <<stage, stack_entries>>

WalkOther ==
  /\ Walking
  /\ ~Call(nodes[Current]) /\ nodes[Current].kind # "FORK"
  /\ walked' = walked + 1
  /\ UNCHANGED <<stage, stack_entries, trace_contexts, findings>>

\* More contexts than ordered nodes: the walk, and with it the run, fails.
Needs(n) ==
  IF Call(n) THEN WithContext(trace_contexts, n.pid, n.context)
  ELSE IF n.kind = "FORK"
       THEN WithContext(WithContext(trace_contexts, n.pid, n.context), n.child, n.context)
       ELSE trace_contexts
WalkOverflows ==
  /\ Walking /\ ~Fits(Needs(nodes[Current]))
  /\ stage' = "overflow"
  /\ UNCHANGED tracing

\* The calls still open in every context, the innermost first.
OpenFrom(top) ==
  LET open[e \in 0 .. Len(stack_entries)] ==
        IF e = 0 THEN <<>> ELSE <<stack_entries[e].node>> \o open[stack_entries[e].previous]
  IN  open[top]
WalkDone ==
  /\ stage = "ordered" /\ walked = ordered_count
  /\ findings' = findings \o
       FlattenSeq([k \in DOMAIN trace_contexts |->
         LET open == OpenFrom(trace_contexts[k].top)
         IN  [d \in DOMAIN open |-> <<"TRACE-003", open[d]>>]])
  /\ stage' = "traced"
  /\ UNCHANGED <<walked, stack_entries, trace_contexts>>

\* No memory for the stacks, a line of the tree or a finding.
WalkFails ==
  /\ stage = "ordered"
  /\ stage' = "untraced"
  /\ UNCHANGED tracing

TraceNext ==
  /\ UNCHANGED <<model, heap, indegree, ordered, ordered_count, trouble>>
  /\ WalkFork \/ WalkEnter \/ WalkExit \/ WalkOther \/ WalkOverflows \/ WalkDone \/ WalkFails

AnalysisInit == Init /\ OrderInit /\ TraceInit
AnalysisNext ==
  \/ Next /\ UNCHANGED <<ordering, tracing>>
  \/ OrderNext /\ UNCHANGED tracing
  \/ TraceNext
AnalysisSpec == AnalysisInit /\ [][AnalysisNext]_analysis

-----------------------------------------------------------------------------
\* The calls of process p in context c as the program made them: those its
\* parent had made when it forked, unless the innermost open one is the fork
\* itself, and its own by sequence number.
Matching(h, a, b) ==
  LET Count(kind, k) == Cardinality({m \in a .. k : nodes[h[m]].kind = kind})
  IN  /\ a < b /\ nodes[h[a]].kind = "ENTER" /\ nodes[h[b]].kind = "EXIT"
      /\ Count("ENTER", b) = Count("EXIT", b)
      /\ \A k \in a .. b - 1 : Count("ENTER", k) > Count("EXIT", k)
Nested(h) ==
  \A b \in DOMAIN h :
    nodes[h[b]].kind = "EXIT" =>
      \E a \in DOMAIN h : Matching(h, a, b) /\ nodes[h[a]].name = nodes[h[b]].name
                                            /\ nodes[h[a]].site = nodes[h[b]].site
Unreturned(h) ==
  {a \in DOMAIN h : nodes[h[a]].kind = "ENTER" /\ ~\E b \in DOMAIN h : Matching(h, a, b)}

Forks(p, c) == {f \in 1 .. Len(nodes) : nodes[f].kind = "FORK" /\ nodes[f].child = p /\ nodes[f].context = c}
History(p, c) ==
  LET Own(q) == SetToSortSeq({i \in 1 .. Len(nodes) : Call(nodes[i]) /\ nodes[i].pid = q /\ nodes[i].context = c},
                             LAMBDA i, j : nodes[i].seq < nodes[j].seq)
      history[q \in Pids] ==
        IF Forks(q, c) = {} THEN Own(q)
        ELSE LET fork == nodes[CHOOSE f \in Forks(q, c) : TRUE]
                 before == SelectSeq(history[fork.pid],
                                     LAMBDA i : nodes[i].pid = fork.pid => nodes[i].seq < fork.seq)
                 last == Max(Unreturned(before) \cup {0})
             IN  (IF last # 0 /\ nodes[before[last]].name = fork.name
                  THEN SelectSeq(before, LAMBDA i : i # before[last]) ELSE before) \o Own(q)
  IN  history[p]

\* The stacks of the walk are those of the program, across forks and whatever
\* order the two processes are walked in: the walk objects to an EXIT exactly
\* when some process did not nest its calls, and otherwise names each call
\* that a process never returned from once (analyze_trace).
TraceExact ==
  stage = "traced" /\ ~trouble /\ ~Reused(nodes) =>
    LET Found(id, i) == Cardinality({k \in DOMAIN findings : findings[k] = <<id, i>>})
        nested == \A p \in Pids, c \in Contexts : Nested(History(p, c))
    IN  /\ nested <=> \A f \in ToSet(findings) : f[1] = "TRACE-003"
        /\ nested =>
             \A i \in 1 .. Len(nodes) :
               Found("TRACE-003", i) =
                 Cardinality({p \in Pids :
                   LET h == History(p, nodes[i].context) IN \E a \in Unreturned(h) : h[a] = i})

\* The limit on contexts can only stop a run that has a context with no record
\* but forks: whoever makes a call has a node of its own (trace_context).
OverflowOnlyBare ==
  stage = "overflow" =>
    \E i \in 1 .. Len(nodes) :
      \A j \in 1 .. Len(nodes) : SameContext(nodes[i], nodes[j]) => nodes[j].kind = "FORK"
=============================================================================
