# lib_tool_event: specifications

TLA+ specifications of `lib_tool_event`, the library that reads p101 event
streams, checks their integrity, builds the causal run model and analyses it.
The modules are translated from the C sources under `src/`; where a document of
the repository and the code disagree, the code is modelled and the document is
quoted.

## 1. The system

Observation wrappers in other libraries publish one record per event into a
resource stream and a call stream (`docs/event-format.md`). A *producer* is a
(run, pid, context) triple; each producer numbers its records and closes with a
COMPLETE receipt. The library consumes the two streams of one run:

```
 streams --> line reader / parser --> stream check ----.
                       |                               v
                       '-------> causal model <--- model gate
                                   |   ^                (model_input.c, model_cli.c)
                                   v   |
                            lifecycle replay --> ownership tables
                                   |
                                   v
                       analysis (order, policies, schedules) --> reports
```

Everything is called synchronously by one client; there are no threads and no
callbacks inside the library. What is concurrent is the *observed* program: its
processes and threads interleave their records in a shared stream, a record may
be published later than the event it reports, and a producer may die or call
exec before it writes its receipt. Memory may run out at any allocation.

| component | state it keeps | operations | what is hard | what makes it correct |
|---|---|---|---|---|
| ownership classification (`ownership.c`) | three constant rule tables | classify release, replace, exec | the replay classifies on its own | the replay decides as the tables do |
| lifecycle replay (`lifecycle.c`) | `entries`, `findings`, `finished`, `run_id` | `create`, `destroy`, `ingest` of seven record kinds, `finish` | a FORK record later than the child's own records, exec outcomes known only afterwards, failures half way through a handler, the limits of both arrays, `finish` retried | every release is accounted for, leaks are exact, provisional findings alone are withdrawn |
| processes feeding the replay (outside `src/`) | descriptor tables of the kernel, calls in progress | open, close, fork, exec | calls and their records are two steps | the replay agrees with the kernel; correct programs are not accused |
| stream check (`event.c`: `observe`, `is_complete`, `incomplete_producers`) | stream counters, a growing array of producers | `observe`, the two questions | truncated siblings, duplicates and reordering within a context, receipts that count themselves, out of memory between two updates | complete exactly if every context is closed by one matching receipt |
| model gate (`model_input.c`, `model_cli.c`) | two stream checks, the model | read both streams, gate, finish | the exemption for a context that execed, looked up across streams; two copies of the gate | admitted only if sound; clean input is admitted; both copies agree |
| line reader and parser (`event.c`) | one buffer | `read_line`, `parse_line`, `line_is_ours` | a line as long as the buffer, embedded NUL, arity per record kind | a bad line is never taken for a shorter good one |
| causal model (`model.c`) | nodes, edges, lifecycle, `finished`, `run_id` | `ingest`, `finish` | matching EXITs with ENTERs when calls never return, returns found by admission order and causes by sequence number, lifetimes that end by sequence number, `finish` retried | the edges are the brackets and lifetimes of the program, each EXIT matched once, a retry rebuilds the same edges |
| causal order (`analysis.c:288-602`) | heap of ready nodes, in-degrees | build the order | cycles | order respects every edge or the status says it could not |
| synchronization policy (`analysis.c:1007-1699`) | lock-edge and wait-edge arrays, terminated threads | one pass over the order | array capacities, identifiers that are reused, cycles of waits | a finding exactly for a cycle of locks, a circle of waits, a misuse |
| resource and trace policies, findings (`analysis.c:604-776, 1701-1892`) | stacks of open calls that share entries across forks; findings with pointers into nodes and into themselves | add finding, policies | a child inherits its parent's stack; the limit on contexts; pointers kept while arrays are reallocated | the stacks are those of the program; findings keep pointing at their evidence |
| interleaving schedules (`analysis.c:2129-2420`) | schedules found, how each was reached | walk alternative schedules | only neighbours and direct edges are tested | every schedule is legal, none is missed below the limit, a counterexample can be replayed |
| sanitizer scan, report writers (`analysis.c`) | none | text output | none that a model reaches | |
| summary parser (`summary.c`) | cursor into one JSON text | parse | depth and token limits | |
| JSON of the model (`model_json.c`) | none | write | none that a model reaches | |

## 2. The modules

| module | models | status |
|---|---|---|
| `Ownership` | `ownership.c` as three rule tables and three lookups | complete |
| `Lifecycle` | `lifecycle.c`: every operation of the replay | complete |
| `ProcessReplay` (EXTENDS `Lifecycle`) | processes, their kernel tables and the order in which records reach the replay | complete for descriptors |
| `StreamHealth` | `observe`, `find_or_add_producer`, `incomplete_producers`, `is_complete` | complete |
| `ModelGate` (two INSTANCEs of `StreamHealth`) | `p101_tool_model_ingest_paths`, the same in the command, and the feeding of records to the model | complete up to `finish` |
| `CausalModel` | `model.c`: admission of nodes, edges, `finish` and its retry | complete |
| `LeastOrder` | abstract: an order built by placing the least ready node | specification only |
| `CausalOrder` (EXTENDS `CausalModel`) | `build_causal_order`; implements `LeastOrder` | complete |
| `TracePolicy` (EXTENDS `CausalOrder`) | `analyze_trace`; `AnalysisSpec` is model, order and walk in one behaviour | complete for traces |
| `SyncPolicy` | `analyze_synchronization` as a fold over records | complete |
| `ThreadReplay` (EXTENDS `SyncPolicy`) | threads that lock, wait, join and err, and the policy reading what they publish | complete |
| `Interleaving` (EXTENDS `SyncPolicy`) | `p101_tool_analysis_write_interleaving` | complete but for its JSON |
| `StreamHealth_proofs`, `ModelGate_proofs`, `LeastOrder_proofs`, `Interleaving_proofs` | theorems about the modules of those names | section 4 |
| `ProcessReplay_proofs` | theorems about `Lifecycle`, then about `ProcessReplay` | section 4 |
| `ThreadReplay_proofs` | theorems about `SyncPolicy` fed by `ThreadReplay` | section 4 |
| `CausalOrder_proofs` | theorems about `CausalModel`, `CausalOrder` and `TracePolicy` | section 4 |
| `DataLemmas` | lemmas about naturals, recursive functions and sequences that the proofs share | section 4 |
| `MC_*` | sets and symmetry for TLC; the configurations give constants their values | |

### Ownership and Lifecycle

A *resource* is a (class, id) pair; `Fds` and `Ptrs` are the classes "fd" and
"allocation", `Objects` all others. An entry keeps its process, resource,
`live` and `exec_pending`; a finding keeps its kind, process, resource and
`exec_pending`. Source places, sequence numbers, contexts and sizes are left
out: the replay copies them and decides nothing on them. `entries` and
`findings` are sequences because the code searches from the newest entry and
takes the oldest stray finding.

Each handler of `ingest` is one action named for its record (`IngestOpen`,
`IngestFork`, `IngestExecFail`, ...); it is the whole handler, including the
reconciliation that a FORK record triggers. `Ingested` is the common frame of
`ingest`: `finished` is reset *before* the handler runs and stays reset if it
fails, the run id is bound *after* it, and only if it succeeded. `RefuseRun` is
the early return for another run id, `RefuseKind` every other refusal that
touches nothing but `finished`. The guards on negative process ids in
`ingest_fork` and on a descriptor that cannot be formatted are abstracted away:
they end as an ignored and as a refused record, which are modelled.

An insertion allocates and may fail. A handler runs with a *budget*: the number
of insertions that succeed before one fails. `Faults` gives the budgets beside
the unlimited one; whatever the handler did before the failure stays, as in the
code. `Strict` is the client of `model.c` (`build_lifecycle`), which gives the
replay up at its first failure and ingests nothing after `finish`;
`Strict = FALSE` is any client of the public interface.

Two history variables are no part of the code: `closes` counts the releases
accepted, `contributors` collects the runs whose records changed the model.

The loops of the handlers (`ingest_fork`, `reconcile_stray_releases`,
`rollback_exec`, `finish`) are recursive functions over the index of the loop,
each with its one turn as an operator (`Inherit`, `Replay`, `Settle`, ...), so
that the proofs can speak of one turn.

### ProcessReplay

The truth is `open`, the descriptor table of each process. Open and close
publish their record in the same step. Two calls take several steps, and they
are the reason for the module: `ForkCall` creates the child while the record is
published later by the parent (`ForkReport`; comment at `lifecycle.c:514`), and
`ExecCall` publishes one snapshot per descriptor (`ExecSnapshot`) before the
image is replaced (`ExecSucceeds`) or the call returns (`ExecFails`;
`docs/event-format.md:42`). `EarlyActs` says what a child does before its FORK
record arrives; `Reexec` whether a process that execed may call exec again. The
wrappers are not in `src/`; they are modelled from what these comments and
documents say of them.

### StreamHealth

An owner is a (pid, context) pair. A record keeps run, owner, kind (EXEC,
EXEC_FAIL, COMPLETE, or EVENT for the rest, which the check does not tell
apart), sequence number and receipt. `mixed_run_ids` is left out because it is
set exactly when `distinct_run_ids` becomes 2, the per-producer counters of
duplicates, disorder and late records because nothing reads them, and
`write_errno` because nothing decides on it. The parser accepts sequence number
0, so it occurs. `log`, the records counted, and `refused` are history: they let
`Clean`, the abstract meaning of "complete", be stated without the counters.

### ModelGate

The resource stream is read to its end, then the call stream, then the gate
decides. Both copies of the gate are translated, `streams_complete` from
`model_input.c` and `admitted_streams_are_complete` from `model_cli.c`.
Reading may stop at any line (`ReadFails`), at a record `observe` refuses
(`Refused`), or in `Ingest`.

### CausalModel

A node keeps what edges are made of: process, context, sequence number, kind,
call name, the site of a call, and one *object*, which stands for a descriptor,
a pointer or a (class, id) pair. `Births`, `Deaths` and `Moves` are the record
kinds that begin a lifetime, end one, or do both (REALLOC, REPLACE, TRANSFER);
`Family` keeps the three sorts of objects apart. `MatchedExit` is the array
`matched_exit` after each node, the memory of `build_call_edges`.
`Finish` builds all edges and the replay in one step; `FinishFails` is an
attempt that ran out of memory after any number of edges. `IngestFails` covers
both failures of `ingest`, before and after the run id is kept.

`InOrder` is what the gate has checked before a record comes here: each of the
two streams numbers the records of a context upwards. Numbers of the two
streams are unique together but the streams are read one after the other, which
is why a call is found by admission order in one place and by number in another.
`PidReuse` says whether one process id may name two processes.

### CausalOrder, LeastOrder, TracePolicy

`CausalOrder` keeps the arrays of `build_causal_order`: the heap as a sequence
with the sift-up and sift-down of `heap_push` and `heap_pop` (one turn of either
loop is `Rise` or `Sink`), the in-degrees, the arcs in the order of the linked
lists (`WithEdge` is one turn of the loop over the edges, `Join` of the one that
fills the heap). Each turn of the loop is one step
(`Emit`). A cycle sets `trouble` and leaves `ordered_count` at 0, but the
status is still 0 at that point, so the policies run over nothing
(`analysis.c:436-443`). `LeastOrder` says what this is for, with no heap and no
counters; `PlacesLeast` is the refinement.

`TracePolicy` walks the order with a stack of open calls per context.
`stack_entries` is one array whose entries point downwards, as in the code; a
FORK copies the parent's `top`, so that parent and child share entries.
The tree that is printed, and the depths that only indent it, are left out.

### SyncPolicy, ThreadReplay, Interleaving

`SyncPolicy` has no variables: `SyncStep` is one record of the loop, `AtEnd`
what is found when the records end. Items whose `active` flag was cleared are
removed from the sequences, since the code never looks at them again. The held
classes (mutex, rwlock) are one class and so are the waits for a lock, because
the policy treats them alike.

`ThreadReplay` is the truth the policy is compared with: POSIX threads that lock
(publishing the wait first), try-lock, unlock in any order, wait for conditions,
join, detach, end, and get the identity of an earlier thread. What they publish
is taken from `test/test_analysis.c`, the only place in the repository that
shows these records. `nestings` and `misuses` are history.

`Interleaving` builds any record of lock-consistent events, then walks the
schedules as the code does: breadth first, neighbours swapped, a schedule kept
if new, stopping at the first that has a finding no prefix of the recorded order
has. `Keys` applies `SyncPolicy` to every prefix. The lifetime edges between two
threads exist or not, depending on sequence numbers that do not compare; `Begin`
chooses any subset of them.

### Deliberate mistakes

A definition whose name ends in `_slip` belongs to no behaviour of a
specification. It is the definition below it with a plausible mistake (a dropped
guard, a forgotten reset, a wrong order) and documents, with the list `mutants`
in `PROJECT.json`, which mistake each property would notice.

## 3. What is checked

| run | instance | what it shows |
|---|---|---|
| `lifecycle` | 2 processes, 1 descriptor, 2 runs, 3 entries, 3 findings | types and limits; each accepted release is one released entry or one finding; leaks exact; fork hands over what is live and resolves the child's stray releases; a record changes one process only; only provisional findings are withdrawn; one model takes records of one run |
| `lifecycle_faults` | 1 process, 1 descriptor, 2 pointers; any of the first two insertions fails, the third meets the limits, any client | no live resource of a finished model is without its leak, however `finish` was retried; a failed release, use or exec snapshot changes nothing; the replay decides as `ownership.c` |
| `process_replay` | 3 processes born in a fixed order, 2 descriptors, 3 calls of open and exec, fair parents | once no record is outstanding the replay has the kernel's tables; no false alarm; inherit findings are the successful execs; a stray release of a fast child is eventually resolved |
| `process_replay_reopen` | a fast child closes and reopens | **violated**, see below |
| `stream_health` | all streams of 3 records, 2 runs, 2 contexts, numbers 0..2 | admitted exactly if clean (no other run, ordered, receipted per context); counters explained; pending exec is the latest word |
| `model_gate` | 2 streams of 2 records, 2 contexts | only the context that execed itself is excused from its receipt; clean streams pass; both gates agree |
| `causal_model` | 5 records of one context, 2 runs, 2 names, 1 object | `finish` shows all edges or none, each once; where calls nest, returns, parents and causes are the brackets; an EXIT returns from one ENTER; lifetimes of an object do not overlap; one model, one run |
| `analysis` | 4 records of 2 processes, with ENTER, EXIT, FORK | the order keeps edges and numbers; trouble exactly for forks in a circle; the heap implements `LeastOrder`; the stacks are the program's across forks; the context limit stops only runs with bare forks |
| `sync_policy` | 3 threads, 3 mutexes, 1 condition, 7 records | SYNC-001 exactly for a cycle of nestings, SYNC-002/003 exactly for a circle of waits, every misuse found with its evidence and nothing else; edges fit their arrays |
| `sync_policy_reuse` | 2 threads | **violated**, see below |
| `interleaving` | 4 events of 2 threads, 8 schedules | schedules keep every edge and every thread's order; below the limit none is missed; the swaps reported lead to the counterexample |
| `interleaving_local` | the same, some records without metadata | **violated**, see below |

### Disagreements

Kept as runs:

1. *Close and reopen* (`lifecycle.c:538`). `ingest_fork` skips a descriptor the
   child already has an entry for, and with it the reconciliation. A fast child
   that closes an inherited number and opens it again before its FORK record
   arrives stays accused of a stray release.
2. *A thread identity used again* (`analysis.c:1417`). The mark that a thread
   was joined or detached is never withdrawn, so the next thread with the same
   identity is reported as joined twice. `README.md:108-110` speaks of the
   thread's own lifetime.
3. *Local order* (`analysis.c:2558`). Two records with metadata are of one
   thread if the metadata are equal, and `-` is metadata. Events of one thread,
   some marked `thread=7` and some `-`, are swapped, although the report says
   that each thread's order is preserved (`analysis.c:2396`). Where all records
   of a thread carry the same mark, `interleaving` shows that it is.

Seen in instances of these modules, and not kept as runs:

4. *A child that runs ahead* (`lifecycle.c:521`). The clone is taken from the
   parent's entries when the record is ingested. If the child forks before its
   own FORK record arrives (`EarlyActs = {"fork"}` violates `Agreement`), the
   grandchild gets nothing; with `{"exec"}` the snapshot of a descriptor without
   an entry is ignored (`lifecycle.c:600`), and the clone revives what exec
   closed.
5. *Exec after exec* (`lifecycle.c:642`). `exec_pending` is not cleared when an
   exec is known to have succeeded, so a later failing exec of the same process
   rolls the earlier one back as well (`Reexec = TRUE` violates `Agreement`).
6. *Sequence number 0* (`event.c:334`) is exempt from the tests for duplicates
   and order; `docs/event-format.md:63-65` makes no exception.
7. *A lone FORK* (`analysis.c:1714`). A FORK needs two trace contexts and the
   array has one per ordered node, so the analysis of a run with nothing but a
   FORK fails with EOVERFLOW. `OverflowOnlyBare` says how far this goes.
8. *Four nested locks* (`analysis.c:1471`). A thread that takes four locks with
   trylock publishes four records and adds six lock edges to an array of four.
   `ArraysFit` holds for three (`ThreeLocksFit`).
9. *Mixed runs in a bare replay* (`lifecycle.c:261`). A first record that fails
   half way leaves evidence but binds no run; a client that carries on
   (`Strict = FALSE` with faults) may mix two runs. `model.c` does not.

Read in the code while modelling, in parts that no module covers: findings
point into the array that stores them and the pointers are not moved along when
it grows past 16 findings (`analysis.c:616-631, 687-693`); `sync_reaches`
answers "no" when it gets no memory (`analysis.c:1110`); a call stream that
consists of receipts of another run is admitted, because the run of the two
streams is compared through the records fed to the model; and a context killed
between its exec snapshot and the exec is excused from its receipt like one that
execed (`model_input.c:193`, intended: `test/test_model_cli.sh:79`).

### Bounds, and why they are enough

* Two processes are a parent and a child, three add a grandchild or a sibling;
  nothing in the replay relates more than two at a time.
* One descriptor in `lifecycle` because every search and rollback is by resource
  and `OneProcessPerRecord` is about processes; `process_replay` has two, so that
  the loop of `ingest_fork` runs over several and a rollback restores one and
  not the other.
* `MaxEntries` and `MaxFindings` stand for `MAX_LIFECYCLE_ENTRIES` and
  `MAX_LIFECYCLE_FINDINGS`. They are small so that the limit is hit within each
  handler (first, middle and last insertion); in `process_replay` they are large
  enough never to be hit.
* A handler of `lifecycle_faults` makes at most three insertions. The first or
  the second runs out of memory (budgets 0 and 1); the third fails at the limits
  of two entries and two findings. The theorems of section 4 do without bounds
  and budgets.
* Three records of two contexts are the least that show a receipted context
  beside a truncated one, a record after a receipt and a reordered pair; the
  theorems of section 4 do without the bound. `InitialCapacity = 1` makes the array of
  producers grow, and growth fail, at the second producer.
* Numbers 0..2 hold zero, equality and both orders. Four records in two streams
  are the least that give both streams an event and its receipt.

* Five records of one context are the least with a call inside a call that an
  event belongs to, an abandoned call beside a returned one, or an object with
  two lifetimes. Edges never depend on more than two contexts: the others differ
  by their process only through forks, which `analysis` has. Sequence numbers
  run to the number of records, so every order of the two streams occurs.
* Four records of two processes hold a circle of forks, a fork inside a call and
  calls of both sides after it. Six values in every order, pushed and popped,
  check the heap by itself (`HeapSorts`, an assumption TLC evaluates).
* Three threads and three mutexes make circles of two and three, a circle with a
  join in it, and a bystander; seven records suffice for three crossed nestings
  by two threads, and a wait in a circle takes two records per thread.
* Four events of two threads give up to six schedules with two threads' orders
  kept, and more without edges between the threads; the limit of eight is
  reached in neither the smallest nor the largest cases, and the walk also stops
  at a counterexample. `MaxRecords` and `MaxNodes` end the recording, nothing
  else.

Symmetry is used for processes, descriptors, pointers, runs and contexts where
no constant singles one out; never with a liveness property.

Deadlock is checked for `Lifecycle` and `ProcessReplay`, whose `finish` may
always be called again. The others stop: a stream or a recording ends at the
bound, a gate decides once, a finished model and its analysis are not changed,
and the threads of `ThreadReplay` may really be deadlocked.

### Fairness

Only `FairWorldSpec` assumes any: for each process `c` but the first, weak fairness of the
step that takes `c` out of `unreported`, i.e. a parent back from fork publishes
the record. The wrapper does so without waiting for anybody. A parent killed in
between leaves a stream without its receipt, which the gate turns away. Nothing
is assumed of opens, closes, execs or the end of the run.

## 4. What is proved

The theorems hold for any sets of runs, processes, resources, owners, names and
objects, any numbers, limits and fault budgets. They assume the types of the
constants (`StreamAssumption`, `GateAssumption`, `LifecycleAssumption`,
`ProcessAssumption`, `ModelAssumption`, `ThreadAssumption`, `InterleavingAssumption`) and, where
it is said, one thing about the client or the input.

Much of the code is loops over arrays. A loop is a recursive function
`f[i \in 0 .. n]` in the model, and what it computes is proved without
a rule of induction: a set of naturals has a least element (`LeastNatural`), so
that what holds of 0 and passes from `i - 1` to `i` holds up to `n` (`UpTo`).
`Iterated` shows that the recursive equation has a solution when each turn stays
within a set, which is what makes the function's equation usable at all.
`FlattenIs`, `FlattenShort` and `ConcatIs` say what concatenations hold and how
long they are.

### StreamHealth: complete means clean

* `TypeCorrect`: `Spec => []TypeOK`.
* `CountersCorrect`: `Spec => []CountersExplain`; `CompleteSound`:
  `Spec => []CompleteIsSound`. What is admitted is clean.
* `CountersFair`: `Spec => []CountersBlame`; `CleanComplete`:
  `Spec => []CleanIsComplete`. What is clean is admitted.
* `PendingCorrect`: `Spec => []PendingIsLatest`.

`CompleteIsSound` is not inductive: it says nothing of a stream with a receipt
still missing, which the next record may complete. `CountersExplain` says what
each counter knows about the stream so far. A producer's counters are the
cardinality of its positions in `log` and the largest number among them
(`Counting`); a stream counter that is *still zero* excludes its irregularity
anywhere (`Ordering`, `Sealing`, `Counts`, `Writes`, `Identity`). Each part is
preserved by `Observe` because the counters only grow and the new record is the
last: `PositionsAppended` computes its producer's positions,
`CountersAfter` the counters, `ObserveExplains` puts the parts together. The
remaining actions leave `log` alone. `ExplainedIsSound` then needs no induction:
a producer with one completion, none of its records after it, has its receipt
last, and `Counts` says that it matches.

`CountersBlame` is the converse invariant: a counter that *moved* has seen its
irregularity, which is still in the stream (`Disorder`, `Excess`, `Mismatches`,
`Failures`, `Foreign`), and the charges of one producer are also those of the
stream (`Charges`). A mismatch may be due to an earlier receipt rather than to
a wrong count, so it blames either. `LastWords` gives every known producer a last
record, which in a clean stream must be its receipt.

### ModelGate: composed from its two streams

* `AdmittedCorrect`: `Spec => []AdmittedSound`; `CleanPasses`:
  `Spec => []CleanAdmitted`; `GatesAlike`: `Spec => []GatesAgree`.

No invariant of a stream is proved again. `StreamsRefined` shows that a
behaviour of the gate is a behaviour of the stream check in each of the two
instances, so that the theorems above hold of both (`StreamsCorrect`). What is
left is that nothing is read after the decision (`AdmittedStays`), and that the
tests of the gate are those of `is_complete` but for the receipts (`PassedR`,
`PassedC`): `ReceiptIsLast` says what a receipt is worth, `PendingIsExeced` what
an excuse is worth. `SameR`, `SameC` and `CardinalityAlike` only tie the names of
two instances of one module together.

### Lifecycle: every release accounted for, every leak reported

* `TypeCorrect`: `Spec => []TypeOK`, with the limits of both arrays.
* `ReleasesAreAccounted`: `Strict` implies `Spec => []ReleasesAccounted`;
  `LeaksAreExact`: `Strict` implies `Spec => []LeaksExact`.
* `LeaksAreReported`: `Spec => []LeaksComplete`, for any client.
* `WithdrawalIsProvisional`: `Spec => OnlyProvisionalWithdrawn`;
  `FailuresAreAtomic`: `Spec => FailureAtomic`;
  `ReplayFollowsTables`: `Spec => OwnershipAgrees`;
  `ForkInheritsExactly`: `Spec => ForkInherits`;
  `RecordsTouchOneProcess`: `Spec => OneProcessPerRecord`.
* `ReplayOneRun`: `Strict` implies `Spec => []OneRun`.

A handler is a function from stores to stores (entries, findings, budget, `ok`),
composed of insertions and markings. `Progress(s, t, p, rs)` is the contract
they all keep: what is known stays known, no leak finding comes or goes, a
finding is withdrawn only if it is a stray release of a resource that becomes
known with it, and a success adds exactly the releases `rs` of process `p` to
the account (`Accounted`: released entries plus stray and double releases).
That is `Advances`; the other half, `Spares`, is that the entries and findings
of every process but `p` read the same in the same order. Contracts compose (`ProgressComposes`), so `AddEntryProgress`,
`AddFindingProgress` and `ReleaseProgress` carry over to each handler
(`AcquireProgress`, ..., `ExecProgress`). The hard one is the fork:
`ReconcileIs` shows that the stray releases taken out, one by one, oldest first,
and played again, leave the account as it was, `ForkIs` that the loop over the
parent's entries does. `RollbackIs` covers the one handler outside the contract
(it revives what exec closed), `SealIs` the loop of `finish`. Counting is done
with `Matching(seq, R)`, the number of elements of a sequence in a set; its
lemmas say what an append, an update and a removal do to it.

`ReleasesAccounted` is not inductive: `finish` must not meet leak findings, and
what it reports must be counted in the same terms. `AccountInv` adds `TypeOK`
and `Balanced` (before `finish` there is no leak finding, and the history
`closes` is the account). A handler that fails half way may have marked an entry
without its finding, so the account breaks with the first failure; `Strict` is
the client that stops there, as `model.c` does. `LeaksComplete` needs no such
client, since `finish` counts what is live when it is called.

`OneProcessPerRecord` compares what is kept of two sequences. `Shown(seq, S,
proj)` is what `proj` makes of the elements of `seq` in `S`; it does not notice
that an element outside `S` is appended (`ShownAppend`), taken out
(`ShownRemove`) or filtered away (`ShownKept`), or that a place changes in
something it does not show (`ShownAlike`). A fork is charged to its parent and
spares all but the child, so a step of the specification names the process it
accounts for and the one it touches separately (`Handled`).

In `OneRun` a record may leave evidence without binding the run, or bind it
without leaving any. `RunInv` allows evidence of an unbound run while `status`
says that a handler failed; the strict client then stops (point 9 of section 3
is what happens without it).

### ProcessReplay: the replay has the kernel's tables

* `WorldFeedsReplay`: `WorldSpec => Spec`. Whatever the programs do, the replay
  they feed is the one of `Lifecycle`, so every theorem above holds of it.
* `WorldIsKnown`: `WorldSpec => []WorldInv`, the invariant, and from it
  `ReplayAgrees`: `WorldSpec => [](status = 0 => Agreement)`, `NoProgramAccused`
  the same of `NoFalseAlarm`, `InheritsCounted` of `InheritExact`, for any
  number of processes, descriptors and calls.

The three have one proviso and three hypotheses. `status = 0` says that no
insertion has failed yet: a replay that ran into `MAX_LIFECYCLE_ENTRIES` is given
up by its client and agrees with nothing. `Strict` is that client. `~Reexec` and
`EarlyActs \subseteq {"close"}` leave out points 1, 4 and 5 of section 3, where
the code really differs; they are the constants of run `process_replay`.

None of the three is inductive: between the records of one call the replay
differs from the kernel, and a failed exec has to find its way back. `Evidence(p,
f)` says what the replay holds about one descriptor of one process in *every*
state, in four numbers: live entries (one, if open and reported, less what a
snapshot under way already closed), stray releases (one, if the child closed an
inherited descriptor before its FORK record), exec-inherit findings (those of
the successful execs, or of the snapshots taken so far), and the entries and
findings still marked as pending, which are what `rollback_exec` can touch.
`Clean` says that nothing else is recorded, `Tables` what each process may be in
the middle of: a child whose record is due has a parent that waits for it and
whose table contains the child's.

`Moves(s, t, q, x, ...)` is by how much a handler changed those numbers;
`Elsewhere` that it changed them for one descriptor of one process only. One
lemma per handler says what it moves (`AcquireMoves`, `ReleaseMoves`,
`ExecMoves`, `RollbackMoves`, ...). The hard one is again the fork:
`InheritMoves` is one turn of its loop, `GivenOnce` the step of the induction
over it, `ForkMoves` the result. `Open`, `Close` and the others then have a
lemma each for `Tables` (`OpenTables`, ...) and for the numbers
(`OpenEvidence`, ...).

### CausalModel: edges once, lives apart

* `TypeCorrect`: `Spec => []TypeOK`: every edge joins two nodes of the model.
* `FinishCorrect`: `Spec => []FinishExact`; `FinishAllOrNothing` is its first
  half. After any number of failed attempts the edges are those of one attempt,
  each once.
* `ReturnsCorrect`: `Spec => []ReturnsOnce`.
* `LifetimesCorrect`: `Spec => []LifetimesDisjoint`.
* `OneRunCorrect`: `Spec => []ModelOfOneRun`.
* `CallTreeCorrect`: `Spec => []CallTreeExact`.

The edges are a function of the nodes (`AllEdges`), so the work is in lemmas
about that function. `MatchedExitIs` gives the array `matched_exit` its type
after each node; `MatchesGrow` and `ReturnedOnce` show that an ENTER that has
been matched stays matched with the same EXIT, so that no second EXIT finds it.
`CallEdgesAre`, `ResourceEdgesAre` and `AllEdgesAre` show that the pieces
written node by node share no edge. The state invariant `NodesInv` only adds
that the sequence numbers of a context differ, which the gate has checked
(`InOrder`). `LifetimesDisjoint` then rests on `DeathBetween`: between two
births of an object lies a death, so the first death after the first birth
comes before the second.
`RunInv` allows a bound run without nodes, never nodes without a run.

`CallTreeExact` compares the code, which keeps an array of matched returns and
searches it backwards, with brackets, which are counts of records between two
places. `Height` is the number of calls entered less those returned; `ClosesIs`
says that an EXIT closes an ENTER when the height comes back to what it was
before the ENTER and was above it ever since (`ClosesAt`), `FallCloses` that a
height that has come back has such an EXIT on its way. `Stacked` is the
invariant of the loop: the calls matched after i nodes are those closed by then,
each with the EXIT that closes it. `ExitFinds` is its step, and needs that the
context nests (`Nests`): the latest unmatched call of the name is the closed one,
because any later one of that name has been closed, hence matched, before.
`CallLinksAre` reads the three searches off the edges. Parents are then found by
the order of admission, causes by number; `Ascending` and `SeqsDiffer` make both
the innermost call (`ParentFound`, `CauseFound`).

### ThreadReplay: what the policy keeps is what the threads did

* `PolicyTracksThreads`: `Spec => []PolicyTracks`, the invariant, and from it
  `LockOrderCorrect`: `Spec => []LockOrderExact`, `MisuseCorrect`:
  `Spec => []MisuseExact`, `DeadlockCorrect`: `Spec => []DeadlockExact`.
* `ThreeLocksFit`: if there are three mutexes at most, `Spec => []ArraysFit`.

They hold for any threads, mutexes, conditions and number of records.
`ThreadAssumption` says that the identities of threads, mutexes and conditions
differ, as the policy compares the resource of a wait with those of locks
without asking for a class, and that no mutex has the empty identity, which is
the target of a wait that has none.

The policy reads records and the properties speak of threads, so the invariant
relates the two: each lock held is filed once, those of a thread in the order of
its nest, though not next to each other (`HeldIs`); each blocked thread has one
wait filed, with what it waits for (`WaitsAre`); whoever consumed a thread is
filed, other entries are of an identity used twice (`Terminated`); every mistake
is a finding (`Accurate`); the lock edges are the pairs ever nested, and SYNC-001
has been found exactly if they have a loop (`Ordered`). `HeldReleased` is the
hardest of its parts: a lock is taken out of the middle of both sequences and all
others move up. Each kind of record has a lemma (`TracksAcquire`,
`TracksConditionWait`, ...), each call of a thread one that puts its one or two
records together (`LockedTracks`, `WaitTracks`, ...).

`sync_reaches` is a bounded search; `ReachesIs` shows that what it reaches is the
least set that holds the start and that no edge leaves, since a round that finds
something new uses an edge that no round used before. Circles are stated without
paths, as sets of nodes each of which has an edge to one of them. `LoopAdds` says
that an edge closes a loop exactly if its end led back to its start before;
`LoopEdges` applies it to the edges of one lock, each tested against the graph
with those before it, as the code does. `LoopParts` is the question at the end of
the records, asked of the joins alone (SYNC-003) and then of every other wait in
the whole graph (SYNC-002): together they miss no circle. `WaitEdgesAre` and
`JoinEdgesAre` say that the edges collected there are who waits for whom.

`ArraysFit` needs to know that the first lock of a thread takes a record and no
edge, which the third, with two edges, uses up: `Saved` is that balance and
`Fit` the invariant. A wait has at most one edge, because a mutex has one holder
(`EdgesOfShort`). The hypothesis is not a convenience: with four mutexes the
invariant is false, point 8 of section 3.

### Interleaving: legal, complete, replayable

* `WalkTyped`: `Spec => []WalkType`.
* `SchedulesCorrect`: if every record carries its thread, `Spec => []SchedulesLegal`.
* `WalkExhaustive`: if every record carries its thread, `Spec => []Exhaustive`.
* `CounterexampleCorrect`: `Spec => []CounterexampleReplays`.

They hold for any number of threads, events and schedules. `LegalInv` says that
each schedule has every event once, keeps the edges and occurs once: a swap of
neighbours that are not joined by an edge preserves this (`SwappedOnceEach`,
`SwappedRespects`). The code tests direct edges of neighbours only; that this is
enough is the point of `WalkExhaustive`. `SearchInv` says that the walk is breadth first
and that what lies behind its place is closed under swaps. Given a legal order,
`LegalReached` takes the schedule found that agrees with it longest and has the
next event of it earliest; unless it is that order, `FreeNeighbours` shows that
this event may be swapped forward. `Unmarked = {}`, the records that all carry their thread, is needed:
disagreement 3 is what happens without it.

### LeastOrder: the order and its verdict

* `VerdictCorrect`: `Spec => []VerdictInv`: in any graph each node is placed
  after its predecessors and at most once; "complete" means that all are
  placed, "cyclic" that those left wait for each other.

`Forward` is inductive (`PlaceKeepsForward`: what is ready waits for nothing
unplaced). The verdict compares a length with the number of nodes;
`FullIsComplete` is the pigeonhole that makes this a statement about all nodes.

### CausalOrder: the least first, and trouble means a circle of forks

* `OrderPlacesLeast`: `AnalysisSpec => PlacesLeast`: the loop with its heap and
  counters implements `LeastOrder`.
* `OrderCorrect`: `AnalysisSpec => []OrderExact`.
* `TroubleCorrect`: `AnalysisSpec => []TroubleExact`.

The refinement rests on what the arrays mean. A heap holds naturals, each once,
none below a larger one (`Heap`); `HeapPushIs` and `HeapPopIs` follow the value
up and down: while it moves, all places but its own are ordered (`Rising`,
`Sinking`), and at its destination that one is, too. `RootIsLeast` and
`WithReadyIs` are what the loop needs of the heap, `ArcsFromAre` that the list of
arcs of a node has each successor once. `Counting` is the invariant of the loop:
an in-degree is the number of predecessors not yet placed, and the heap holds
what is free. `StepPlaces` then maps each step to one of `LeastOrder` or to none.
`PromisesKept` brings `VerdictCorrect` back through an instance of
`LeastOrder_proofs`, as `ModelGate_proofs` does with its streams.

What the verdict means for a model follows from the edges (`EdgesGoOn`): an edge
stays in its process and goes to a larger number, or leads from a fork to its
child. For call edges this needs the streams to be in order (`Ascending`, from
`InOrder`), for the others the searches of `finish`. So when nodes are left, the
left node of a process with the least number can only wait for a fork that is
left: the processes of what is left are parents in a circle
(`TroubleIsCircular`). Conversely the first fork of a circle in a complete order
would have to come after the fork that made its own process
(`CircularIsTrouble`). That a context keeps its numbers, though only neighbours
are linked, is `ContextInOrder`.

### TracePolicy: stacks that end, contexts told apart

* `StacksEnd`: `AnalysisSpec => []StacksApart`: every entry of the shared array
  points to an earlier one and every context to one that exists, so that reading
  a stack ends, however forks share it; no two slots are of one context.
* `OverflowCorrect`: `AnalysisSpec => []OverflowOnlyBare`.

The array of contexts has one slot for each ordered node, but one FORK record may
take two slots, its parent's and its child's. `WalkInv` adds to the promises of
the order that each slot was made for some node (`Made`) and that no two are of
one context (`StacksApart`, by way of `Table`). Unless some context has nothing
but forks, each slot is owned by a node of its own (`Owns`): the child of a fork
by that fork, any other by one of its records that is no fork. By the pigeonhole
(`TableFits`) the slots then fit. `EnterKeepsStacks`, `ExitKeepsTable`
and `ForkKeepsTable` follow the three kinds of records that move a stack,
`WithContextIs` the search that all of them begin with.

### Only model-checked

* `ProcessReplay`: `StrayResolved`, which is liveness, out of the prover's reach.
* `TracePolicy`: `TraceExact`, which compares the findings of the walk with a
  count of brackets in the history of each process. That history is a function
  defined by recursion over the forks, and what such a function yields takes an
  induction over data.
* The three disagreements, which are violations.

## 5. Not modelled, and the plan

Not modelled:

* The line reader and the record parser (`event.c`): text to record, one line at
  a time, without state between lines. The other modules start from records.
* The translation of the replay's findings into diagnostics
  (`analysis.c:721-939`), a table, and the array that stores findings.
* The sanitizer scan, the report and JSON writers, the summary parser: text in
  or out, with no decision that depends on more than the text at hand.
* `sync_reaches` without memory, texts cut at `EVIDENCE_TEXT_SIZE`, and the
  overflow tests on sizes of arrays.
* The libraries this one calls (`p101_error`, `p101_record`,
  `p101_transition`), the build files, the tests and the fuzz driver.
