----------------------------- MODULE ModelGate -----------------------------
(***************************************************************************)
(* The gate of the causal model (src/model_input.c, and its twin in the    *)
(* command src/model_cli.c): the resource stream is read to its end, then  *)
(* the call stream; every record is counted by the stream check and, when  *)
(* it belongs to its stream, fed to the model.  Only if both streams pass  *)
(* the gate is the model finished.                                         *)
(*                                                                         *)
(* A producer that called exec leaves no receipt, so the gate excuses one  *)
(* whose exec is pending in the resource stream.  A record of the class    *)
(* EVENT may be a CALL record or not; the stream check does not tell.      *)
(* A name ending in _slip is no part of the model: it is the next          *)
(* definition with a plausible mistake, kept to show the properties notice.*)
(***************************************************************************)
EXTENDS Integers, Sequences, FiniteSets

CONSTANTS Runs, Owners, NoRun, Numbers, InitialCapacity, MaxRecords

\* Of the stream check.
ASSUME GateAssumption ==
  /\ NoRun \notin Runs
  /\ Numbers \subseteq Nat
  /\ InitialCapacity \in Nat \ {0}
  /\ MaxRecords \in Nat

VARIABLES
  r_run_ids, r_totals, r_producers, r_known, r_capacity, r_oom, r_log, r_refused,
  c_run_ids, c_totals, c_producers, c_known, c_capacity, c_oom, c_log, c_refused,
  stage,       \* "resources", "calls": the stream being read; then the outcome
  model_run,   \* model->run_id
  nodes        \* model->nodes: the records admitted to the model

R == INSTANCE StreamHealth WITH
       run_ids <- r_run_ids, totals <- r_totals, producers <- r_producers,
       known <- r_known, capacity <- r_capacity, allocation_failed <- r_oom,
       log <- r_log, refused <- r_refused
C == INSTANCE StreamHealth WITH
       run_ids <- c_run_ids, totals <- c_totals, producers <- c_producers,
       known <- c_known, capacity <- c_capacity, allocation_failed <- c_oom,
       log <- c_log, refused <- c_refused

r_vars == <<r_run_ids, r_totals, r_producers, r_known, r_capacity, r_oom, r_log, r_refused>>
c_vars == <<c_run_ids, c_totals, c_producers, c_known, c_capacity, c_oom, c_log, c_refused>>
model == <<model_run, nodes>>
vars == <<r_vars, c_vars, stage, model>>

Record == R!Record
resource_health == [totals |-> r_totals, run_ids |-> r_run_ids, oom |-> r_oom,
                    producers |-> r_producers, known |-> r_known]
call_health == [totals |-> c_totals, run_ids |-> c_run_ids, oom |-> c_oom,
                producers |-> c_producers, known |-> c_known]

-----------------------------------------------------------------------------
\* The integrity of one stream, its receipts aside.
stream_valid(h) ==
  /\ h.totals.records > 0 /\ h.known # {}
  /\ \A counter \in DOMAIN h.totals \ {"records"} : h.totals[counter] = 0
  /\ h.run_ids.distinct = 1 /\ h.run_ids.invalid = 0
  /\ ~h.oom

\* A producer has a clean receipt, or has none and its own exec is pending in
\* the resource stream (or somebody's is).
Receipt(p) == p.completions = 1 /\ ~p.write_failed /\ p.mismatches = 0
PendingExec(k) == k \in r_known /\ r_producers[k].pending_exec
producer_complete_slip(p, k) ==
  Receipt(p) \/ (p.completions = 0 /\ \E q \in r_known : PendingExec(q))
producer_complete(p, k) == Receipt(p) \/ (p.completions = 0 /\ PendingExec(k))

streams_complete ==
  \A h \in {resource_health, call_health} :
    stream_valid(h) /\ \A k \in h.known : producer_complete(h.producers[k], k)

\* The twin of the gate in the command, written on its own there: nested loops
\* with an early return each.
producer_completed_or_execed(p, k) ==
  IF Receipt(p) THEN TRUE
  ELSE IF p.completions # 0 THEN FALSE
  ELSE \E q \in r_known : q = k /\ r_producers[q].pending_exec
admitted_streams_are_complete ==
  ~\E h \in {resource_health, call_health} :
     \/ ~stream_valid(h)
     \/ \E k \in h.known : ~producer_completed_or_execed(h.producers[k], k)

-----------------------------------------------------------------------------
Init ==
  /\ R!Init /\ C!Init
  /\ stage = "resources"
  /\ model_run = NoRun
  /\ nodes = <<>>

\* The model keeps one run.
ForeignRun(rec) == model_run \notin {NoRun, rec.run}

\* p101_tool_model_ingest: another run is refused; memory may run out before
\* or after the run id is kept.
Ingest(rec) ==
  \/ /\ ~ForeignRun(rec)
     /\ model_run' = rec.run /\ nodes' = Append(nodes, rec)
     /\ UNCHANGED stage
  \/ /\ model_run' \in {model_run, IF ForeignRun(rec) THEN model_run ELSE rec.run}
     /\ stage' = "failed"
     /\ UNCHANGED nodes

\* A record counted by the stream check and, unless it is a receipt or belongs
\* to the other stream, fed to the model.
Feed(rec, belongs) ==
  IF rec.kind # "COMPLETE" /\ belongs THEN Ingest(rec) ELSE UNCHANGED <<stage, model>>

ReadResource(rec, call) ==
  /\ stage = "resources"
  /\ call => rec.kind = "EVENT"
  /\ R!Observe(rec)
  /\ Feed(rec, ~call)
  /\ UNCHANGED c_vars

ReadCall(rec, call) ==
  /\ stage = "calls"
  /\ call => rec.kind = "EVENT"
  /\ C!Observe(rec)
  /\ Feed(rec, call)
  /\ UNCHANGED r_vars

\* observe refused the record: reading stops.
Refused ==
  /\ \/ /\ stage = "resources"
        /\ R!ObserveInvalid \/ \E rec \in Record : R!ObserveOutOfMemory(rec)
        /\ UNCHANGED c_vars
     \/ /\ stage = "calls"
        /\ C!ObserveInvalid \/ \E rec \in Record : C!ObserveOutOfMemory(rec)
        /\ UNCHANGED r_vars
  /\ stage' = "failed"
  /\ UNCHANGED model

\* A line cannot be read or parsed, or the file not opened or closed.
ReadFails ==
  /\ stage \in {"resources", "calls"}
  /\ stage' = "failed"
  /\ UNCHANGED <<r_vars, c_vars, model>>

EndOfResources ==
  /\ stage = "resources"
  /\ stage' = "calls"
  /\ UNCHANGED <<r_vars, c_vars, model>>

\* The gate; finishing the model may still run out of memory.
EndOfCalls ==
  /\ stage = "calls"
  /\ stage' \in IF streams_complete THEN {"admitted", "failed"} ELSE {"failed"}
  /\ UNCHANGED <<r_vars, c_vars, model>>

Next ==
  \/ \E rec \in Record, call \in BOOLEAN : ReadResource(rec, call) \/ ReadCall(rec, call)
  \/ Refused
  \/ ReadFails
  \/ EndOfResources
  \/ EndOfCalls

Spec == Init /\ [][Next]_vars

-----------------------------------------------------------------------------
(* Properties. *)

Stream == {"resources", "calls"}
LogOf(s) == IF s = "resources" THEN r_log ELSE c_log
At(s, k) == {i \in 1 .. Len(LogOf(s)) : R!Key(LogOf(s)[i]) = k}
Last(s, k) == CHOOSE i \in At(s, k) : \A j \in At(s, k) : j <= i

\* The last word of a producer in a stream is a receipt that counts the records
\* before it.
EndsInReceipt(s, k) ==
  LET last == LogOf(s)[Last(s, k)]
  IN  /\ last.kind = "COMPLETE" /\ ~last.write_failed
      /\ last.attempted = Cardinality(At(s, k)) - 1

\* The latest record of the resource stream about a producer's execs or
\* completion is an exec snapshot.
Execed(k) ==
  \E i \in At("resources", k) :
    /\ r_log[i].kind = "EXEC"
    /\ \A j \in At("resources", k) : j > i => r_log[j].kind \in {"EXEC", "EVENT"}

\* An admitted model rests on streams that are ordered, never written after a
\* receipt and, context by context, receipted in full; only the context that
\* called exec itself is excused, in either stream, and never one that failed
\* to exec or wrote a receipt that does not add up (streams_complete,
\* producer_complete).
AdmittedSound ==
  stage = "admitted" =>
    /\ R!OneRun /\ C!OneRun
    /\ R!SequencesIncrease /\ C!SequencesIncrease
    /\ \A s \in Stream, k \in R!Keys : At(s, k) # {} =>
         \/ EndsInReceipt(s, k)
         \/ Execed(k) /\ \A i \in At(s, k) : LogOf(s)[i].kind # "COMPLETE"

\* Two clean streams are never turned away by the gate itself.
CleanAdmitted == R!Clean /\ C!Clean => streams_complete

\* The library and the command decide alike, whatever the streams hold.
GatesAgree == streams_complete <=> admitted_streams_are_complete
=============================================================================
