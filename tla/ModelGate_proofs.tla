------------------------- MODULE ModelGate_proofs -------------------------
(***************************************************************************)
(* Proofs about ModelGate, from those about the two streams it reads: what *)
(* the gate admits is sound, and the two copies of the gate agree, for any *)
(* number of runs, contexts and records.                                   *)
(***************************************************************************)
EXTENDS ModelGate, FiniteSetTheorems, TLAPS

\* The two streams again, with what is proved of a stream.
RP == INSTANCE StreamHealth_proofs WITH
        run_ids <- r_run_ids, totals <- r_totals, producers <- r_producers,
        known <- r_known, capacity <- r_capacity, allocation_failed <- r_oom,
        log <- r_log, refused <- r_refused
CP == INSTANCE StreamHealth_proofs WITH
        run_ids <- c_run_ids, totals <- c_totals, producers <- c_producers,
        known <- c_known, capacity <- c_capacity, allocation_failed <- c_oom,
        log <- c_log, refused <- c_refused

\* The gate of the library and that of the command admit the same streams,
\* although each is written on its own (streams_complete,
\* admitted_streams_are_complete).
THEOREM GatesAlike == Spec => []GatesAgree
<1>1. GatesAgree
  <2>1. ASSUME NEW p, NEW k
        PROVE  producer_complete(p, k) <=> producer_completed_or_execed(p, k)
    BY Zenon DEF producer_complete, producer_completed_or_execed, PendingExec, Receipt
  <2> QED
    BY <2>1 DEF GatesAgree, streams_complete, admitted_streams_are_complete
<1> QED
  BY <1>1, PTL

-----------------------------------------------------------------------------
\* Each instance has its own name for the cardinality of a set.
LEMMA CardinalityAlike ==
  \A S : /\ R!Cardinality(S) = Cardinality(S) /\ RP!Cardinality(S) = Cardinality(S)
         /\ C!Cardinality(S) = Cardinality(S) /\ CP!Cardinality(S) = Cardinality(S)
  BY DEF Cardinality, R!Cardinality, RP!Cardinality, C!Cardinality, CP!Cardinality

\* The two instances of a stream take the same steps.
LEMMA SameR ==
  /\ \A rec : R!Observe(rec) <=> RP!Observe(rec)
  /\ \A rec : R!ObserveOutOfMemory(rec) <=> RP!ObserveOutOfMemory(rec)
  /\ R!ObserveInvalid <=> RP!ObserveInvalid
<1>1. (R!Full <=> RP!Full) /\ R!GrownCapacity = RP!GrownCapacity
  BY CardinalityAlike DEF R!Full, RP!Full, R!GrownCapacity, RP!GrownCapacity
<1>2. \A ids, id : R!NoteRun(ids, id) = RP!NoteRun(ids, id)
  BY DEF R!NoteRun, RP!NoteRun
<1>3. \A p, rec : R!CountProducer(p, rec) = RP!CountProducer(p, rec)
  BY DEF R!CountProducer, RP!CountProducer, R!One, RP!One, R!Mismatch, RP!Mismatch,
         R!LastSequence, RP!LastSequence, R!Pending, RP!Pending
<1>4. \A t, p, rec : R!CountTotals(t, p, rec) = RP!CountTotals(t, p, rec)
  BY DEF R!CountTotals, RP!CountTotals, R!One, RP!One, R!Mismatch, RP!Mismatch,
         R!Duplicate, RP!Duplicate, R!Nonmonotonic, RP!Nonmonotonic,
         R!Completed, RP!Completed
<1>5. (\A rec : R!Key(rec) = RP!Key(rec)) /\ (R!Bounded <=> RP!Bounded)
  BY DEF R!Key, RP!Key, R!Bounded, RP!Bounded
<1>6. \A rec : R!Observe(rec) <=> RP!Observe(rec)
  BY <1>1, <1>2, <1>3, <1>4, <1>5 DEF R!Observe, RP!Observe
<1>7. \A rec : R!ObserveOutOfMemory(rec) <=> RP!ObserveOutOfMemory(rec)
  BY <1>1, <1>2, <1>5 DEF R!ObserveOutOfMemory, RP!ObserveOutOfMemory
<1>8. R!ObserveInvalid <=> RP!ObserveInvalid
  BY <1>5 DEF R!ObserveInvalid, RP!ObserveInvalid
<1> QED
  BY <1>6, <1>7, <1>8

\* The two instances of a stream take the same steps.
LEMMA SameC ==
  /\ \A rec : C!Observe(rec) <=> CP!Observe(rec)
  /\ \A rec : C!ObserveOutOfMemory(rec) <=> CP!ObserveOutOfMemory(rec)
  /\ C!ObserveInvalid <=> CP!ObserveInvalid
<1>1. (C!Full <=> CP!Full) /\ C!GrownCapacity = CP!GrownCapacity
  BY CardinalityAlike DEF C!Full, CP!Full, C!GrownCapacity, CP!GrownCapacity
<1>2. \A ids, id : C!NoteRun(ids, id) = CP!NoteRun(ids, id)
  BY DEF C!NoteRun, CP!NoteRun
<1>3. \A p, rec : C!CountProducer(p, rec) = CP!CountProducer(p, rec)
  BY DEF C!CountProducer, CP!CountProducer, C!One, CP!One, C!Mismatch, CP!Mismatch,
         C!LastSequence, CP!LastSequence, C!Pending, CP!Pending
<1>4. \A t, p, rec : C!CountTotals(t, p, rec) = CP!CountTotals(t, p, rec)
  BY DEF C!CountTotals, CP!CountTotals, C!One, CP!One, C!Mismatch, CP!Mismatch,
         C!Duplicate, CP!Duplicate, C!Nonmonotonic, CP!Nonmonotonic,
         C!Completed, CP!Completed
<1>5. (\A rec : C!Key(rec) = CP!Key(rec)) /\ (C!Bounded <=> CP!Bounded)
  BY DEF C!Key, CP!Key, C!Bounded, CP!Bounded
<1>6. \A rec : C!Observe(rec) <=> CP!Observe(rec)
  BY <1>1, <1>2, <1>3, <1>4, <1>5 DEF C!Observe, CP!Observe
<1>7. \A rec : C!ObserveOutOfMemory(rec) <=> CP!ObserveOutOfMemory(rec)
  BY <1>1, <1>2, <1>5 DEF C!ObserveOutOfMemory, CP!ObserveOutOfMemory
<1>8. C!ObserveInvalid <=> CP!ObserveInvalid
  BY <1>5 DEF C!ObserveInvalid, CP!ObserveInvalid
<1> QED
  BY <1>6, <1>7, <1>8

\* A step of the gate is a step of each stream check, or leaves it alone.
LEMMA StreamsStep ==
  [Next]_vars => [RP!Next]_(RP!vars) /\ [CP!Next]_(CP!vars)
<1> USE DEF RP!vars, RP!health, CP!vars, CP!health, r_vars, c_vars
<1>1. Record = RP!Record /\ Record = CP!Record
  BY DEF Record, R!Record, RP!Record, CP!Record, R!Kinds, RP!Kinds, CP!Kinds
<1> SUFFICES ASSUME [Next]_vars PROVE [RP!Next]_(RP!vars) /\ [CP!Next]_(CP!vars)
  OBVIOUS
<1>2. ASSUME NEW rec \in Record, NEW call, ReadResource(rec, call) \/ ReadCall(rec, call)
      PROVE  [RP!Next]_(RP!vars) /\ [CP!Next]_(CP!vars)
  BY SameR, SameC, <1>1, <1>2 DEF ReadResource, ReadCall, RP!Next, CP!Next
<1>3. CASE Refused
  BY SameR, SameC, <1>1, <1>3 DEF Refused, RP!Next, CP!Next
<1>4. CASE ReadFails \/ EndOfResources \/ EndOfCalls \/ UNCHANGED vars
  BY <1>4 DEF ReadFails, EndOfResources, EndOfCalls, vars
<1> QED
  BY <1>2, <1>3, <1>4 DEF Next

\* Each stream read by the gate is a behaviour of the stream check.
LEMMA StreamsRefined == Spec => RP!Spec /\ CP!Spec
<1>1. Init => RP!Init /\ CP!Init
  BY DEF Init, R!Init, C!Init, RP!Init, CP!Init, R!Keys, C!Keys, RP!Keys, CP!Keys,
         R!NewProducer, C!NewProducer, RP!NewProducer, CP!NewProducer
<1> QED
  BY <1>1, StreamsStep, PTL DEF Spec, RP!Spec, CP!Spec

\* What holds of the two streams at any time.
StreamsExplained ==
  /\ RP!TypeOK /\ RP!CountersExplain /\ RP!CountersBlame /\ RP!PendingIsLatest
  /\ CP!TypeOK /\ CP!CountersExplain /\ CP!CountersBlame /\ CP!PendingIsLatest

LEMMA StreamsCorrect == Spec => []StreamsExplained
<1>1. RP!Spec => []RP!TypeOK /\ []RP!CountersExplain /\ []RP!CountersBlame /\ []RP!PendingIsLatest
  BY RP!TypeCorrect, RP!CountersCorrect, RP!CountersFair, RP!PendingCorrect, GateAssumption, PTL
<1>2. CP!Spec => []CP!TypeOK /\ []CP!CountersExplain /\ []CP!CountersBlame /\ []CP!PendingIsLatest
  BY CP!TypeCorrect, CP!CountersCorrect, CP!CountersFair, CP!PendingCorrect, GateAssumption, PTL
<1>3. /\ RP!TypeOK /\ RP!CountersExplain /\ RP!CountersBlame /\ RP!PendingIsLatest
      /\ CP!TypeOK /\ CP!CountersExplain /\ CP!CountersBlame /\ CP!PendingIsLatest
      => StreamsExplained
  BY DEF StreamsExplained
<1> QED
  BY <1>1, <1>2, <1>3, StreamsRefined, PTL

\* Nothing is read once the gate has decided, so an admitted model still
\* stands on the streams it was admitted for.
AdmittedPassed == stage = "admitted" => streams_complete

LEMMA AdmittedStays == Spec => []AdmittedPassed
<1>1. Init => AdmittedPassed
  BY DEF Init, AdmittedPassed
<1>2. AdmittedPassed /\ [Next]_vars => AdmittedPassed'
  <2> SUFFICES ASSUME AdmittedPassed, [Next]_vars, stage' = "admitted"
               PROVE  streams_complete'
    BY DEF AdmittedPassed
  <2>1. ASSUME UNCHANGED <<r_vars, c_vars>>, streams_complete PROVE streams_complete'
    BY <2>1 DEF r_vars, c_vars, streams_complete, resource_health, call_health,
                stream_valid, producer_complete, PendingExec, Receipt
  <2>2. \A rec, call : ~ReadResource(rec, call) /\ ~ReadCall(rec, call)
    BY DEF ReadResource, ReadCall, Feed, Ingest
  <2>3. CASE EndOfCalls
    BY <2>1, <2>3 DEF EndOfCalls
  <2>4. CASE UNCHANGED vars
    BY <2>1, <2>4 DEF vars, AdmittedPassed
  <2> QED
    BY <2>2, <2>3, <2>4 DEF Next, Refused, ReadFails, EndOfResources
<1> QED
  BY <1>1, <1>2, PTL DEF Spec

\* What the gate has tested of the resources stream.
LEMMA PassedR ==
  ASSUME StreamsExplained, streams_complete
  PROVE  /\ RP!IntegrityValid
         /\ \A k \in r_known : producer_complete(r_producers[k], k)
<1>1. /\ stream_valid(resource_health)
      /\ \A k \in r_known : producer_complete(r_producers[k], k)
  BY DEF streams_complete, resource_health
<1>2. r_totals \in RP!Totals
  BY DEF StreamsExplained, RP!TypeOK
<1>3. \A counter \in DOMAIN r_totals \ {"records"} : r_totals[counter] = 0
  BY <1>1 DEF stream_valid, resource_health
<1>4. /\ r_totals.write_failures = 0 /\ r_totals.duplicates = 0
      /\ r_totals.nonmonotonic = 0 /\ r_totals.mismatches = 0
      /\ r_totals.after_completion = 0
  BY <1>2, <1>3 DEF RP!Totals
<1>5. /\ r_totals.records # 0 /\ r_known # {} /\ ~r_oom
      /\ r_run_ids.distinct = 1 /\ r_run_ids.invalid = 0
  BY <1>1 DEF stream_valid, resource_health
<1> QED
  BY <1>1, <1>4, <1>5 DEF RP!IntegrityValid

\* So it is of one run and in order, and each of its contexts ends in a receipt
\* that adds up or has none and its exec is pending.
LEMMA SoundR ==
  ASSUME StreamsExplained, streams_complete
  PROVE  /\ R!OneRun /\ R!SequencesIncrease
         /\ \A k \in R!Keys : At("resources", k) # {} =>
              \/ EndsInReceipt("resources", k)
              \/ /\ PendingExec(k)
                 /\ \A i \in At("resources", k) : r_log[i].kind # "COMPLETE"
<1>1. RP!TypeOK /\ RP!CountersExplain /\ RP!IntegrityValid
  BY PassedR DEF StreamsExplained
<1>2. R!OneRun /\ R!SequencesIncrease
  BY <1>1, RP!ValidIsOrdered, GateAssumption
     DEF R!OneRun, RP!OneRun, R!SequencesIncrease, RP!SequencesIncrease, R!Key, RP!Key
<1>3. ASSUME NEW k \in R!Keys, At("resources", k) # {}
      PROVE  \/ EndsInReceipt("resources", k)
             \/ /\ PendingExec(k)
                /\ \A i \in At("resources", k) : r_log[i].kind # "COMPLETE"
  <2>1. k \in RP!Keys
    BY DEF R!Keys, RP!Keys
  <2>2. At("resources", k) = RP!Positions(k) /\ LogOf("resources") = r_log
    BY DEF At, LogOf, RP!Positions, R!Key, RP!Key
  <2>3. k \in r_known
    BY <1>1, <1>3, <2>2 DEF RP!Positions, RP!CountersExplain, RP!Counting
  <2>4. producer_complete(r_producers[k], k) /\ r_producers[k].completions \in Nat
    BY <1>1, <2>1, <2>3, PassedR DEF RP!TypeOK, RP!Producer
  <2>5. CASE r_producers[k].completions = 0
    <3>1. PendingExec(k)
      BY <2>4, <2>5 DEF producer_complete, Receipt
    <3> QED
      BY <1>1, <2>1, <2>2, <2>5, <3>1, RP!UnreceiptedHasNone, GateAssumption
  <2>6. CASE r_producers[k].completions > 0
    <3>1. PICK c \in RP!Positions(k) :
            /\ \A j \in RP!Positions(k) : j <= c
            /\ r_log[c].kind = "COMPLETE" /\ r_log[c].write_failed = FALSE
            /\ r_log[c].attempted = RP!Cardinality(RP!Positions(k)) - 1
      BY <1>1, <2>1, <2>6, RP!ReceiptIsLast, GateAssumption
    <3>2. c \in At("resources", k) /\ \A j \in At("resources", k) : j <= c
      BY <2>2, <3>1
    <3>3. \A i \in At("resources", k) : i \in Int
      BY DEF At
    <3>4. Last("resources", k) = c
      BY <3>2, <3>3 DEF Last
    <3> QED
      BY <2>2, <3>1, <3>4, CardinalityAlike DEF EndsInReceipt
  <2> QED
    BY <2>4, <2>5, <2>6
<1> QED
  BY <1>2, <1>3

\* What the gate has tested of the calls stream.
LEMMA PassedC ==
  ASSUME StreamsExplained, streams_complete
  PROVE  /\ CP!IntegrityValid
         /\ \A k \in c_known : producer_complete(c_producers[k], k)
<1>1. /\ stream_valid(call_health)
      /\ \A k \in c_known : producer_complete(c_producers[k], k)
  BY DEF streams_complete, call_health
<1>2. c_totals \in CP!Totals
  BY DEF StreamsExplained, CP!TypeOK
<1>3. \A counter \in DOMAIN c_totals \ {"records"} : c_totals[counter] = 0
  BY <1>1 DEF stream_valid, call_health
<1>4. /\ c_totals.write_failures = 0 /\ c_totals.duplicates = 0
      /\ c_totals.nonmonotonic = 0 /\ c_totals.mismatches = 0
      /\ c_totals.after_completion = 0
  BY <1>2, <1>3 DEF CP!Totals
<1>5. /\ c_totals.records # 0 /\ c_known # {} /\ ~c_oom
      /\ c_run_ids.distinct = 1 /\ c_run_ids.invalid = 0
  BY <1>1 DEF stream_valid, call_health
<1> QED
  BY <1>1, <1>4, <1>5 DEF CP!IntegrityValid

\* So it is of one run and in order, and each of its contexts ends in a receipt
\* that adds up or has none and its exec is pending.
LEMMA SoundC ==
  ASSUME StreamsExplained, streams_complete
  PROVE  /\ C!OneRun /\ C!SequencesIncrease
         /\ \A k \in R!Keys : At("calls", k) # {} =>
              \/ EndsInReceipt("calls", k)
              \/ /\ PendingExec(k)
                 /\ \A i \in At("calls", k) : c_log[i].kind # "COMPLETE"
<1>1. CP!TypeOK /\ CP!CountersExplain /\ CP!IntegrityValid
  BY PassedC DEF StreamsExplained
<1>2. C!OneRun /\ C!SequencesIncrease
  BY <1>1, CP!ValidIsOrdered, GateAssumption
     DEF C!OneRun, CP!OneRun, C!SequencesIncrease, CP!SequencesIncrease, C!Key, CP!Key
<1>3. ASSUME NEW k \in R!Keys, At("calls", k) # {}
      PROVE  \/ EndsInReceipt("calls", k)
             \/ /\ PendingExec(k)
                /\ \A i \in At("calls", k) : c_log[i].kind # "COMPLETE"
  <2>1. k \in CP!Keys
    BY DEF R!Keys, CP!Keys
  <2>2. At("calls", k) = CP!Positions(k) /\ LogOf("calls") = c_log
    BY DEF At, LogOf, CP!Positions, R!Key, CP!Key
  <2>3. k \in c_known
    BY <1>1, <1>3, <2>2 DEF CP!Positions, CP!CountersExplain, CP!Counting
  <2>4. producer_complete(c_producers[k], k) /\ c_producers[k].completions \in Nat
    BY <1>1, <2>1, <2>3, PassedC DEF CP!TypeOK, CP!Producer
  <2>5. CASE c_producers[k].completions = 0
    <3>1. PendingExec(k)
      BY <2>4, <2>5 DEF producer_complete, Receipt
    <3> QED
      BY <1>1, <2>1, <2>2, <2>5, <3>1, CP!UnreceiptedHasNone, GateAssumption
  <2>6. CASE c_producers[k].completions > 0
    <3>1. PICK c \in CP!Positions(k) :
            /\ \A j \in CP!Positions(k) : j <= c
            /\ c_log[c].kind = "COMPLETE" /\ c_log[c].write_failed = FALSE
            /\ c_log[c].attempted = CP!Cardinality(CP!Positions(k)) - 1
      BY <1>1, <2>1, <2>6, CP!ReceiptIsLast, GateAssumption
    <3>2. c \in At("calls", k) /\ \A j \in At("calls", k) : j <= c
      BY <2>2, <3>1
    <3>3. \A i \in At("calls", k) : i \in Int
      BY DEF At
    <3>4. Last("calls", k) = c
      BY <3>2, <3>3 DEF Last
    <3> QED
      BY <2>2, <3>1, <3>4, CardinalityAlike DEF EndsInReceipt
  <2> QED
    BY <2>4, <2>5, <2>6
<1> QED
  BY <1>2, <1>3

\* A pending exec is one that the context itself last spoke of.
LEMMA PendingIsExeced ==
  ASSUME StreamsExplained, NEW k \in R!Keys, PendingExec(k)
  PROVE  Execed(k)
<1>1. k \in RP!Keys /\ r_producers[k].pending_exec
  BY DEF R!Keys, RP!Keys, PendingExec
<1>2. At("resources", k) = RP!Positions(k)
  BY DEF At, LogOf, RP!Positions, R!Key, RP!Key
<1> QED
  BY <1>1, <1>2 DEF StreamsExplained, RP!PendingIsLatest, Execed

\* An admitted model rests on streams that are ordered and, context by context,
\* receipted in full or cut off by an exec of that very context, however many
\* contexts the streams interleave (p101_tool_model_ingest_paths).
THEOREM AdmittedCorrect == Spec => []AdmittedSound
<1>1. StreamsExplained /\ AdmittedPassed => AdmittedSound
  <2> SUFFICES ASSUME StreamsExplained, streams_complete
               PROVE  /\ R!OneRun /\ C!OneRun
                      /\ R!SequencesIncrease /\ C!SequencesIncrease
                      /\ \A s \in Stream, k \in R!Keys : At(s, k) # {} =>
                           \/ EndsInReceipt(s, k)
                           \/ Execed(k) /\ \A i \in At(s, k) : LogOf(s)[i].kind # "COMPLETE"
    BY DEF AdmittedSound, AdmittedPassed
  <2> QED
    BY SoundR, SoundC, PendingIsExeced DEF Stream, LogOf
<1> QED
  BY <1>1, StreamsCorrect, AdmittedStays, PTL

\* The tests of the gate on the resources stream hold if that stream is clean.
LEMMA CleanR ==
  ASSUME StreamsExplained, R!Clean
  PROVE  stream_valid(resource_health) /\ \A k \in r_known : Receipt(r_producers[k])
<1>1. RP!Clean
  <2>1. R!OneRun <=> RP!OneRun
    BY DEF R!OneRun, RP!OneRun
  <2>2. R!SequencesIncrease <=> RP!SequencesIncrease
    BY DEF R!SequencesIncrease, RP!SequencesIncrease, R!Key, RP!Key
  <2>3. \A i : R!Before(i) = RP!Before(i)
    BY DEF R!Before, RP!Before, R!Key, RP!Key
  <2>4. R!Receipted <=> RP!Receipted
    BY <2>3, CardinalityAlike DEF R!Receipted, RP!Receipted, R!Key, RP!Key
  <2> QED
    BY <2>1, <2>2, <2>4 DEF R!Clean, RP!Clean
<1>2. RP!IntegrityValid /\ \A k \in r_known : RP!CompletedCleanly(r_producers[k])
  BY <1>1, RP!CleanIsValid, GateAssumption DEF StreamsExplained
<1>3. r_totals \in RP!Totals
  BY DEF StreamsExplained, RP!TypeOK
<1>4. r_totals.records > 0
  BY <1>2, <1>3 DEF RP!IntegrityValid, RP!Totals
<1>5. \A counter \in DOMAIN r_totals \ {"records"} : r_totals[counter] = 0
  BY <1>2, <1>3 DEF RP!IntegrityValid, RP!Totals
<1>6. stream_valid(resource_health)
  BY <1>2, <1>4, <1>5 DEF stream_valid, resource_health, RP!IntegrityValid
<1> QED
  BY <1>2, <1>6 DEF RP!CompletedCleanly, Receipt

\* The tests of the gate on the calls stream hold if that stream is clean.
LEMMA CleanC ==
  ASSUME StreamsExplained, C!Clean
  PROVE  stream_valid(call_health) /\ \A k \in c_known : Receipt(c_producers[k])
<1>1. CP!Clean
  <2>1. C!OneRun <=> CP!OneRun
    BY DEF C!OneRun, CP!OneRun
  <2>2. C!SequencesIncrease <=> CP!SequencesIncrease
    BY DEF C!SequencesIncrease, CP!SequencesIncrease, C!Key, CP!Key
  <2>3. \A i : C!Before(i) = CP!Before(i)
    BY DEF C!Before, CP!Before, C!Key, CP!Key
  <2>4. C!Receipted <=> CP!Receipted
    BY <2>3, CardinalityAlike DEF C!Receipted, CP!Receipted, C!Key, CP!Key
  <2> QED
    BY <2>1, <2>2, <2>4 DEF C!Clean, CP!Clean
<1>2. CP!IntegrityValid /\ \A k \in c_known : CP!CompletedCleanly(c_producers[k])
  BY <1>1, CP!CleanIsValid, GateAssumption DEF StreamsExplained
<1>3. c_totals \in CP!Totals
  BY DEF StreamsExplained, CP!TypeOK
<1>4. c_totals.records > 0
  BY <1>2, <1>3 DEF CP!IntegrityValid, CP!Totals
<1>5. \A counter \in DOMAIN c_totals \ {"records"} : c_totals[counter] = 0
  BY <1>2, <1>3 DEF CP!IntegrityValid, CP!Totals
<1>6. stream_valid(call_health)
  BY <1>2, <1>4, <1>5 DEF stream_valid, call_health, CP!IntegrityValid
<1> QED
  BY <1>2, <1>6 DEF CP!CompletedCleanly, Receipt

\* Clean streams are never turned away by the gate, whatever they interleave.
THEOREM CleanPasses == Spec => []CleanAdmitted
<1>1. StreamsExplained => CleanAdmitted
  <2> SUFFICES ASSUME StreamsExplained, R!Clean, C!Clean PROVE streams_complete
    BY DEF CleanAdmitted
  <2>1. \A k \in r_known : producer_complete(resource_health.producers[k], k)
    BY CleanR DEF producer_complete, resource_health
  <2>2. \A k \in c_known : producer_complete(call_health.producers[k], k)
    BY CleanC DEF producer_complete, call_health
  <2> QED
    BY CleanR, CleanC, <2>1, <2>2 DEF streams_complete, resource_health, call_health
<1> QED
  BY <1>1, StreamsCorrect, PTL
=============================================================================
