------------------------ MODULE StreamHealth_proofs ------------------------
(***************************************************************************)
(* Proofs about StreamHealth: its type invariant, that the counters admit  *)
(* a stream as complete exactly if it is clean, and what a pending exec    *)
(* says, for any number of runs, producers, records and numbers.           *)
(***************************************************************************)
EXTENDS StreamHealth, FiniteSetTheorems, TLAPS

\* The fields of a record have their types, and its key is a producer's.
LEMMA RecordFields ==
  ASSUME NEW rec \in Record
  PROVE  /\ rec.run \in Runs /\ rec.owner \in Owners
         /\ rec.kind \in Kinds
         /\ rec.seq \in Nat /\ rec.attempted \in Nat
         /\ rec.write_failed \in BOOLEAN
         /\ rec.kind # "COMPLETE" => rec.write_failed = FALSE
         /\ Key(rec) \in Keys
<1> DEFINE Plain == [run : Runs, owner : Owners, kind : Kinds \ {"COMPLETE"},
                     seq : Numbers, attempted : {0}, write_failed : {FALSE}]
           Receipt == [run : Runs, owner : Owners, kind : {"COMPLETE"}, seq : Numbers,
                       attempted : Numbers, write_failed : BOOLEAN]
<1>1. CASE rec \in Plain
  <2>1. rec.run \in Runs /\ rec.owner \in Owners /\ rec.kind \in Kinds \ {"COMPLETE"}
    BY <1>1
  <2>2. rec.seq \in Numbers /\ rec.attempted = 0
    BY <1>1
  <2>3. rec.write_failed = FALSE
    BY <1>1, Zenon
  <2>4. rec.kind \in Kinds
    BY <2>1, Zenon
  <2>5. rec.seq \in Nat
    BY <2>2, StreamAssumption
  <2>6. rec.attempted \in Nat
    BY <2>2
  <2>7. rec.write_failed \in BOOLEAN
    BY <2>3
  <2>8. Key(rec) \in Keys
    BY <2>1 DEF Key, Keys
  <2> QED
    BY <2>1, <2>3, <2>4, <2>5, <2>6, <2>7, <2>8, Zenon
<1>2. CASE rec \in Receipt
  <2>1. rec.run \in Runs /\ rec.owner \in Owners /\ rec.kind = "COMPLETE"
    BY <1>2
  <2>2. rec.seq \in Numbers /\ rec.attempted \in Numbers
    BY <1>2
  <2>3. rec.write_failed \in BOOLEAN
    BY <1>2
  <2> QED
    BY <2>1, <2>2, <2>3, StreamAssumption DEF Key, Keys, Kinds
<1>3. rec \in Plain \/ rec \in Receipt
  BY DEF Record
<1> QED
  BY <1>1, <1>2, <1>3

\* Noting a run id keeps the type.
LEMMA NoteRunType ==
  ASSUME NEW ids \in RunIds, NEW id \in Runs
  PROVE  NoteRun(ids, id) \in RunIds
  BY DEF NoteRun, RunIds

\* The two counting operators keep their types.
LEMMA CountTypes ==
  ASSUME NEW p \in Producer, NEW t \in Totals, NEW rec \in Record
  PROVE  CountProducer(p, rec) \in Producer /\ CountTotals(t, p, rec) \in Totals
<1>1. /\ p.records \in Nat /\ p.completions \in Nat /\ p.last_sequence \in Nat
      /\ p.mismatches \in Nat
  BY DEF Producer
<1>2. \A c : One(c) \in Nat
  BY DEF One
<1>3. CountProducer(p, rec) \in Producer
  <2>1. /\ p.records + 1 \in Nat
        /\ p.completions + One(rec.kind = "COMPLETE") \in Nat
        /\ p.mismatches + One(Mismatch(p, rec)) \in Nat
    BY <1>1, <1>2
  <2>2. LastSequence(p, rec) \in Nat
    BY <1>1, RecordFields DEF LastSequence
  <2>3. /\ (p.write_failed \/ rec.write_failed) \in BOOLEAN
        /\ Pending(p, rec) \in BOOLEAN
    BY Zenon DEF Pending
  <2> QED
    BY <2>1, <2>2, <2>3 DEF CountProducer, Producer
<1>4. CountTotals(t, p, rec) \in Totals
  <2>1. /\ t.records \in Nat /\ t.write_failures \in Nat /\ t.duplicates \in Nat
        /\ t.nonmonotonic \in Nat /\ t.mismatches \in Nat /\ t.after_completion \in Nat
    BY DEF Totals
  <2>2. /\ t.records + 1 \in Nat
        /\ t.write_failures + One(rec.write_failed) \in Nat
        /\ t.duplicates + One(Duplicate(p, rec)) \in Nat
        /\ t.nonmonotonic + One(Nonmonotonic(p, rec)) \in Nat
        /\ t.mismatches + One(Mismatch(p, rec)) \in Nat
        /\ t.after_completion + One(Completed(p)) \in Nat
    BY <2>1, <1>2
  <2> QED
    BY <2>2 DEF CountTotals, Totals
<1> QED
  BY <1>3, <1>4

\* The type invariant of the stream check (struct p101_tool_event_stream_health
\* and the record counters of each producer).
THEOREM TypeCorrect == Spec => []TypeOK
<1>1. Init => TypeOK
  <2> SUFFICES ASSUME Init PROVE TypeOK
    OBVIOUS
  <2>1. run_ids \in RunIds /\ totals \in Totals
    BY DEF Init, RunIds, Totals
  <2>2. NewProducer \in Producer
    BY DEF NewProducer, Producer
  <2>3. producers \in [Keys -> Producer]
    BY <2>2 DEF Init
  <2>4. log \in Seq(Record)
    BY DEF Init
  <2> QED
    BY <2>1, <2>3, <2>4 DEF Init, TypeOK
<1>2. TypeOK /\ [Next]_vars => TypeOK'
  <2> SUFFICES ASSUME TypeOK, [Next]_vars PROVE TypeOK'
    OBVIOUS
  <2>1. CASE ObserveInvalid
    BY <2>1 DEF TypeOK, ObserveInvalid, RunIds
  <2>2. ASSUME NEW rec \in Record, ObserveOutOfMemory(rec) PROVE TypeOK'
    BY <2>2, NoteRunType, RecordFields DEF TypeOK, ObserveOutOfMemory
  <2>3. ASSUME NEW rec \in Record, Observe(rec) PROVE TypeOK'
    <3>1. Key(rec) \in Keys /\ rec.run \in Runs
      BY RecordFields
    <3>2. producers[Key(rec)] \in Producer
      BY <3>1 DEF TypeOK
    <3>3. run_ids' \in RunIds
      BY <2>3, <3>1, NoteRunType DEF TypeOK, Observe
    <3>4. totals' \in Totals /\ CountProducer(producers[Key(rec)], rec) \in Producer
      BY <2>3, <3>2, CountTypes DEF TypeOK, Observe
    <3>5. producers' \in [Keys -> Producer]
      BY <2>3, <3>1, <3>4 DEF TypeOK, Observe
    <3>6. known' \subseteq Keys /\ capacity' \in Nat
      BY <2>3, <3>1, StreamAssumption DEF TypeOK, Observe, GrownCapacity
    <3>7. log' \in Seq(Record)
      BY <2>3 DEF TypeOK, Observe
    <3> QED
      BY <2>3, <3>3, <3>4, <3>5, <3>6, <3>7 DEF TypeOK, Observe
  <2>4. CASE UNCHANGED vars
    BY <2>4 DEF TypeOK, vars, health
  <2> QED
    BY <2>1, <2>2, <2>3, <2>4 DEF Next
<1> QED
  BY <1>1, <1>2, PTL DEF Spec

-----------------------------------------------------------------------------
\* The stream after one more record: what is at which position, and the
\* positions of each producer before it.
LEMMA Appended ==
  ASSUME log \in Seq(Record), NEW rec \in Record, log' = Append(log, rec)
  PROVE  /\ Len(log) \in Nat /\ Len(log') = Len(log) + 1
         /\ \A i \in 1 .. Len(log) : log'[i] = log[i]
         /\ log'[Len(log) + 1] = rec
         /\ \A i \in 1 .. Len(log') : i \in 1 .. Len(log) \/ i = Len(log) + 1
  OBVIOUS

LEMMA PositionsAppended ==
  ASSUME log \in Seq(Record), NEW rec \in Record, log' = Append(log, rec),
         NEW n, n = Len(log) + 1
  PROVE  /\ \A k : k # Key(rec) => Positions(k)' = Positions(k)
         /\ Positions(Key(rec))' = Positions(Key(rec)) \cup {n}
         /\ \A i \in 1 .. Len(log) : Before(i)' = Before(i)
         /\ Before(n)' = Positions(Key(rec))
<1>1. /\ Len(log) \in Nat /\ Len(log') = Len(log) + 1
      /\ \A i \in 1 .. Len(log) : log'[i] = log[i]
      /\ log'[Len(log) + 1] = rec
  BY Appended
<1>2. \A k : Positions(k)' = {i \in 1 .. Len(log) + 1 : Key(log'[i]) = k}
  BY <1>1 DEF Positions, Key
<1>3. \A i : Before(i)' = {j \in 1 .. i - 1 : Key(log'[j]) = Key(log'[i])}
  BY DEF Before, Key
<1>4. \A i \in 1 .. Len(log) : Key(log'[i]) = Key(log[i])
  BY <1>1 DEF Key
<1>5. Key(log'[Len(log) + 1]) = Key(rec)
  BY <1>1
<1>6. ASSUME NEW k, k # Key(rec) PROVE Positions(k)' = Positions(k)
  BY <1>1, <1>2, <1>4, <1>5, <1>6 DEF Positions
<1>7. Positions(Key(rec))' = Positions(Key(rec)) \cup {n}
  BY <1>1, <1>2, <1>4, <1>5 DEF Positions
<1>8. ASSUME NEW i \in 1 .. Len(log) PROVE Before(i)' = Before(i)
  BY <1>1, <1>3, <1>4 DEF Before
<1>9. Before(n)' = Positions(Key(rec))
  BY <1>1, <1>3, <1>4, <1>5, n - 1 = Len(log) DEF Positions
<1> QED
  BY <1>6, <1>7, <1>8, <1>9

\* A producer has finitely many records, and one more raises their number.
LEMMA PositionsFinite ==
  ASSUME log \in Seq(Record), NEW k
  PROVE  /\ IsFiniteSet(Positions(k)) /\ Cardinality(Positions(k)) \in Nat
         /\ Cardinality(Positions(k) \cup {Len(log) + 1}) = Cardinality(Positions(k)) + 1
<1>1. Len(log) \in Nat
  OBVIOUS
<1>2. IsFiniteSet(1 .. Len(log))
  BY <1>1, FS_Interval
<1>3. Positions(k) \in SUBSET (1 .. Len(log))
  BY DEF Positions
<1>4. IsFiniteSet(Positions(k))
  BY <1>2, <1>3, FS_Subset
<1>5. Len(log) + 1 \notin Positions(k)
  BY <1>1, <1>3
<1> QED
  BY <1>4, <1>5, FS_CardinalityType, FS_AddElement

\* What one more record does to the counters: a producer's own counters move
\* as CountProducer says, and a counter of the stream that is 0 afterwards was
\* 0 before and did not see its irregularity in this record.
LEMMA CountersAfter ==
  ASSUME TypeOK, NEW rec \in Record, Observe(rec),
         NEW p, p = producers[Key(rec)]
  PROVE  /\ p \in Producer
         /\ producers'[Key(rec)].records = p.records + 1
         /\ producers'[Key(rec)].completions = p.completions + One(rec.kind = "COMPLETE")
         /\ producers'[Key(rec)].last_sequence
              = IF rec.seq > p.last_sequence THEN rec.seq ELSE p.last_sequence
         /\ \A k \in Keys : k # Key(rec) => producers'[k] = producers[k]
         /\ totals'.records = totals.records + 1
         /\ totals'.write_failures = 0 => totals.write_failures = 0 /\ ~rec.write_failed
         /\ totals'.duplicates = 0 => totals.duplicates = 0 /\ ~Duplicate(p, rec)
         /\ totals'.nonmonotonic = 0 => totals.nonmonotonic = 0 /\ ~Nonmonotonic(p, rec)
         /\ totals'.mismatches = 0 => totals.mismatches = 0 /\ ~Mismatch(p, rec)
         /\ totals'.after_completion = 0 => totals.after_completion = 0 /\ ~(p.completions > 0)
<1>1. Key(rec) \in Keys
  BY RecordFields
<1>2. p \in Producer
  BY <1>1 DEF TypeOK
<1>3. producers' = [producers EXCEPT ![Key(rec)] = CountProducer(p, rec)]
  BY DEF Observe
<1>4. producers'[Key(rec)] = CountProducer(p, rec)
  BY <1>1, <1>3 DEF TypeOK
<1>5. /\ producers'[Key(rec)].records = p.records + 1
      /\ producers'[Key(rec)].completions = p.completions + One(rec.kind = "COMPLETE")
      /\ producers'[Key(rec)].last_sequence
           = IF rec.seq > p.last_sequence THEN rec.seq ELSE p.last_sequence
  BY <1>4 DEF CountProducer, LastSequence
<1>6. \A k \in Keys : k # Key(rec) => producers'[k] = producers[k]
  BY <1>3 DEF TypeOK
<1>7. totals' = CountTotals(totals, p, rec)
  BY DEF Observe
<1>8. /\ totals'.records = totals.records + 1
      /\ totals'.write_failures = totals.write_failures + One(rec.write_failed)
      /\ totals'.duplicates = totals.duplicates + One(Duplicate(p, rec))
      /\ totals'.nonmonotonic = totals.nonmonotonic + One(Nonmonotonic(p, rec))
      /\ totals'.mismatches = totals.mismatches + One(Mismatch(p, rec))
      /\ totals'.after_completion = totals.after_completion + One(Completed(p))
  BY <1>7 DEF CountTotals
<1>9. /\ totals.write_failures \in Nat /\ totals.duplicates \in Nat
      /\ totals.nonmonotonic \in Nat /\ totals.mismatches \in Nat
      /\ totals.after_completion \in Nat
  BY DEF TypeOK, Totals
<1>10. ASSUME NEW x \in Nat, NEW c, x + One(c) = 0 PROVE x = 0 /\ ~c
  BY <1>10 DEF One
<1>11. /\ totals'.write_failures = 0 => totals.write_failures = 0 /\ ~rec.write_failed
       /\ totals'.duplicates = 0 => totals.duplicates = 0 /\ ~Duplicate(p, rec)
       /\ totals'.nonmonotonic = 0 => totals.nonmonotonic = 0 /\ ~Nonmonotonic(p, rec)
       /\ totals'.mismatches = 0 => totals.mismatches = 0 /\ ~Mismatch(p, rec)
       /\ totals'.after_completion = 0
            => totals.after_completion = 0 /\ ~(p.completions > 0)
  BY <1>8, <1>9, <1>10 DEF Completed
<1> QED
  BY <1>2, <1>5, <1>6, <1>8, <1>11

\* One more record keeps every part of what the counters mean.
LEMMA ObserveExplains ==
  ASSUME TypeOK, CountersExplain, NEW rec \in Record, Observe(rec)
  PROVE  CountersExplain'
<1> DEFINE k == Key(rec)
           p == producers[k]
           n == Len(log) + 1
<1>1. log \in Seq(Record) /\ log' = Append(log, rec) /\ k \in Keys
  BY RecordFields DEF TypeOK, Observe
<1>2. /\ Len(log) \in Nat /\ Len(log') = n
      /\ \A i \in 1 .. Len(log) : log'[i] = log[i] /\ log[i] \in Record
      /\ log'[n] = rec
      /\ \A i \in 1 .. Len(log') : i \in 1 .. Len(log) \/ i = n
  BY <1>1, Appended
<1>3. /\ \A q : q # k => Positions(q)' = Positions(q)
      /\ Positions(k)' = Positions(k) \cup {n}
      /\ \A i \in 1 .. Len(log) : Before(i)' = Before(i)
      /\ \A m : m = n => Before(m)' = Positions(k)
  BY <1>1, PositionsAppended
<1>4. /\ p \in Producer
      /\ producers'[k].records = p.records + 1
      /\ producers'[k].completions = p.completions + One(rec.kind = "COMPLETE")
      /\ producers'[k].last_sequence
           = IF rec.seq > p.last_sequence THEN rec.seq ELSE p.last_sequence
      /\ \A q \in Keys : q # k => producers'[q] = producers[q]
      /\ totals'.records = totals.records + 1
      /\ totals'.write_failures = 0 => totals.write_failures = 0 /\ ~rec.write_failed
      /\ totals'.duplicates = 0 => totals.duplicates = 0 /\ ~Duplicate(p, rec)
      /\ totals'.nonmonotonic = 0 => totals.nonmonotonic = 0 /\ ~Nonmonotonic(p, rec)
      /\ totals'.mismatches = 0 => totals.mismatches = 0 /\ ~Mismatch(p, rec)
      /\ totals'.after_completion = 0 => totals.after_completion = 0 /\ ~(p.completions > 0)
  BY CountersAfter
<1>5. /\ p.records \in Nat /\ p.completions \in Nat /\ p.last_sequence \in Nat
      /\ rec.seq \in Nat /\ rec.attempted \in Nat
  BY <1>4, RecordFields DEF Producer
<1> HIDE DEF p, n
<1>6. \A i \in 1 .. Len(log) :
        /\ Key(log'[i]) = Key(log[i]) /\ Key(log[i]) \in Keys
        /\ log[i].seq \in Nat
        /\ log[i].seq <= producers[Key(log[i])].last_sequence
  BY <1>2, RecordFields DEF CountersExplain, Counting
<1>7. Key(log'[n]) = k
  BY <1>2
<1>8. Counting'
  <2>1. totals'.records = Len(log')
    BY <1>2, <1>4 DEF CountersExplain, Counting, n
  <2>2. ASSUME NEW i \in 1 .. Len(log') PROVE Key(log'[i]) \in known'
    BY <1>2, <1>6, <1>7 DEF CountersExplain, Counting, Observe
  <2>3. ASSUME NEW i \in 1 .. Len(log')
        PROVE  log'[i].seq <= producers'[Key(log'[i])].last_sequence
    <3>1. CASE i \in 1 .. Len(log) /\ Key(log[i]) = k
      BY <3>1, <1>2, <1>4, <1>5, <1>6 DEF p
    <3>2. CASE i \in 1 .. Len(log) /\ Key(log[i]) # k
      BY <3>2, <1>2, <1>4, <1>6
    <3>3. CASE i = n
      BY <3>3, <1>2, <1>4, <1>5, <1>7
    <3> QED
      BY <1>2, <3>1, <3>2, <3>3
  <2>4. ASSUME NEW q \in Keys
        PROVE  producers'[q].records = Cardinality(Positions(q)')
    <3>1. producers[q].records = Cardinality(Positions(q))
      BY DEF CountersExplain, Counting
    <3>2. CASE q = k
      <4>1. Cardinality(Positions(k) \cup {n}) = Cardinality(Positions(k)) + 1
        BY <1>1, PositionsFinite DEF n
      <4> QED
        BY <3>1, <3>2, <4>1, <1>3, <1>4 DEF p
    <3>3. CASE q # k
      BY <3>1, <3>3, <1>3, <1>4
    <3> QED
      BY <3>2, <3>3
  <2>5. ASSUME NEW q \in Keys
        PROVE  producers'[q].completions > 0
                 <=> \E i \in Positions(q)' : log'[i].kind = "COMPLETE"
    <3>1. producers[q].completions > 0 <=> \E i \in Positions(q) : log[i].kind = "COMPLETE"
      BY DEF CountersExplain, Counting
    <3>2. \A i \in Positions(q) : i \in 1 .. Len(log) /\ log'[i] = log[i]
      BY <1>2 DEF Positions
    <3>3. CASE q = k
      <4>1. (\E i \in Positions(q)' : log'[i].kind = "COMPLETE")
              <=> rec.kind = "COMPLETE" \/ \E i \in Positions(q) : log[i].kind = "COMPLETE"
        BY <3>2, <3>3, <1>2, <1>3
      <4>2. producers'[q].completions > 0 <=> rec.kind = "COMPLETE" \/ p.completions > 0
        BY <3>3, <1>4, <1>5 DEF One
      <4> QED
        BY <3>1, <3>3, <4>1, <4>2 DEF p
    <3>4. CASE q # k
      BY <3>1, <3>2, <3>4, <1>3, <1>4
    <3> QED
      BY <3>3, <3>4
  <2> QED
    BY <2>1, <2>2, <2>3, <2>4, <2>5 DEF Counting
<1>9. Ordering'
  <2> SUFFICES ASSUME totals'.duplicates = 0, totals'.nonmonotonic = 0,
                      NEW i \in 1 .. Len(log'), NEW j \in 1 .. Len(log'),
                      i < j, Key(log'[i]) = Key(log'[j]),
                      log'[i].seq # 0, log'[j].seq # 0
               PROVE  log'[i].seq < log'[j].seq
    BY DEF Ordering, SequencesIncrease
  <2>1. i \in 1 .. Len(log)
    BY <1>2 DEF n
  <2>2. CASE j \in 1 .. Len(log)
    BY <2>1, <2>2, <1>2, <1>4, <1>6 DEF CountersExplain, Ordering, SequencesIncrease
  <2>3. CASE j = n
    <3>1. Key(log[i]) = k /\ log[i].seq <= p.last_sequence /\ log[i].seq # 0
      BY <2>1, <2>3, <1>2, <1>6, <1>7 DEF p
    <3>2. ~Duplicate(p, rec) /\ ~Nonmonotonic(p, rec) /\ rec.seq # 0
      BY <2>3, <1>2, <1>4
    <3>3. rec.seq > p.last_sequence
      BY <2>1, <3>1, <3>2, <1>5, <1>6 DEF Duplicate, Nonmonotonic
    <3> QED
      BY <2>1, <2>3, <3>1, <3>3, <1>2, <1>5, <1>6
  <2> QED
    BY <2>2, <2>3, <1>2
<1>10. Sealing'
  <2> SUFFICES ASSUME totals'.after_completion = 0,
                      NEW i \in 1 .. Len(log'), NEW j \in 1 .. Len(log'),
                      i < j, Key(log'[i]) = Key(log'[j])
               PROVE  log'[i].kind # "COMPLETE"
    BY DEF Sealing
  <2>1. i \in 1 .. Len(log)
    BY <1>2 DEF n
  <2>2. CASE j \in 1 .. Len(log)
    BY <2>1, <2>2, <1>2, <1>4, <1>6 DEF CountersExplain, Sealing
  <2>3. CASE j = n
    <3>1. i \in Positions(k) /\ ~(p.completions > 0)
      BY <2>1, <2>3, <1>4, <1>6, <1>7 DEF Positions
    <3> QED
      BY <2>1, <3>1, <1>1, <1>2 DEF CountersExplain, Counting, p
  <2> QED
    BY <2>2, <2>3, <1>2
<1>11. Counts'
  <2> SUFFICES ASSUME totals'.after_completion = 0, totals'.mismatches = 0,
                      NEW i \in 1 .. Len(log'), log'[i].kind = "COMPLETE"
               PROVE  log'[i].attempted = Cardinality(Before(i)')
    BY DEF Counts
  <2>1. CASE i \in 1 .. Len(log)
    BY <2>1, <1>2, <1>3, <1>4 DEF CountersExplain, Counts
  <2>2. CASE i = n
    <3>1. rec.kind = "COMPLETE" /\ p.completions = 0 /\ ~Mismatch(p, rec)
      BY <2>2, <1>2, <1>4, <1>5
    <3>2. rec.attempted = p.records
      BY <3>1, <1>5 DEF Mismatch
    <3>3. p.records = Cardinality(Positions(k))
      BY <1>1 DEF CountersExplain, Counting, p
    <3> QED
      BY <2>2, <3>2, <3>3, <1>2, <1>3
  <2> QED
    BY <2>1, <2>2, <1>2
<1>12. Writes'
  <2> SUFFICES ASSUME totals'.write_failures = 0, NEW i \in 1 .. Len(log')
               PROVE  log'[i].write_failed = FALSE
    BY DEF Writes
  <2>1. CASE i \in 1 .. Len(log)
    BY <2>1, <1>2, <1>4, Zenon DEF CountersExplain, Writes
  <2>2. CASE i = n
    <3>1. rec.write_failed \in BOOLEAN /\ ~rec.write_failed
      BY <1>4, RecordFields
    <3> QED
      BY <2>2, <3>1, <1>2, Zenon
  <2> QED
    BY <2>1, <2>2, <1>2
<1>13. Identity'
  <2>1. run_ids' = NoteRun(run_ids, rec.run) /\ run_ids \in RunIds
        /\ refused' = refused /\ allocation_failed' = allocation_failed
    BY DEF Observe, TypeOK
  <2>2. run_ids'.distinct # 0 /\ run_ids'.invalid = run_ids.invalid
    BY <2>1 DEF NoteRun, RunIds
  <2>3. ASSUME run_ids'.distinct = 1, NEW i \in 1 .. Len(log')
        PROVE  log'[i].run = run_ids'.first
    <3>1. CASE run_ids.distinct = 0
      BY <3>1, <2>1, <1>2 DEF NoteRun, CountersExplain, Identity, n
    <3>2. CASE run_ids.distinct # 0
      <4>1. run_ids.distinct = 1 /\ run_ids' = run_ids /\ rec.run = run_ids.first
        BY <3>2, <2>1, <2>3 DEF NoteRun, RunIds
      <4> QED
        BY <4>1, <1>2 DEF CountersExplain, Identity
    <3> QED
      BY <3>1, <3>2
  <2> QED
    BY <2>1, <2>2, <2>3 DEF CountersExplain, Identity
<1> QED
  BY <1>8, <1>9, <1>10, <1>11, <1>12, <1>13 DEF CountersExplain

\* The counters of observe mean what is_complete takes them to mean, in every
\* reachable state.
THEOREM CountersCorrect == Spec => []CountersExplain
<1>1. Init => CountersExplain
  <2> SUFFICES ASSUME Init PROVE CountersExplain
    OBVIOUS
  <2>1. Len(log) = 0 /\ log = <<>>
    BY DEF Init
  <2>2. Ordering /\ Sealing /\ Counts /\ Writes
    BY <2>1 DEF Ordering, SequencesIncrease, Sealing, Counts, Writes
  <2>3. \A k : Positions(k) = {}
    BY <2>1 DEF Positions
  <2>4. Counting
    <3>1. totals.records = Len(log)
      BY <2>1 DEF Init
    <3>2. \A i \in 1 .. Len(log) : FALSE
      BY <2>1
    <3>3. \A k \in Keys : producers[k].records = 0 /\ producers[k].completions = 0
      BY DEF Init, NewProducer
    <3>4. \A k : Cardinality(Positions(k)) = 0
      BY <2>3, FS_EmptySet
    <3> QED
      BY <2>3, <3>1, <3>2, <3>3, <3>4 DEF Counting
  <2>5. Identity
    BY <2>1 DEF Init, Identity
  <2> QED
    BY <2>2, <2>4, <2>5 DEF CountersExplain
<1>2. TypeOK /\ CountersExplain /\ [Next]_vars => CountersExplain'
  <2> SUFFICES ASSUME TypeOK, CountersExplain, [Next]_vars PROVE CountersExplain'
    OBVIOUS
  <2>1. ASSUME UNCHANGED <<totals, producers, known, log>>, Identity'
        PROVE  CountersExplain'
    BY <2>1 DEF CountersExplain, Counting, Ordering, SequencesIncrease, Sealing, Counts,
                Writes, Positions, Before, Key
  <2>2. CASE ObserveInvalid
    <3>1. Identity'
      BY <2>2 DEF ObserveInvalid, CountersExplain, Identity, TypeOK, RunIds
    <3> QED
      BY <2>1, <2>2, <3>1 DEF ObserveInvalid
  <2>3. ASSUME NEW rec \in Record, ObserveOutOfMemory(rec) PROVE CountersExplain'
    <3>1. Identity'
      BY <2>3 DEF ObserveOutOfMemory, CountersExplain, Identity, NoteRun, TypeOK, RunIds
    <3> QED
      BY <2>1, <2>3, <3>1 DEF ObserveOutOfMemory
  <2>4. ASSUME NEW rec \in Record, Observe(rec) PROVE CountersExplain'
    BY <2>4, ObserveExplains
  <2>5. CASE UNCHANGED vars
    <3>1. Identity'
      BY <2>5 DEF vars, health, CountersExplain, Identity
    <3> QED
      BY <2>1, <2>5, <3>1 DEF vars, health
  <2> QED
    BY <2>2, <2>3, <2>4, <2>5 DEF Next
<1> QED
  BY <1>1, <1>2, TypeCorrect, PTL DEF Spec

\* A stream whose counters are in order is of one run and in order.
LEMMA ValidIsOrdered ==
  ASSUME TypeOK, CountersExplain, IntegrityValid
  PROVE  OneRun /\ SequencesIncrease
<1>1. ~refused
  BY DEF IntegrityValid, CountersExplain, Identity
<1>2. log # <<>>
  BY DEF IntegrityValid, CountersExplain, Counting
<1>3. \A i \in 1 .. Len(log) : log[i].run = run_ids.first
  BY DEF IntegrityValid, CountersExplain, Identity
<1>4. SequencesIncrease
  BY DEF IntegrityValid, CountersExplain, Ordering
<1> QED
  BY <1>1, <1>2, <1>3, <1>4 DEF OneRun

\* In such a stream the receipt of a producer is its last record, and counts
\* the ones before it.
LEMMA ReceiptIsLast ==
  ASSUME TypeOK, CountersExplain, IntegrityValid, NEW k \in Keys, producers[k].completions > 0
  PROVE  \E c \in Positions(k) :
           /\ \A j \in Positions(k) : j <= c
           /\ log[c].kind = "COMPLETE" /\ log[c].write_failed = FALSE
           /\ log[c].attempted = Cardinality(Positions(k)) - 1
<1>1. PICK c \in Positions(k) : log[c].kind = "COMPLETE"
  BY DEF CountersExplain, Counting
<1>2. c \in 1 .. Len(log) /\ Key(log[c]) = k /\ Len(log) \in Nat
  BY DEF Positions, TypeOK
<1>3. ASSUME NEW j \in Positions(k) PROVE j <= c
  BY <1>1, <1>2 DEF Positions, IntegrityValid, CountersExplain, Sealing
<1>4. Before(c) = Positions(k) \ {c}
  <2>1. ASSUME NEW j PROVE j \in Before(c) <=> j \in Positions(k) \ {c}
    BY <1>2, <1>3 DEF Before, Positions
  <2> QED
    BY <2>1
<1>5. Cardinality(Before(c)) = Cardinality(Positions(k)) - 1
  <2>1. IsFiniteSet(Positions(k))
    BY PositionsFinite DEF TypeOK
  <2> QED
    BY <1>4, <2>1, FS_RemoveElement
<1>6. log[c].attempted = Cardinality(Before(c))
  BY <1>1, <1>2 DEF IntegrityValid, CountersExplain, Counts
<1>7. log[c].write_failed = FALSE
  BY <1>2, Zenon DEF IntegrityValid, CountersExplain, Writes
<1> QED
  BY <1>1, <1>3, <1>5, <1>6, <1>7

\* A producer that completed nothing wrote no receipt.
LEMMA UnreceiptedHasNone ==
  ASSUME CountersExplain, NEW k \in Keys, producers[k].completions = 0
  PROVE  \A i \in Positions(k) : log[i].kind # "COMPLETE"
  BY DEF CountersExplain, Counting

\* A state whose counters mean that admits only a clean stream.
LEMMA ExplainedIsSound == TypeOK /\ CountersExplain => CompleteIsSound
<1> SUFFICES ASSUME TypeOK, CountersExplain, is_complete PROVE Clean
  BY DEF CompleteIsSound
<1>1. IntegrityValid /\ incomplete_producers = {}
  BY DEF is_complete
<1>2. ASSUME NEW i \in 1 .. Len(log) PROVE Key(log[i]) \in Keys
  <2>1. log[i] \in Record
    BY DEF TypeOK
  <2> QED
    BY <2>1, RecordFields
<1>3. OneRun /\ SequencesIncrease
  BY <1>1, ValidIsOrdered
<1>5. Receipted
  <2> SUFFICES ASSUME NEW i \in 1 .. Len(log)
      PROVE  LET last == ~\E j \in 1 .. Len(log) : i < j /\ Key(log[i]) = Key(log[j])
             IN  /\ log[i].kind = "COMPLETE" <=> last
                 /\ last => ~log[i].write_failed /\ log[i].attempted = Cardinality(Before(i))
    BY DEF Receipted
  <2> DEFINE last == ~\E j \in 1 .. Len(log) : i < j /\ Key(log[i]) = Key(log[j])
  <2>1. log[i].kind = "COMPLETE" => last
    BY <1>1 DEF IntegrityValid, CountersExplain, Sealing
  <2>2. ASSUME last PROVE log[i].kind = "COMPLETE"
    <3>1. Key(log[i]) \in known
      BY DEF CountersExplain, Counting
    <3>2. producers[Key(log[i])].completions > 0
      BY <1>1, <3>1 DEF incomplete_producers, CompletedCleanly
    <3>3. PICK c \in Positions(Key(log[i])) : log[c].kind = "COMPLETE"
      BY <1>2, <3>2 DEF CountersExplain, Counting
    <3>4. c \in 1 .. Len(log) /\ Key(log[c]) = Key(log[i])
      BY DEF Positions
    <3>5. ~(c < i)
      BY <1>1, <3>3, <3>4 DEF IntegrityValid, CountersExplain, Sealing
    <3>6. ~(i < c)
      BY <2>2, <3>4
    <3>7. c = i
      BY <3>4, <3>5, <3>6
    <3> QED
      BY <3>3, <3>7
  <2>3. ASSUME last PROVE ~log[i].write_failed /\ log[i].attempted = Cardinality(Before(i))
    <3>1. log[i].write_failed = FALSE
      BY <1>1 DEF IntegrityValid, CountersExplain, Writes
    <3>2. log[i].attempted = Cardinality(Before(i))
      BY <1>1, <2>2, <2>3 DEF IntegrityValid, CountersExplain, Counts
    <3> QED
      BY <3>1, <3>2, Zenon
  <2> QED
    BY <2>1, <2>2, <2>3
<1> QED
  BY <1>3, <1>5 DEF Clean

\* A stream admitted as complete is of one run, in order, and closed by a
\* matching receipt in every context, however many runs, contexts and records
\* there are (p101_tool_event_stream_health_is_complete).
THEOREM CompleteSound == Spec => []CompleteIsSound
  BY TypeCorrect, CountersCorrect, ExplainedIsSound, PTL

-----------------------------------------------------------------------------
\* The flag of a producer is the latest word of its records about execs.
LatestIsExec(k) ==
  \E i \in Positions(k) :
    /\ log[i].kind = "EXEC"
    /\ \A j \in Positions(k) : j > i => log[j].kind \in {"EXEC", "EVENT"}

\* One more record moves the flag as Pending says: an exec raises it, another
\* event of the same producer keeps it, the rest lower it.
LEMMA ObservePending ==
  ASSUME TypeOK, PendingIsLatest, NEW rec \in Record, Observe(rec), NEW q \in Keys
  PROVE  producers'[q].pending_exec <=> LatestIsExec(q)'
<1> DEFINE k == Key(rec)
           n == Len(log) + 1
<1>1. log \in Seq(Record) /\ log' = Append(log, rec) /\ k \in Keys
  BY RecordFields DEF TypeOK, Observe
<1>2. /\ Len(log) \in Nat /\ log'[n] = rec
      /\ \A i \in 1 .. Len(log) : log'[i] = log[i]
  BY <1>1, Appended
<1>3. /\ \A r : r # k => Positions(r)' = Positions(r)
      /\ Positions(k)' = Positions(k) \cup {n}
  BY <1>1, PositionsAppended
<1>4. \A i \in Positions(q) : i \in 1 .. Len(log) /\ log'[i] = log[i] /\ i < n
  BY <1>2 DEF Positions
<1>5. producers[q].pending_exec <=> LatestIsExec(q)
  BY DEF PendingIsLatest, LatestIsExec
<1>6. CASE q # k
  <2>1. producers'[q] = producers[q] /\ Positions(q)' = Positions(q)
    BY <1>1, <1>3, <1>6 DEF Observe, TypeOK
  <2>2. LatestIsExec(q)' <=> LatestIsExec(q)
    BY <1>4, <2>1 DEF LatestIsExec
  <2> QED
    BY <1>5, <2>1, <2>2
<1>7. CASE q = k
  <2>1. producers'[q] = CountProducer(producers[q], rec)
    BY <1>1, <1>7 DEF Observe, TypeOK
  <2>2. producers'[q].pending_exec = Pending(producers[q], rec)
    BY <2>1 DEF CountProducer
  <2>3. Positions(q)' = Positions(q) \cup {n}
    BY <1>3, <1>7
  <2>4. rec.kind \in Kinds
    BY RecordFields
  <2>5. CASE rec.kind = "EXEC"
    <3>1. \A j \in Positions(q)' : ~(j > n)
      BY <1>2, <1>4, <2>3
    <3>2. LatestIsExec(q)'
      BY <1>2, <2>3, <2>5, <3>1 DEF LatestIsExec
    <3> QED
      BY <2>2, <2>5, <3>2 DEF Pending
  <2>6. CASE rec.kind = "EVENT"
    <3>1. LatestIsExec(q)' <=> LatestIsExec(q)
      BY <1>2, <1>4, <2>3, <2>6 DEF LatestIsExec
    <3> QED
      BY <1>5, <2>2, <2>6, <3>1 DEF Pending
  <2>7. CASE rec.kind \notin {"EXEC", "EVENT"}
    <3>1. ~LatestIsExec(q)'
      BY <1>2, <1>4, <2>3, <2>7 DEF LatestIsExec
    <3> QED
      BY <2>2, <2>7, <3>1 DEF Pending
  <2> QED
    BY <2>5, <2>6, <2>7
<1> QED
  BY <1>6, <1>7

\* A producer waits for the outcome of an exec exactly when its latest record
\* about execs or completion is an exec snapshot (pending_exec, observe).
THEOREM PendingCorrect == Spec => []PendingIsLatest
<1>1. Init => PendingIsLatest
  <2> SUFFICES ASSUME Init, NEW k \in Keys
               PROVE  ~producers[k].pending_exec /\ Positions(k) = {}
    BY Zenon DEF PendingIsLatest
  <2>1. Len(log) = 0
    BY DEF Init
  <2>2. Positions(k) = {}
    BY <2>1 DEF Positions
  <2> QED
    BY <2>2 DEF Init, NewProducer
<1>2. TypeOK /\ PendingIsLatest /\ [Next]_vars => PendingIsLatest'
  <2> SUFFICES ASSUME TypeOK, PendingIsLatest, [Next]_vars PROVE PendingIsLatest'
    OBVIOUS
  <2>1. ASSUME producers' = producers, log' = log PROVE PendingIsLatest'
    BY <2>1 DEF PendingIsLatest, Positions
  <2>2. ASSUME NEW rec \in Record, Observe(rec) PROVE PendingIsLatest'
    BY <2>2, ObservePending DEF PendingIsLatest, LatestIsExec
  <2> QED
    BY <2>1, <2>2 DEF Next, ObserveInvalid, ObserveOutOfMemory, vars, health
<1> QED
  BY <1>1, <1>2, TypeCorrect, PTL DEF Spec

-----------------------------------------------------------------------------
\* Conversely, a counter that moved has seen its irregularity in the stream,
\* and a producer has a last record.
Overwritten ==
  \E i, j \in 1 .. Len(log) : i < j /\ Key(log[i]) = Key(log[j]) /\ log[i].kind = "COMPLETE"
Miscounted ==
  \E i \in 1 .. Len(log) :
    log[i].kind = "COMPLETE" /\ log[i].attempted # Cardinality(Before(i))
Disorder == totals.duplicates # 0 \/ totals.nonmonotonic # 0 => ~SequencesIncrease
Excess == totals.after_completion # 0 => Overwritten
Mismatches == totals.mismatches # 0 => Overwritten \/ Miscounted
Failures == totals.write_failures # 0 => \E i \in 1 .. Len(log) : log[i].write_failed # FALSE
Foreign ==
  /\ run_ids.distinct # 0 /\ ~refused => log # <<>> /\ log[1].run = run_ids.first
  /\ run_ids.distinct = 2 /\ ~refused => \E i \in 1 .. Len(log) : log[i].run # run_ids.first
  /\ run_ids.invalid # 0 \/ allocation_failed => refused
LastWords ==
  \A k \in Keys :
    /\ k \in known => \E i \in Positions(k) : \A j \in Positions(k) : j <= i
    /\ producers[k].last_sequence # 0 =>
         \E i \in Positions(k) : log[i].seq = producers[k].last_sequence
Charges ==
  \A k \in Keys :
    /\ producers[k].completions > 1 => Overwritten
    /\ producers[k].write_failed # FALSE => totals.write_failures # 0
    /\ producers[k].mismatches # 0 => totals.mismatches # 0
CountersBlame ==
  Disorder /\ Excess /\ Mismatches /\ Failures /\ Foreign /\ LastWords /\ Charges

\* How one more record moves the counters, seen from the other side.
LEMMA CountersMoved ==
  ASSUME TypeOK, NEW rec \in Record, Observe(rec), NEW p, p = producers[Key(rec)]
  PROVE  /\ totals'.duplicates # 0 => totals.duplicates # 0 \/ Duplicate(p, rec)
         /\ totals'.nonmonotonic # 0 => totals.nonmonotonic # 0 \/ Nonmonotonic(p, rec)
         /\ totals'.after_completion # 0 => totals.after_completion # 0 \/ p.completions > 0
         /\ totals'.mismatches # 0 <=> totals.mismatches # 0 \/ Mismatch(p, rec)
         /\ totals'.write_failures # 0 <=> totals.write_failures # 0 \/ rec.write_failed
         /\ producers'[Key(rec)].mismatches # 0 => p.mismatches # 0 \/ Mismatch(p, rec)
         /\ producers'[Key(rec)].write_failed = (p.write_failed \/ rec.write_failed)
<1>1. Key(rec) \in Keys /\ p \in Producer
  BY RecordFields DEF TypeOK
<1>2. producers'[Key(rec)] = CountProducer(p, rec) /\ totals' = CountTotals(totals, p, rec)
  BY <1>1 DEF Observe, TypeOK
<1>3. /\ totals'.write_failures = totals.write_failures + One(rec.write_failed)
      /\ totals'.duplicates = totals.duplicates + One(Duplicate(p, rec))
      /\ totals'.nonmonotonic = totals.nonmonotonic + One(Nonmonotonic(p, rec))
      /\ totals'.mismatches = totals.mismatches + One(Mismatch(p, rec))
      /\ totals'.after_completion = totals.after_completion + One(Completed(p))
      /\ producers'[Key(rec)].mismatches = p.mismatches + One(Mismatch(p, rec))
  BY <1>2 DEF CountTotals, CountProducer
<1>4. producers'[Key(rec)].write_failed = (p.write_failed \/ rec.write_failed)
  BY <1>2 DEF CountProducer
<1>5. /\ totals.write_failures \in Nat /\ totals.duplicates \in Nat
      /\ totals.nonmonotonic \in Nat /\ totals.mismatches \in Nat
      /\ totals.after_completion \in Nat /\ p.mismatches \in Nat
  BY <1>1 DEF TypeOK, Totals, Producer
<1>6. ASSUME NEW x \in Nat, NEW c PROVE x + One(c) # 0 <=> x # 0 \/ c
  BY DEF One
<1>7. /\ totals'.write_failures # 0 <=> totals.write_failures # 0 \/ rec.write_failed
      /\ totals'.duplicates # 0 <=> totals.duplicates # 0 \/ Duplicate(p, rec)
      /\ totals'.nonmonotonic # 0 <=> totals.nonmonotonic # 0 \/ Nonmonotonic(p, rec)
      /\ totals'.mismatches # 0 <=> totals.mismatches # 0 \/ Mismatch(p, rec)
      /\ totals'.after_completion # 0 <=> totals.after_completion # 0 \/ Completed(p)
      /\ producers'[Key(rec)].mismatches # 0 <=> p.mismatches # 0 \/ Mismatch(p, rec)
  BY <1>3, <1>5, <1>6
<1> QED
  BY <1>4, <1>7, Zenon DEF Completed

\* One more record keeps every part of it.
LEMMA ObserveBlames ==
  ASSUME TypeOK, CountersExplain, CountersBlame, NEW rec \in Record, Observe(rec)
  PROVE  CountersBlame'
<1> DEFINE k == Key(rec)
           p == producers[k]
           n == Len(log) + 1
<1>1. log \in Seq(Record) /\ log' = Append(log, rec) /\ k \in Keys
  BY RecordFields DEF TypeOK, Observe
<1>2. /\ Len(log) \in Nat /\ Len(log') = n /\ n \in 1 .. Len(log')
      /\ \A i \in 1 .. Len(log) : /\ log'[i] = log[i] /\ log[i] \in Record
                                  /\ i \in 1 .. Len(log') /\ i < n
      /\ log'[n] = rec
  BY <1>1, Appended
<1>3. /\ \A q : q # k => Positions(q)' = Positions(q)
      /\ Positions(k)' = Positions(k) \cup {n}
      /\ \A i \in 1 .. Len(log) : Before(i)' = Before(i)
      /\ \A m : m = n => Before(m)' = Positions(k)
  BY <1>1, PositionsAppended
<1>4. \A q : \A i \in Positions(q) : i \in 1 .. Len(log) /\ Key(log[i]) = q /\ log'[i] = log[i] /\ i < n
  BY <1>2 DEF Positions
<1>5. \A i \in 1 .. Len(log) : Key(log'[i]) = Key(log[i])
  BY <1>2
<1>6. /\ p \in Producer
      /\ producers'[k].completions = p.completions + One(rec.kind = "COMPLETE")
      /\ producers'[k].last_sequence
           = IF rec.seq > p.last_sequence THEN rec.seq ELSE p.last_sequence
      /\ \A q \in Keys : q # k => producers'[q] = producers[q]
  BY CountersAfter
<1>7. /\ totals'.duplicates # 0 => totals.duplicates # 0 \/ Duplicate(p, rec)
      /\ totals'.nonmonotonic # 0 => totals.nonmonotonic # 0 \/ Nonmonotonic(p, rec)
      /\ totals'.after_completion # 0 => totals.after_completion # 0 \/ p.completions > 0
      /\ totals'.mismatches # 0 <=> totals.mismatches # 0 \/ Mismatch(p, rec)
      /\ totals'.write_failures # 0 <=> totals.write_failures # 0 \/ rec.write_failed
      /\ producers'[k].mismatches # 0 => p.mismatches # 0 \/ Mismatch(p, rec)
      /\ producers'[k].write_failed = (p.write_failed \/ rec.write_failed)
  BY CountersMoved
<1>8. /\ p.records \in Nat /\ p.completions \in Nat /\ p.last_sequence \in Nat
      /\ rec.seq \in Nat /\ rec.attempted \in Nat
  BY <1>6, RecordFields DEF Producer
<1>9. /\ p.records = Cardinality(Positions(k))
      /\ p.completions > 0 => \E i \in Positions(k) : log[i].kind = "COMPLETE"
  BY <1>1 DEF CountersExplain, Counting
<1>10. p.last_sequence # 0 => \E i \in Positions(k) : log[i].seq = p.last_sequence
  BY <1>1 DEF CountersBlame, LastWords
<1> HIDE DEF n, p
<1>11. Key(log'[n]) = k
  BY <1>2
<1>12. Overwritten => Overwritten'
  BY <1>2, <1>5 DEF Overwritten
<1>13. p.completions > 0 => Overwritten'
  BY <1>2, <1>4, <1>9, <1>11 DEF Overwritten
<1>14. Disorder'
  <2>1. ~SequencesIncrease => ~SequencesIncrease'
    BY <1>2, <1>5 DEF SequencesIncrease
  <2>2. Duplicate(p, rec) \/ Nonmonotonic(p, rec) => ~SequencesIncrease'
    <3> SUFFICES ASSUME Duplicate(p, rec) \/ Nonmonotonic(p, rec), SequencesIncrease'
                 PROVE  FALSE
      OBVIOUS
    <3>1. PICK i \in Positions(k) : log[i].seq = p.last_sequence
      BY <1>10 DEF Duplicate, Nonmonotonic
    <3>2. log'[i].seq < log'[n].seq
      <4>1. i \in 1 .. Len(log') /\ i < n /\ Key(log'[i]) = Key(log'[n])
        BY <1>2, <1>4, <1>5, <1>11
      <4>2. log'[i].seq # 0 /\ log'[n].seq # 0
        BY <1>2, <1>4, <3>1 DEF Duplicate, Nonmonotonic
      <4> QED
        BY <1>2, <4>1, <4>2 DEF SequencesIncrease
    <3> QED
      BY <1>2, <1>4, <1>8, <3>1, <3>2 DEF Duplicate, Nonmonotonic
  <2> QED
    BY <1>7, <2>1, <2>2 DEF CountersBlame, Disorder
<1>15. Excess'
  BY <1>7, <1>12, <1>13 DEF CountersBlame, Excess
<1>16. Mismatches'
  <2>1. Miscounted => Miscounted'
    BY <1>2, <1>3 DEF Miscounted
  <2>2. Mismatch(p, rec) => Overwritten' \/ Miscounted'
    <3> SUFFICES ASSUME Mismatch(p, rec), p.completions = 0 PROVE Miscounted'
      BY <1>8, <1>13
    <3>1. rec.kind = "COMPLETE" /\ rec.attempted # p.records
      BY <1>8 DEF Mismatch
    <3>2. PICK m \in 1 .. Len(log') : m = n
      BY <1>2
    <3>3. Cardinality(Before(m)') = p.records
      BY <1>3, <1>9, <3>2
    <3>4. log'[m].kind = "COMPLETE" /\ log'[m].attempted # Cardinality(Before(m)')
      BY <1>2, <3>1, <3>2, <3>3
    <3> QED
      BY <3>4 DEF Miscounted
  <2> QED
    BY <1>7, <1>12, <2>1, <2>2 DEF CountersBlame, Mismatches
<1>17. Failures'
  <2>1. (\E i \in 1 .. Len(log) : log[i].write_failed # FALSE)
          => \E i \in 1 .. Len(log') : log'[i].write_failed # FALSE
    BY <1>2, Zenon
  <2>2. rec.write_failed => \E i \in 1 .. Len(log') : log'[i].write_failed # FALSE
    BY <1>2, Zenon
  <2> QED
    BY <1>7, <2>1, <2>2 DEF CountersBlame, Failures
<1>18. Foreign'
  <2>1. run_ids' = NoteRun(run_ids, rec.run) /\ run_ids \in RunIds
        /\ refused' = refused /\ allocation_failed' = allocation_failed
    BY DEF Observe, TypeOK
  <2>2. run_ids'.invalid = run_ids.invalid
    BY <2>1 DEF NoteRun, RunIds
  <2>3. log' # <<>> /\ (log = <<>> => n = 1) /\ (log # <<>> => 1 \in 1 .. Len(log))
    BY <1>1, <1>2 DEF n
  <2>4. CASE run_ids.distinct = 0
    <3>1. run_ids'.distinct = 1 /\ run_ids'.first = rec.run /\ log = <<>>
      BY <2>1, <2>4 DEF NoteRun, CountersExplain, Identity
    <3> QED
      BY <1>2, <2>1, <2>2, <2>3, <3>1 DEF CountersBlame, Foreign
  <2>5. CASE run_ids.distinct # 0
    <3>1. run_ids'.first = run_ids.first
      BY <2>1, <2>5 DEF NoteRun, RunIds
    <3>2. run_ids'.distinct = 2 => run_ids.distinct = 2 \/ rec.run # run_ids.first
      BY <2>1, <2>5 DEF NoteRun, RunIds
    <3> QED
      BY <1>2, <2>1, <2>2, <2>3, <2>5, <3>1, <3>2 DEF CountersBlame, Foreign
  <2> QED
    BY <2>4, <2>5
<1>19. LastWords'
  <2> SUFFICES ASSUME NEW q \in Keys
      PROVE  /\ q \in known' => \E i \in Positions(q)' : \A j \in Positions(q)' : j <= i
             /\ producers'[q].last_sequence # 0 =>
                  \E i \in Positions(q)' : log'[i].seq = producers'[q].last_sequence
    BY DEF LastWords
  <2>1. CASE q = k
    <3>1. \A j \in Positions(q)' : j <= n
      BY <1>2, <1>3, <1>4, <2>1
    <3>2. CASE rec.seq > p.last_sequence
      BY <1>2, <1>3, <1>6, <2>1, <3>1, <3>2
    <3>3. CASE ~(rec.seq > p.last_sequence)
      BY <1>3, <1>4, <1>6, <1>10, <2>1, <3>1, <3>3
    <3> QED
      BY <3>2, <3>3
  <2>2. CASE q # k
    <3>1. Positions(q)' = Positions(q) /\ producers'[q] = producers[q]
      BY <1>3, <1>6, <2>2
    <3>2. q \in known' => q \in known
      BY <2>2 DEF Observe
    <3> QED
      BY <1>4, <3>1, <3>2 DEF CountersBlame, LastWords
  <2> QED
    BY <2>1, <2>2
<1>20. Charges'
  <2> SUFFICES ASSUME NEW q \in Keys
      PROVE  /\ producers'[q].completions > 1 => Overwritten'
             /\ producers'[q].write_failed # FALSE => totals'.write_failures # 0
             /\ producers'[q].mismatches # 0 => totals'.mismatches # 0
    BY DEF Charges
  <2>1. CASE q = k
    <3>1. producers'[q].completions > 1 => Overwritten'
      BY <1>6, <1>8, <1>13, <2>1 DEF One
    <3>2. p.write_failed # FALSE => totals.write_failures # 0
      BY <1>1 DEF CountersBlame, Charges, p
    <3>3. p.mismatches # 0 => totals.mismatches # 0
      BY <1>1 DEF CountersBlame, Charges, p
    <3>4. p.write_failed \in BOOLEAN /\ rec.write_failed \in BOOLEAN
      BY <1>6, RecordFields DEF Producer
    <3>5. producers'[q].write_failed # FALSE => p.write_failed # FALSE \/ rec.write_failed
      BY <1>7, <2>1, <3>4, Zenon
    <3> QED
      BY <1>7, <2>1, <3>1, <3>2, <3>3, <3>5
  <2>2. CASE q # k
    BY <1>6, <1>7, <1>12, <2>2 DEF CountersBlame, Charges
  <2> QED
    BY <2>1, <2>2
<1> QED
  BY <1>14, <1>15, <1>16, <1>17, <1>18, <1>19, <1>20 DEF CountersBlame

\* The converse invariant: no counter moves without cause.
THEOREM CountersFair == Spec => []CountersBlame
<1>1. Init => CountersBlame
  <2> SUFFICES ASSUME Init PROVE CountersBlame
    OBVIOUS
  <2>1. Disorder /\ Excess /\ Mismatches /\ Failures /\ Foreign
    BY DEF Init, Disorder, Excess, Mismatches, Failures, Foreign
  <2>2. \A k \in Keys : producers[k] = NewProducer
    BY DEF Init
  <2>3. /\ NewProducer.write_failed = FALSE
        /\ ~(NewProducer.completions > 1) /\ NewProducer.mismatches = 0
    BY DEF NewProducer
  <2>4. Charges
    BY <2>2, <2>3, Zenon DEF Charges
  <2>5. LastWords
    BY <2>2 DEF LastWords, NewProducer, Init
  <2> QED
    BY <2>1, <2>4, <2>5 DEF CountersBlame
<1>2. TypeOK /\ CountersExplain /\ CountersBlame /\ [Next]_vars => CountersBlame'
  <2> SUFFICES ASSUME TypeOK, CountersExplain, CountersBlame, [Next]_vars
               PROVE  CountersBlame'
    OBVIOUS
  <2>1. ASSUME UNCHANGED <<totals, producers, known, log>>, Foreign' PROVE CountersBlame'
    BY <2>1 DEF CountersBlame, Disorder, SequencesIncrease, Excess, Overwritten, Mismatches,
                Miscounted, Failures, LastWords, Charges, Positions, Before, Key
  <2>2. CASE ObserveInvalid
    <3>1. Foreign'
      BY <2>2 DEF ObserveInvalid, Foreign
    <3> QED
      BY <2>1, <2>2, <3>1 DEF ObserveInvalid
  <2>3. ASSUME NEW rec \in Record, ObserveOutOfMemory(rec) PROVE CountersBlame'
    <3>1. Foreign'
      BY <2>3 DEF ObserveOutOfMemory, Foreign
    <3> QED
      BY <2>1, <2>3, <3>1 DEF ObserveOutOfMemory
  <2>4. ASSUME NEW rec \in Record, Observe(rec) PROVE CountersBlame'
    BY <2>4, ObserveBlames
  <2>5. CASE UNCHANGED vars
    <3>1. Foreign'
      BY <2>5 DEF vars, health, CountersBlame, Foreign
    <3> QED
      BY <2>1, <2>5, <3>1 DEF vars, health
  <2> QED
    BY <2>2, <2>3, <2>4, <2>5 DEF Next
<1> QED
  BY <1>1, <1>2, TypeCorrect, CountersCorrect, PTL DEF Spec

\* In a clean stream nothing was there to be counted, and every producer ended
\* in its one receipt.
LEMMA CleanIsValid ==
  ASSUME TypeOK, CountersExplain, CountersBlame, Clean
  PROVE  /\ IntegrityValid
         /\ \A k \in known : CompletedCleanly(producers[k])
<1>1. log # <<>> /\ Len(log) # 0 /\ 1 \in 1 .. Len(log)
  BY DEF Clean, OneRun, TypeOK
<1>2. ~Overwritten
  BY DEF Clean, Receipted, Overwritten
<1>3. ~Miscounted
  BY DEF Clean, Receipted, Miscounted
<1>4. \A i \in 1 .. Len(log) : log[i].write_failed = FALSE
  <2> SUFFICES ASSUME NEW i \in 1 .. Len(log) PROVE log[i].write_failed = FALSE
    OBVIOUS
  <2>1. log[i] \in Record
    BY DEF TypeOK
  <2>2. log[i].write_failed \in BOOLEAN /\ (log[i].kind # "COMPLETE" => log[i].write_failed = FALSE)
    BY <2>1, RecordFields
  <2>3. log[i].kind = "COMPLETE" => ~log[i].write_failed
    BY DEF Clean, Receipted
  <2> QED
    BY <2>2, <2>3, Zenon
<1>5. /\ totals.duplicates = 0 /\ totals.nonmonotonic = 0 /\ totals.after_completion = 0
      /\ totals.mismatches = 0
  BY <1>2, <1>3 DEF Clean, CountersBlame, Disorder, Excess, Mismatches
<1>6. totals.write_failures = 0
  BY <1>4, Zenon DEF CountersBlame, Failures
<1>7. run_ids.distinct = 1 /\ run_ids.invalid = 0 /\ ~allocation_failed
  <2>1. run_ids.distinct \in {0, 1, 2} /\ run_ids.distinct # 0 /\ ~refused
    BY <1>1 DEF TypeOK, RunIds, CountersExplain, Identity, Clean, OneRun
  <2>2. run_ids.distinct # 2
    BY <1>1, <2>1 DEF CountersBlame, Foreign, Clean, OneRun
  <2> QED
    BY <2>1, <2>2 DEF CountersBlame, Foreign
<1>8. totals.records # 0 /\ known # {}
  BY <1>1 DEF CountersExplain, Counting
<1>9. ASSUME NEW k \in known PROVE CompletedCleanly(producers[k])
  <2>1. k \in Keys /\ producers[k].completions \in Nat /\ producers[k].write_failed \in BOOLEAN
    BY DEF TypeOK, Producer
  <2>2. PICK i \in Positions(k) : \A j \in Positions(k) : j <= i
    BY <2>1 DEF CountersBlame, LastWords
  <2>3. log[i].kind = "COMPLETE"
    <3>1. i \in 1 .. Len(log) /\ Key(log[i]) = k
      BY DEF Positions
    <3>2. ~\E j \in 1 .. Len(log) : i < j /\ Key(log[i]) = Key(log[j])
      BY <2>2, <3>1 DEF Positions
    <3> QED
      BY <3>1, <3>2 DEF Clean, Receipted
  <2>4. producers[k].completions > 0
    BY <2>1, <2>3 DEF CountersExplain, Counting
  <2>5. producers[k].completions = 1
    <3>1. ~(producers[k].completions > 1)
      BY <1>2, <2>1, Zenon DEF CountersBlame, Charges
    <3> QED
      BY <2>1, <2>4, <3>1
  <2>6. producers[k].write_failed = FALSE
    BY <1>6, <2>1, Zenon DEF CountersBlame, Charges
  <2>7. producers[k].mismatches = 0
    BY <1>5, <2>1 DEF CountersBlame, Charges
  <2> QED
    BY <2>5, <2>6, <2>7 DEF CompletedCleanly
<1> QED
  BY <1>5, <1>6, <1>7, <1>8, <1>9 DEF IntegrityValid

\* A clean stream is never turned away, however many runs, contexts and records
\* there are (p101_tool_event_stream_health_is_complete): with CompleteSound,
\* complete means clean.
THEOREM CleanComplete == Spec => []CleanIsComplete
<1>1. TypeOK /\ CountersExplain /\ CountersBlame => CleanIsComplete
  BY CleanIsValid DEF CleanIsComplete, is_complete, incomplete_producers
<1> QED
  BY <1>1, TypeCorrect, CountersCorrect, CountersFair, PTL
=============================================================================
