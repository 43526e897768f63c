---------------------------- MODULE StreamHealth ----------------------------
(***************************************************************************)
(* The integrity check of one event stream (src/event.c): `observe' counts *)
(* each record for the stream and for its producer, a (run, pid, context)  *)
(* triple, and `is_complete' admits the stream on the counters alone.      *)
(*                                                                         *)
(* An owner stands for a (pid, context) pair.  A record keeps its run, its *)
(* owner, its kind as far as the check tells kinds apart, its sequence     *)
(* number and the receipt fields of a COMPLETE record.  The history        *)
(* variables hold the stream itself, so that what the counters are taken   *)
(* to mean can be stated.                                                  *)
(***************************************************************************)
EXTENDS Integers, Sequences, FiniteSets

CONSTANTS
  Runs,             \* valid run identities
  Owners,           \* (pid, context) pairs
  NoRun,            \* an absent, empty or overlong run identity
  Numbers,          \* sequence numbers and receipt counts that occur
  InitialCapacity,  \* HEALTH_INITIAL_CAPACITY
  MaxRecords        \* bound: records presented to observe

ASSUME StreamAssumption ==
  /\ NoRun \notin Runs
  /\ Numbers \subseteq Nat
  /\ InitialCapacity \in Nat \ {0}
  /\ MaxRecords \in Nat

VARIABLES
  run_ids,            \* run_id, distinct_run_ids and invalid_run_ids
  totals,             \* the counters of the whole stream
  producers,          \* health->producers, by producer
  known,              \* the producers added so far
  capacity,           \* health->producer_capacity
  allocation_failed,  \* health->allocation_failed
  log,                \* history: the records observe counted, in order
  refused             \* history: did observe ever return -1?

health == <<run_ids, totals, producers, known, capacity, allocation_failed>>
vars == <<health, log, refused>>

Keys == Runs \X Owners
Kinds == {"EVENT", "EXEC", "EXEC_FAIL", "COMPLETE"}
Record ==
  [run : Runs, owner : Owners, kind : Kinds \ {"COMPLETE"}, seq : Numbers,
   attempted : {0}, write_failed : {FALSE}]
  \cup
  [run : Runs, owner : Owners, kind : {"COMPLETE"}, seq : Numbers,
   attempted : Numbers, write_failed : BOOLEAN]
Key(rec) == <<rec.run, rec.owner>>

\* mixed_run_ids is set exactly when distinct_run_ids becomes 2.
RunIds == [first : Runs \cup {NoRun}, distinct : 0 .. 2, invalid : Nat]

Totals == [records : Nat, write_failures : Nat, duplicates : Nat, nonmonotonic : Nat,
           mismatches : Nat, after_completion : Nat]

Producer == [records : Nat, completions : Nat, last_sequence : Nat, mismatches : Nat,
             write_failed : BOOLEAN, pending_exec : BOOLEAN]
NewProducer == [records |-> 0, completions |-> 0, last_sequence |-> 0, mismatches |-> 0,
                write_failed |-> FALSE, pending_exec |-> FALSE]

-----------------------------------------------------------------------------
One(condition) == IF condition THEN 1 ELSE 0

\* The definitions whose names end in _slip are no part of the model: each is
\* the next one with a plausible mistake, kept to show the properties notice.

\* The run identities counted, not capped.
NoteRun_slip(ids, id) ==
  IF ids.distinct = 0 THEN [first |-> id, distinct |-> 1, invalid |-> ids.invalid]
  ELSE IF id # ids.first THEN [ids EXCEPT !.distinct = @ + 1]
  ELSE ids

\* The first valid run id is kept; any other one marks the stream as mixed.
NoteRun(ids, id) ==
  IF ids.distinct = 0 THEN [first |-> id, distinct |-> 1, invalid |-> ids.invalid]
  ELSE IF id # ids.first THEN [ids EXCEPT !.distinct = 2]
  ELSE ids

Full == Cardinality(known) = capacity
GrownCapacity ==
  IF ~Full THEN capacity ELSE IF capacity = 0 THEN InitialCapacity ELSE 2 * capacity

Duplicate(p, rec) == rec.seq # 0 /\ rec.seq = p.last_sequence
Nonmonotonic(p, rec) == rec.seq # 0 /\ p.last_sequence # 0 /\ rec.seq < p.last_sequence

\* The receipt expected to count itself.
Mismatch_slip(p, rec) ==
  rec.kind = "COMPLETE" /\ rec.attempted # (p.records + 1) - p.completions

\* At a COMPLETE record, the count it claims against the records before it.
Mismatch(p, rec) ==
  rec.kind = "COMPLETE" /\ rec.attempted # (p.records + 1) - (p.completions + 1)

\* The largest number seen (or the latest one).
LastSequence_slip(p, rec) == rec.seq
LastSequence(p, rec) == IF rec.seq > p.last_sequence THEN rec.seq ELSE p.last_sequence

\* EXEC_FAIL and COMPLETE both end the wait for an exec (or the first alone).
Pending_slip(p, rec) == rec.kind = "EXEC" \/ (rec.kind # "EXEC_FAIL" /\ p.pending_exec)
Pending(p, rec) == rec.kind = "EXEC" \/ (rec.kind = "EVENT" /\ p.pending_exec)

\* A completed producer writes nothing more (or nothing after a second receipt).
Completed_slip(p) == p.completions > 1
Completed(p) == p.completions > 0

CountProducer(p, rec) ==
  [records       |-> p.records + 1,
   completions   |-> p.completions + One(rec.kind = "COMPLETE"),
   last_sequence |-> LastSequence(p, rec),
   mismatches    |-> p.mismatches + One(Mismatch(p, rec)),
   write_failed  |-> (p.write_failed \/ rec.write_failed),
   pending_exec  |-> Pending(p, rec)]

CountTotals(t, p, rec) ==
  [records          |-> t.records + 1,
   write_failures   |-> t.write_failures + One(rec.write_failed),
   duplicates       |-> t.duplicates + One(Duplicate(p, rec)),
   nonmonotonic     |-> t.nonmonotonic + One(Nonmonotonic(p, rec)),
   mismatches       |-> t.mismatches + One(Mismatch(p, rec)),
   after_completion |-> t.after_completion + One(Completed(p))]

CompletedCleanly(p) == p.completions = 1 /\ ~p.write_failed /\ p.mismatches = 0

incomplete_producers == {k \in known : ~CompletedCleanly(producers[k])}

\* The tests of is_complete on the stream as a whole.
IntegrityValid ==
  /\ totals.records # 0 /\ known # {}
  /\ totals.write_failures = 0
  /\ totals.duplicates = 0 /\ totals.nonmonotonic = 0
  /\ totals.mismatches = 0 /\ totals.after_completion = 0
  /\ run_ids.distinct = 1 /\ run_ids.invalid = 0
  /\ ~allocation_failed

is_complete == IntegrityValid /\ incomplete_producers = {}

-----------------------------------------------------------------------------
Init ==
  /\ run_ids = [first |-> NoRun, distinct |-> 0, invalid |-> 0]
  /\ totals = [records |-> 0, write_failures |-> 0, duplicates |-> 0,
               nonmonotonic |-> 0, mismatches |-> 0, after_completion |-> 0]
  /\ producers = [k \in Keys |-> NewProducer]
  /\ known = {}
  /\ capacity = 0
  /\ allocation_failed = FALSE
  /\ log = <<>>
  /\ refused = FALSE

Bounded == totals.records + run_ids.invalid < MaxRecords

ObserveInvalid ==
  /\ Bounded
  /\ run_ids' = [run_ids EXCEPT !.invalid = @ + 1]
  /\ refused' = TRUE
  /\ UNCHANGED <<totals, producers, known, capacity, allocation_failed, log>>

\* The run id is noted before the producer is looked up; room for a new
\* producer is asked for only when the array is full.
ObserveOutOfMemory(rec) ==
  /\ Bounded
  /\ Key(rec) \notin known /\ Full
  /\ run_ids' = NoteRun(run_ids, rec.run)
  /\ allocation_failed' = TRUE
  /\ refused' = TRUE
  /\ UNCHANGED <<totals, producers, known, capacity, log>>

Observe(rec) ==
  LET k == Key(rec)
  IN  /\ Bounded
      /\ run_ids' = NoteRun(run_ids, rec.run)
      /\ totals' = CountTotals(totals, producers[k], rec)
      /\ producers' = [producers EXCEPT ![k] = CountProducer(@, rec)]
      /\ known' = known \cup {k}
      /\ capacity' = IF k \in known THEN capacity ELSE GrownCapacity
      /\ log' = Append(log, rec)
      /\ UNCHANGED <<allocation_failed, refused>>

Next ==
  \/ ObserveInvalid
  \/ \E rec \in Record : ObserveOutOfMemory(rec) \/ Observe(rec)

Spec == Init /\ [][Next]_vars

-----------------------------------------------------------------------------
(* Properties. *)

\* The positions of a producer's records in the stream, and those before i.
Positions(k) == {i \in 1 .. Len(log) : Key(log[i]) = k}
Before(i) == {j \in 1 .. i - 1 : Key(log[j]) = Key(log[i])}

\* The state has its type.
TypeOK ==
  /\ run_ids \in RunIds
  /\ totals \in Totals
  /\ producers \in [Keys -> Producer]
  /\ known \subseteq Keys
  /\ capacity \in Nat
  /\ allocation_failed \in BOOLEAN
  /\ log \in Seq(Record)
  /\ refused \in BOOLEAN

\* One run, and no record that observe refused.
OneRun ==
  /\ ~refused /\ log # <<>>
  /\ \A i, j \in 1 .. Len(log) : log[i].run = log[j].run

\* Within each producer the nonzero sequence numbers strictly increase.
SequencesIncrease ==
  \A i, j \in 1 .. Len(log) :
    i < j /\ Key(log[i]) = Key(log[j]) /\ log[i].seq # 0 /\ log[j].seq # 0
    => log[i].seq < log[j].seq

\* Each producer's last record, and no other, is a clean COMPLETE receipt that
\* counts the records before it.
Receipted ==
  \A i \in 1 .. Len(log) :
    LET last == ~\E j \in 1 .. Len(log) : i < j /\ Key(log[i]) = Key(log[j])
    IN  /\ log[i].kind = "COMPLETE" <=> last
        /\ last => ~log[i].write_failed /\ log[i].attempted = Cardinality(Before(i))

Clean == OneRun /\ SequencesIncrease /\ Receipted

\* A stream is admitted as complete only if it is: one run, ordered producers,
\* and a matching receipt at the end of every one, so that a truncated context
\* is never covered by the receipt of a sibling (is_complete,
\* docs/event-format.md: "A receipt from one context cannot make a truncated
\* sibling context look complete").
CompleteIsSound == is_complete => Clean

\* What the counters are taken to mean, which is why CompleteIsSound holds: the
\* counters of a producer speak of its own records, and a counter of the whole
\* stream that is still 0 rules out the irregularity it counts, wherever in the
\* stream and with whatever producer it would have been (observe).
Counting ==
  /\ totals.records = Len(log)
  /\ \A i \in 1 .. Len(log) :
       /\ Key(log[i]) \in known
       /\ log[i].seq <= producers[Key(log[i])].last_sequence
  /\ \A k \in Keys :
       /\ producers[k].records = Cardinality(Positions(k))
       /\ producers[k].completions > 0 <=> \E i \in Positions(k) : log[i].kind = "COMPLETE"
Ordering == totals.duplicates = 0 /\ totals.nonmonotonic = 0 => SequencesIncrease
Sealing ==
  totals.after_completion = 0 =>
    \A i, j \in 1 .. Len(log) :
      i < j /\ Key(log[i]) = Key(log[j]) => log[i].kind # "COMPLETE"
Counts ==
  totals.after_completion = 0 /\ totals.mismatches = 0 =>
    \A i \in 1 .. Len(log) :
      log[i].kind = "COMPLETE" => log[i].attempted = Cardinality(Before(i))
Writes ==
  totals.write_failures = 0 => \A i \in 1 .. Len(log) : log[i].write_failed = FALSE
Identity ==
  /\ run_ids.distinct = 0 => log = <<>>
  /\ run_ids.distinct = 1 => \A i \in 1 .. Len(log) : log[i].run = run_ids.first
  /\ refused => run_ids.invalid # 0 \/ allocation_failed
CountersExplain == Counting /\ Ordering /\ Sealing /\ Counts /\ Writes /\ Identity

\* Conversely a clean stream is never turned away.
CleanIsComplete == Clean => is_complete

\* A producer waits for the outcome of an exec exactly when its latest record
\* about execs or completion is an exec snapshot (pending_exec).
PendingIsLatest ==
  \A k \in Keys :
    producers[k].pending_exec <=>
      \E i \in Positions(k) :
        /\ log[i].kind = "EXEC"
        /\ \A j \in Positions(k) : j > i => log[j].kind \in {"EXEC", "EVENT"}
=============================================================================
