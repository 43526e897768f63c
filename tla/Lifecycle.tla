----------------------------- MODULE Lifecycle -----------------------------
(***************************************************************************)
(* The policy-free lifecycle replay (src/lifecycle.c).  One model object   *)
(* ingests the resource records of one run, keeps an entry for every       *)
(* acquisition and a finding for every irregularity, and `finish' turns    *)
(* the entries that are still live into leak findings.                     *)
(*                                                                         *)
(* A resource stands for the pair (resource class, resource id); the three *)
(* constant sets are the class "fd", the class "allocation" and all other  *)
(* classes.  Entries and findings keep what the replay decides on; source  *)
(* places, sequence numbers, contexts and sizes are left out.              *)
(*                                                                         *)
(* Every insertion allocates and may fail: a handler runs with a budget of *)
(* insertions that succeed before one fails, and a failure leaves behind   *)
(* whatever the handler had already done, as in the code.                  *)
(*                                                                         *)
(* An operator whose name ends in _slip is no part of the model: it is the *)
(* next definition with a plausible mistake, kept to show that the         *)
(* properties would notice it.                                             *)
(***************************************************************************)
EXTENDS Integers, Sequences, FiniteSets, SequencesExt, Ownership

CONSTANTS
  Pids,          \* process ids that occur in records
  Fds,           \* resources of class "fd"
  Ptrs,          \* resources of class "allocation"
  Objects,       \* resources of one class with neither name
  Runs,          \* run identities that records carry
  Null,          \* the null pointer, an absent related id, no run
  MaxEntries,    \* MAX_LIFECYCLE_ENTRIES
  MaxFindings,   \* MAX_LIFECYCLE_FINDINGS
  Faults,        \* budgets after which an insertion may run out of memory
  RecordKinds,   \* the kinds of record the client feeds, of AllRecordKinds
  Strict         \* does the client give the model up at the first failure,
                 \* and feed it nothing once it finished, as model.c does?

\* SPAWN, CALL and COMPLETE records are here the one kind "OTHER".
AllRecordKinds == {"RESOURCE", "FD", "ALLOC", "FORK", "EXEC", "EXEC_FAIL", "OTHER"}

ASSUME LifecycleAssumption ==
  /\ Null \notin Pids \cup Fds \cup Ptrs \cup Objects \cup Runs
  /\ MaxEntries \in Nat \ {0} /\ MaxFindings \in Nat \ {0}
  /\ Faults \subseteq Nat
  /\ RecordKinds \subseteq AllRecordKinds
  /\ Strict \in BOOLEAN

VARIABLES
  entries,       \* model->entries, in order of insertion
  findings,      \* model->findings, in order of insertion
  finished,      \* model->finished
  run,           \* model->run_id, Null while it is empty
  status,        \* what the last call returned
  closes,        \* history: releases accepted so far, by process and resource
  contributors   \* history: the runs whose records changed the model

lifecycle == <<entries, findings, finished, run, status>>
vars == <<lifecycle, closes, contributors>>

Resources == Fds \cup Ptrs \cup Objects
Unlimited == MaxEntries + MaxFindings + 1
Budgets == Faults \cup {Unlimited}

Kinds == {"LEAK", "DOUBLE_RELEASE", "STRAY_RELEASE", "BAD_REPLACE",
          "DUPLICATE_ACQUIRE", "EXEC_INHERIT", "INVALID_USE"}
Entry == [pid : Pids, res : Resources, live : BOOLEAN, exec_pending : BOOLEAN]
Finding == [kind : Kinds, pid : Pids, res : Resources, exec_pending : BOOLEAN]

\* How many elements of a sequence are in S, and the sequence of those.
Matching(seq, S) == Cardinality({i \in DOMAIN seq : seq[i] \in S})
Kept(seq, S) ==
  LET kept[i \in 0 .. Len(seq)] ==
        IF i = 0 THEN <<>>
        ELSE IF seq[i] \in S THEN Append(kept[i - 1], seq[i]) ELSE kept[i - 1]
  IN  kept[Len(seq)]
\* The findings of one kind about a resource of a process.
FindingsOf(kind, p, r) == [kind : {kind}, pid : {p}, res : {r}, exec_pending : BOOLEAN]
Count(s, kind, p, r) == Matching(s.findings, FindingsOf(kind, p, r))

-----------------------------------------------------------------------------
(* The helpers.  `s' is the model under a handler: its entries and         *)
(* findings, whether every call so far returned 0, and the budget.         *)

Store(b) ==
  [entries |-> entries, findings |-> findings, ok |-> TRUE, budget |-> b]

find_latest(s, p, r, live_only) ==
  SelectLastInSeq(s.entries,
                  LAMBDA e : e.pid = p /\ e.res = r /\ (live_only => e.live))

Known(s, p, r) == find_latest(s, p, r, FALSE) # 0
Live(s, p, r)  == find_latest(s, p, r, TRUE) # 0

Failed(s) == [s EXCEPT !.ok = FALSE]

\* No entry is added past the limit (or one is).
Crowded_slip(s) == Len(s.entries) > MaxEntries
Crowded(s) == Len(s.entries) >= MaxEntries
add_entry(s, p, r) ==
  IF Crowded(s) \/ s.budget = 0
  THEN Failed(s)
  ELSE [s EXCEPT !.budget = @ - 1,
                 !.entries = Append(@, [pid |-> p, res |-> r, live |-> TRUE,
                                        exec_pending |-> FALSE])]

add_finding(s, kind, p, r) ==
  IF Len(s.findings) >= MaxFindings \/ s.budget = 0
  THEN Failed(s)
  ELSE [s EXCEPT !.budget = @ - 1,
                 !.findings = Append(@, [kind |-> kind, pid |-> p, res |-> r,
                                         exec_pending |-> kind = "EXEC_INHERIT"])]

\* What a release without a live entry is: every one stray, or not.
Unowned_slip(s, p, r) == "STRAY_RELEASE"
Unowned(s, p, r) == IF Known(s, p, r) THEN "DOUBLE_RELEASE" ELSE "STRAY_RELEASE"

\* Entry i is released: marked first, or once its release text is copied.
MarkReleased_slip(s, i) ==
  LET t == [s EXCEPT !.entries[i].live = FALSE]
  IN  IF s.budget = 0 THEN Failed(t) ELSE [t EXCEPT !.budget = @ - 1]
MarkReleased(s, i) ==
  IF s.budget = 0 THEN Failed(s)
  ELSE [s EXCEPT !.budget = @ - 1, !.entries[i].live = FALSE]

\* The latest live entry is released; with none, the release is a finding.
release_entry(s, p, r) ==
  IF Live(s, p, r) THEN MarkReleased(s, find_latest(s, p, r, TRUE))
  ELSE add_finding(s, Unowned(s, p, r), p, r)

Acquire(s, p, r) ==
  LET t == IF Live(s, p, r) THEN add_finding(s, "DUPLICATE_ACQUIRE", p, r) ELSE s
  IN  IF t.ok THEN add_entry(t, p, r) ELSE t

\* REPLACE and TRANSFER: the id is released, then the related id is added.
Replace(s, p, r, related) ==
  LET t == release_entry(s, p, r)
  IN  IF related = Null THEN add_finding(s, "BAD_REPLACE", p, r)
      ELSE IF t.ok THEN add_entry(t, p, related) ELSE t

Use(s, p, r) == IF Live(s, p, r) THEN s ELSE add_finding(s, "INVALID_USE", p, r)

\* The three shapes of realloc: of null, of a pointer not live, of a live one.
Reallocate(s, p, a, new) ==
  LET released   == release_entry(s, p, a)
      bad        == add_finding(s, "BAD_REPLACE", p, a)
      acquire(t) == IF t.ok /\ new # Null THEN Acquire(t, p, new) ELSE t
  IN  IF a = Null THEN acquire(s)
      ELSE IF ~Live(s, p, a) THEN acquire(bad)
      ELSE IF new = Null THEN s ELSE acquire(released)

\* The finding is withdrawn, or only read.
take_stray_release_slip(s, p, r) == s
take_stray_release(s, p, r) ==
  [s EXCEPT !.findings =
     RemoveFirstMatch(@, LAMBDA f : f \in FindingsOf("STRAY_RELEASE", p, r))]

\* Every provisional stray release of p and r is withdrawn and replayed; of a
\* resource that is known, none is added.
Replay_slip(t, p, r) == take_stray_release(t, p, r)
Replay(t, p, r) ==
  IF t.ok THEN release_entry(take_stray_release(t, p, r), p, r) ELSE t
reconcile_stray_releases(s, p, r) ==
  LET strays == Count(s, "STRAY_RELEASE", p, r)
      replayed[n \in 0 .. strays] == IF n = 0 THEN s ELSE Replay(replayed[n - 1], p, r)
  IN  replayed[strays]

\* The child inherits the parent's live descriptors it has no entry for (or,
\* mistaken, also those the parent had closed).
Inherits_slip(s, e, parent, child) ==
  e.pid = parent /\ e.res \in Fds /\ ~Known(s, child, e.res)
Inherits(s, e, parent, child) ==
  e.pid = parent /\ e.live /\ e.res \in Fds /\ ~Known(s, child, e.res)
Inherit(t, e, parent, child) ==
  LET u == add_entry(t, child, e.res)
  IN  IF ~t.ok \/ ~Inherits(t, e, parent, child) THEN t
      ELSE IF u.ok THEN reconcile_stray_releases(u, child, e.res) ELSE u
Fork(s, parent, child) ==
  LET inherited[i \in 0 .. Len(s.entries)] ==
        IF i = 0 THEN s ELSE Inherit(inherited[i - 1], s.entries[i], parent, child)
  IN  IF parent = child THEN s ELSE inherited[Len(s.entries)]

\* A close-on-exec descriptor is released until the exec is known to fail.
Exec_slip(s, p, r, cloexec) ==
  IF ~Live(s, p, r) THEN s
  ELSE IF cloexec THEN release_entry(s, p, r) ELSE add_finding(s, "EXEC_INHERIT", p, r)
Exec(s, p, r, cloexec) ==
  LET t == release_entry(s, p, r)
  IN  IF ~Live(s, p, r) THEN s
      ELSE IF ~cloexec THEN add_finding(s, "EXEC_INHERIT", p, r)
      ELSE IF ~t.ok THEN t
      ELSE [t EXCEPT !.entries[find_latest(s, p, r, TRUE)].exec_pending = TRUE]

\* What the failed exec of process p had marked: not what others marked, and
\* not all that p released.
Undone_slip(x, p) == x.exec_pending
Undone_all_slip(x, p) == x.pid = p
Undone(x, p) == x.pid = p /\ x.exec_pending
rollback_exec(s, p) ==
  LET Restored(e) == IF Undone(e, p) THEN [e EXCEPT !.live = TRUE, !.exec_pending = FALSE]
                     ELSE e
  IN  [s EXCEPT !.entries = [i \in DOMAIN @ |-> Restored(@[i])],
                !.findings = Kept(@, {f \in Finding : ~Undone(f, p)})]

\* Clears the pending marks and records one leak per live entry, stopping at
\* the first that cannot be recorded (or passing over it).
Settle_slip(t, i) ==
  LET e == t.entries[i]
      u == [t EXCEPT !.entries[i].exec_pending = FALSE]
  IN  IF e.live THEN [add_finding(u, "LEAK", e.pid, e.res) EXCEPT !.ok = TRUE] ELSE u
Settle(t, i) ==
  LET e == t.entries[i]
      u == [t EXCEPT !.entries[i].exec_pending = FALSE]
  IN  IF ~t.ok THEN t
      ELSE IF e.live THEN add_finding(u, "LEAK", e.pid, e.res) ELSE u
Seal(s) ==
  LET settled[i \in 0 .. Len(s.entries)] ==
        IF i = 0 THEN s ELSE Settle(settled[i - 1], i)
      t == settled[Len(s.entries)]
  IN  IF t.ok
      THEN [t EXCEPT !.findings = [i \in DOMAIN @ |-> [@[i] EXCEPT !.exec_pending = FALSE]]]
      ELSE t

\* A second call on a finished model returns at once (or seals it again).
Sealed_slip(b) == Seal(Store(b))
Sealed(b) == IF finished THEN Store(b) ELSE Seal(Store(b))

-----------------------------------------------------------------------------
Init ==
  /\ entries = <<>> /\ findings = <<>>
  /\ finished = FALSE
  /\ run = Null
  /\ status = 0
  /\ closes = [p \in Pids |-> [r \in Resources |-> 0]]
  /\ contributors = {}

\* The run of the model: bound by the first record that succeeds, or never.
Binding_slip(id, s) == run
Binding(id, s) == IF s.ok /\ run = Null THEN id ELSE run

\* A record of run id passed the gate of ingest and its handler left s; the
\* handler was asked to release the resources rs of process p.
Ingested(id, s, p, rs) ==
  /\ entries' = s.entries
  /\ findings' = s.findings
  /\ finished' = FALSE
  /\ status' = IF s.ok THEN 0 ELSE -1
  /\ run' = Binding(id, s)
  /\ closes' = IF s.ok
               THEN [closes EXCEPT ![p] = [r \in Resources |-> @[r] + (IF r \in rs THEN 1 ELSE 0)]]
               ELSE closes
  /\ contributors' = IF s.entries # entries \/ s.findings # findings
                     THEN contributors \cup {id} ELSE contributors

MayCall == Strict => status = 0
MayIngest == MayCall /\ (Strict => ~finished)

\* The gate of ingest admits a record of this kind and run.
Admits(kind, id) == MayIngest /\ kind \in RecordKinds /\ run \in {Null, id}

\* Another run id is refused before anything is touched.
RefuseRun(id) ==
  /\ MayIngest
  /\ run \notin {Null, id}
  /\ status' = -1
  /\ UNCHANGED <<entries, findings, finished, run, closes, contributors>>

\* SPAWN, CALL and COMPLETE are not replayed; a resource record without class
\* or id, and a descriptor that cannot be formatted, end the same way.
RefuseKind(id, p) ==
  /\ Admits("OTHER", id)
  /\ Ingested(id, Failed(Store(0)), p, {})

\* The classes blocking-operation and pthread-terminal-attempt.
IgnoreResource(id, p) ==
  /\ Admits("RESOURCE", id)
  /\ Ingested(id, Store(0), p, {})

IngestAcquire(id, p, r, b) ==
  /\ Admits("RESOURCE", id)
  /\ Ingested(id, Acquire(Store(b), p, r), p, {})

IngestRelease(id, p, r, b) ==
  /\ Admits("RESOURCE", id)
  /\ Ingested(id, release_entry(Store(b), p, r), p, {r})

SameClass(r, q) == \E C \in {Fds, Ptrs, Objects} : {r, q} \subseteq C

IngestReplace(id, p, r, related, b) ==
  /\ Admits("RESOURCE", id)
  /\ related = Null \/ SameClass(r, related)
  /\ Ingested(id, Replace(Store(b), p, r, related), p, IF related = Null THEN {} ELSE {r})

IngestUse(id, p, r, b) ==
  /\ Admits("RESOURCE", id)
  /\ Ingested(id, Use(Store(b), p, r), p, {})

IngestOpen(id, p, r, b) ==
  /\ Admits("FD", id)
  /\ Ingested(id, Acquire(Store(b), p, r), p, {})

IngestClose(id, p, r, b) ==
  /\ Admits("FD", id)
  /\ Ingested(id, release_entry(Store(b), p, r), p, {r})

\* ALLOC and FREE of the null pointer change nothing.
IngestAlloc(id, p, a, b) ==
  /\ Admits("ALLOC", id)
  /\ Ingested(id, IF a = Null THEN Store(b) ELSE Acquire(Store(b), p, a), p, {})

IngestFree(id, p, a, b) ==
  /\ Admits("ALLOC", id)
  /\ Ingested(id, IF a = Null THEN Store(b) ELSE release_entry(Store(b), p, a), p, {a})

IngestRealloc(id, p, a, new, b) ==
  /\ Admits("ALLOC", id)
  /\ Ingested(id, Reallocate(Store(b), p, a, new), p,
              IF new # Null /\ Live(Store(b), p, a) THEN {a} ELSE {})

IngestFork(id, parent, child, b) ==
  /\ Admits("FORK", id)
  /\ Ingested(id, Fork(Store(b), parent, child), parent, {})

IngestExec(id, p, r, cloexec, b) ==
  /\ Admits("EXEC", id)
  /\ Ingested(id, Exec(Store(b), p, r, cloexec), p, {})

IngestExecFail(id, p) ==
  /\ Admits("EXEC_FAIL", id)
  /\ Ingested(id, rollback_exec(Store(0), p), p, {})

Finish(b) ==
  LET s == Sealed(b)
  IN  /\ MayCall
      /\ entries' = s.entries /\ findings' = s.findings
      /\ finished' = (finished \/ s.ok)
      /\ status' = IF s.ok THEN 0 ELSE -1
      /\ UNCHANGED <<run, closes, contributors>>

\* destroy, and create for the next use: what the client does on a failure.
Renew ==
  /\ status = -1
  /\ entries' = <<>> /\ findings' = <<>>
  /\ finished' = FALSE
  /\ run' = Null
  /\ status' = 0
  /\ closes' = [p \in Pids |-> [r \in Resources |-> 0]]
  /\ contributors' = {}

Next ==
  \/ \E id \in Runs : RefuseRun(id)
  \/ \E id \in Runs, p \in Pids : RefuseKind(id, p) \/ IgnoreResource(id, p)
  \/ \E id \in Runs, p \in Pids, b \in Budgets :
       \/ \E r \in Resources :
            \/ IngestAcquire(id, p, r, b)
            \/ IngestRelease(id, p, r, b)
            \/ \E related \in Resources \cup {Null} : IngestReplace(id, p, r, related, b)
            \/ IngestUse(id, p, r, b)
       \/ \E r \in Fds :
            \/ IngestOpen(id, p, r, b)
            \/ IngestClose(id, p, r, b)
            \/ \E cloexec \in BOOLEAN : IngestExec(id, p, r, cloexec, b)
       \/ \E a \in Ptrs \cup {Null} :
            \/ IngestAlloc(id, p, a, b)
            \/ IngestFree(id, p, a, b)
            \/ \E new \in Ptrs \cup {Null} : IngestRealloc(id, p, a, new, b)
       \/ \E child \in Pids : IngestFork(id, p, child, b)
  \/ \E id \in Runs, p \in Pids : IngestExecFail(id, p)
  \/ \E b \in Budgets : Finish(b)
  \/ Renew

Spec == Init /\ [][Next]_vars

-----------------------------------------------------------------------------
(* Properties. *)

Now == [entries |-> entries, findings |-> findings]

LiveOf(p, r) == [pid : {p}, res : {r}, live : {TRUE}, exec_pending : BOOLEAN]
LiveCount(s, p, r) == Matching(s.entries, LiveOf(p, r))
ReleasedOf(p, r) == [pid : {p}, res : {r}, live : {FALSE}, exec_pending : {FALSE}]

OwnershipOf(s, p, r) ==
  IF Live(s, p, r) THEN "live" ELSE IF Known(s, p, r) THEN "released" ELSE "never"

\* The state has its type, within the two limits of the code; only a released
\* entry and only an exec-inherit finding can wait for the outcome of an exec.
TypeOK ==
  /\ entries \in Seq(Entry) /\ Len(entries) <= MaxEntries
  /\ findings \in Seq(Finding) /\ Len(findings) <= MaxFindings
  /\ finished \in BOOLEAN
  /\ run \in Runs \cup {Null}
  /\ status \in {0, -1}
  /\ closes \in [Pids -> [Resources -> Nat]]
  /\ contributors \subseteq Runs
  /\ \A i \in DOMAIN entries : entries[i].exec_pending => ~entries[i].live
  /\ \A i \in DOMAIN findings : findings[i].exec_pending => findings[i].kind = "EXEC_INHERIT"

\* No release is lost or counted twice: each accepted release of a resource is
\* one entry it released, or one stray or double release finding, through fork
\* reconciliation (which turns stray findings into released entries) and exec
\* rollback (reconcile_stray_releases, rollback_exec).
ReleasesAccounted ==
  ~finished /\ status = 0 => \A p \in Pids, r \in Resources :
    closes[p][r] = Matching(entries, ReleasedOf(p, r))
                   + Count(Now, "STRAY_RELEASE", p, r)
                   + Count(Now, "DOUBLE_RELEASE", p, r)

\* A finished model reports each resource that is still live exactly as often
\* as it is live, however often finish was called (p101_tool_event_lifecycle_finish).
LeaksExact ==
  finished => \A p \in Pids, r \in Resources :
    Count(Now, "LEAK", p, r) = LiveCount(Now, p, r)

\* Even when finish failed half way and was retried, or records came after it,
\* no live resource of a finished model goes without its leak finding.
LeaksComplete ==
  finished => \A p \in Pids, r \in Resources :
    Count(Now, "LEAK", p, r) >= LiveCount(Now, p, r)

\* A fork record leaves the child with an entry for each descriptor that is
\* live in the parent; a child without one before ends with no provisional
\* stray release of it, and keeps it live only if it had released none.  Of
\* every other descriptor the child knows what it knew before
\* (ingest_fork, reconcile_stray_releases).
Inherited(p, c, r) ==
  /\ Live(Now, p, r) => Known(Now', c, r)
  /\ Live(Now, p, r) /\ ~Known(Now, c, r) =>
       /\ Count(Now', "STRAY_RELEASE", c, r) = 0
       /\ Live(Now', c, r) <=> Count(Now, "STRAY_RELEASE", c, r) = 0
  /\ ~Live(Now, p, r) => OwnershipOf(Now', c, r) = OwnershipOf(Now, c, r)
ForkInherits ==
  [][\A id \in Runs, p, c \in Pids, b \in Budgets :
       p # c /\ status' = 0 /\ IngestFork(id, p, c, b)
       => \A r \in Fds : Inherited(p, c, r)]_vars

\* What is known of one process: which of its resources are live or released,
\* and its findings, leaks and pending marks aside.
View(p) ==
  LET known == Kept(entries, {e \in Entry : e.pid = p})
      found == Kept(findings, {f \in Finding : f.pid = p /\ f.kind # "LEAK"})
  IN  <<[i \in DOMAIN known |-> <<known[i].res, known[i].live>>],
        [i \in DOMAIN found |-> <<found[i].kind, found[i].res>>]>>

\* One record changes what is known of at most one process: an exec rollback
\* or a fork reconciliation never reaches the entries of another process.
OneProcessPerRecord ==
  [][~Renew =>
       \A p, q \in Pids : p # q => View(p)' = View(p) \/ View(q)' = View(q)]_vars

\* A finding is withdrawn only while it is provisional: a stray release when
\* a fork record gives its process the descriptor, an exec-inherit finding
\* when its process reports that the exec failed.
OnlyProvisionalWithdrawn ==
  [][\A kind \in Kinds, p \in Pids, r \in Resources :
       Count(Now', kind, p, r) < Count(Now, kind, p, r) /\ ~Renew
       => \/ kind = "STRAY_RELEASE" /\ ~Known(Now, p, r) /\ Known(Now', p, r)
          \/ /\ kind = "EXEC_INHERIT"
             /\ \E id \in Runs : IngestExecFail(id, p)]_vars

Added(kind, p, r) == Count(Now', kind, p, r) > Count(Now, kind, p, r)

\* The replay classifies releases, reallocations and execs as the shared
\* ownership tables do (src/ownership.c): stray, duplicate and bad replacement
\* findings appear exactly when the table says so.
ReleaseAgreed(p, r) ==
  LET class == classify_release(OwnershipOf(Now, p, r))
  IN  /\ Added("STRAY_RELEASE", p, r) <=> class = "stray"
      /\ Added("DOUBLE_RELEASE", p, r) <=> class = "duplicate"
      /\ entries' # entries <=> class = "ok"
ReallocAgreed(p, a, new) ==
  LET class == classify_replace(a = Null, IF a = Null THEN "never"
                                          ELSE OwnershipOf(Now, p, a))
  IN  /\ class = "bad" <=> \E r \in Ptrs : Added("BAD_REPLACE", p, r)
      /\ new # Null => Live(Now', p, new)
ExecAgreed(p, r, cloexec) ==
  Added("EXEC_INHERIT", p, r) <=> exec_inherits(OwnershipOf(Now, p, r), cloexec)
\* A handler that succeeds on a budget does what it does on an unlimited one.
RecordAgreed ==
  status' = 0 =>
    \A id \in Runs, p \in Pids :
      /\ \A r \in Resources : IngestRelease(id, p, r, Unlimited) => ReleaseAgreed(p, r)
      /\ \A a, new \in Ptrs \cup {Null} :
           IngestRealloc(id, p, a, new, Unlimited) => ReallocAgreed(p, a, new)
      /\ \A r \in Fds, cloexec \in BOOLEAN :
           IngestExec(id, p, r, cloexec, Unlimited) => ExecAgreed(p, r, cloexec)
\* Every record is classified by the ownership tables (src/ownership.c).
OwnershipAgrees == [][RecordAgreed]_vars

\* One model holds the evidence of one run only.
\* (docs/event-format.md: "One lifecycle model admits exactly one run identity")
OneRun == Cardinality(contributors) <= 1

\* A release, a use or an exec snapshot that fails for want of memory leaves
\* the evidence as it was: text is copied before the entry is touched.
FailureAtomic ==
  [][status' = -1 /\ <<entries', findings'>> # <<entries, findings>>
     => ~\E id \in Runs, p \in Pids, b \in Budgets, r \in Resources :
           \/ IngestRelease(id, p, r, b)
           \/ IngestUse(id, p, r, b)
           \/ r \in Fds /\ \E c \in BOOLEAN : IngestExec(id, p, r, c, b)]_vars
=============================================================================
