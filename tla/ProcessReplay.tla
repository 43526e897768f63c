--------------------------- MODULE ProcessReplay ---------------------------
(***************************************************************************)
(* The lifecycle replay fed by real processes.  The kernel's descriptor    *)
(* tables are the truth; the observation wrappers (outside src/) perform a *)
(* call and publish its record, and the replay ingests records in the      *)
(* order they reach the shared stream.  Each process runs one thread.      *)
(*                                                                         *)
(* Two calls are not one step: the parent publishes its FORK record after  *)
(* fork returned, while the child already runs (comment in ingest_fork),   *)
(* and exec publishes one snapshot per descriptor before the native call,  *)
(* which then replaces the image or fails with an EXECFAIL record          *)
(* (docs/event-format.md).  The programs are correct: they close only what *)
(* they have open, so every release finding would be a false alarm.        *)
(***************************************************************************)
EXTENDS Lifecycle

CONSTANTS
  Births,        \* the process ids, in the order the kernel hands them out
  EarlyActs,     \* what a child may do before its FORK record is published
  Reexec,        \* may a process call exec again after an exec succeeded?
  MaxCalls       \* bound: open and exec calls in one run

ASSUME ProcessAssumption ==
  /\ Births \in Seq(Pids) /\ IsInjective(Births) /\ Len(Births) = Cardinality(Pids)
  /\ EarlyActs \subseteq {"open", "close", "fork", "exec"}
  /\ Reexec \in BOOLEAN
  /\ MaxCalls \in Nat
  /\ Runs # {}
  /\ \A S \in SUBSET Fds : S # Null

VARIABLES
  open,          \* the descriptors each process has open
  cloexec,       \* those of them marked close-on-exec
  parent,        \* the parent of each process created by fork, Null for others
  unreported,    \* processes whose FORK record is not published yet
  snapshot,      \* descriptors an exec call has still to publish, or Null
  inherited,     \* history: descriptors left open by each successful exec
  calls          \* counter for the bound

kernel == <<open, cloexec, parent, unreported, snapshot, inherited, calls>>
world == <<vars, kernel>>

\* The process that starts the run; the others are born by fork.
First == Births[1]
Alive(p) == p = First \/ parent[p] # Null
NextBorn(c) ==
  \A i, j \in DOMAIN Births : i < j /\ Births[j] = c => Alive(Births[i])
Forking(p) == \E c \in unreported : parent[c] = p
Executing(p) == snapshot[p] # Null

\* p can make a call of this kind: its own earlier calls have returned.
Ready(p, act) ==
  /\ Alive(p) /\ ~Forking(p) /\ ~Executing(p)
  /\ p \in unreported => act \in EarlyActs

TheRun == CHOOSE id \in Runs : TRUE

-----------------------------------------------------------------------------
WorldInit ==
  /\ Init
  /\ open = [p \in Pids |-> {}]
  /\ cloexec = [p \in Pids |-> {}]
  /\ parent = [p \in Pids |-> Null]
  /\ unreported = {}
  /\ snapshot = [p \in Pids |-> Null]
  /\ inherited = [p \in Pids |-> <<>>]
  /\ calls = 0

Open(p, f, closing) ==
  /\ Ready(p, "open")
  /\ f \notin open[p]
  /\ calls < MaxCalls /\ calls' = calls + 1
  /\ open' = [open EXCEPT ![p] = @ \cup {f}]
  /\ cloexec' = IF closing THEN [cloexec EXCEPT ![p] = @ \cup {f}] ELSE cloexec
  /\ IngestOpen(TheRun, p, f, Unlimited)
  /\ UNCHANGED <<parent, unreported, snapshot, inherited>>

Close(p, f) ==
  /\ Ready(p, "close")
  /\ f \in open[p]
  /\ open' = [open EXCEPT ![p] = @ \ {f}]
  /\ cloexec' = [cloexec EXCEPT ![p] = @ \ {f}]
  /\ IngestClose(TheRun, p, f, Unlimited)
  /\ UNCHANGED <<parent, unreported, snapshot, inherited, calls>>

\* fork returns in the parent and the child starts with copies of the tables.
ForkCall(p, c) ==
  /\ Ready(p, "fork")
  /\ ~Alive(c) /\ NextBorn(c)
  /\ ~finished
  /\ parent' = [parent EXCEPT ![c] = p]
  /\ open' = [open EXCEPT ![c] = open[p]]
  /\ cloexec' = [cloexec EXCEPT ![c] = cloexec[p]]
  /\ unreported' = unreported \cup {c}
  /\ UNCHANGED <<vars, snapshot, inherited, calls>>

ForkReport(c) ==
  /\ c \in unreported
  /\ unreported' = unreported \ {c}
  /\ IngestFork(TheRun, parent[c], c, Unlimited)
  /\ UNCHANGED <<open, cloexec, parent, snapshot, inherited, calls>>

ExecCall(p) ==
  /\ Ready(p, "exec")
  /\ ~finished
  /\ Reexec \/ inherited[p] = <<>>
  /\ calls < MaxCalls /\ calls' = calls + 1
  /\ snapshot' = [snapshot EXCEPT ![p] = open[p]]
  /\ UNCHANGED <<vars, open, cloexec, parent, unreported, inherited>>

ExecSnapshot(p, f) ==
  /\ Executing(p) /\ f \in snapshot[p]
  /\ snapshot' = [snapshot EXCEPT ![p] = @ \ {f}]
  /\ IngestExec(TheRun, p, f, f \in cloexec[p], Unlimited)
  /\ UNCHANGED <<open, cloexec, parent, unreported, inherited, calls>>

\* The native call replaced the image: marked descriptors are closed.
ExecSucceeds(p) ==
  /\ snapshot[p] = {}
  /\ snapshot' = [snapshot EXCEPT ![p] = Null]
  /\ open' = [open EXCEPT ![p] = @ \ cloexec[p]]
  /\ cloexec' = [cloexec EXCEPT ![p] = {}]
  /\ inherited' = [inherited EXCEPT ![p] = Append(@, open[p] \ cloexec[p])]
  /\ UNCHANGED <<vars, parent, unreported, calls>>

ExecFails(p) ==
  /\ snapshot[p] = {}
  /\ snapshot' = [snapshot EXCEPT ![p] = Null]
  /\ IngestExecFail(TheRun, p)
  /\ UNCHANGED <<open, cloexec, parent, unreported, inherited, calls>>

\* No record is outstanding: every call made has published what it publishes.
Settled == unreported = {} /\ \A p \in Pids : ~Executing(p)

\* The analysis of a complete stream.
EndRun ==
  /\ Settled
  /\ Finish(Unlimited)
  /\ UNCHANGED kernel

WorldNext ==
  \/ \E p \in Pids, f \in Fds :
       \/ \E closing \in BOOLEAN : Open(p, f, closing)
       \/ Close(p, f)
       \/ ExecSnapshot(p, f)
  \/ \E p, c \in Pids : ForkCall(p, c)
  \/ \E p \in Pids : ForkReport(p) \/ ExecCall(p) \/ ExecSucceeds(p) \/ ExecFails(p)
  \/ EndRun

WorldSpec == WorldInit /\ [][WorldNext]_world

\* A parent that returned from fork publishes the record: the only step that
\* takes c out of `unreported' is ForkReport(c).
Published(c) == c \in unreported /\ unreported' = unreported \ {c}
FairWorldSpec == WorldSpec /\ \A c \in Pids \ {First} : WF_unreported(Published(c))

-----------------------------------------------------------------------------
(* Properties. *)

\* When no record is outstanding, the live descriptors of the replay are the
\* open descriptors of the kernel, each live once (ingest_fork, ingest_exec,
\* rollback_exec, release_entry together).
Agreement ==
  Settled => \A p \in Pids, f \in Fds :
    LiveCount(Now, p, f) = IF f \in open[p] THEN 1 ELSE 0

\* Correct programs are never accused: no double or duplicate finding ever,
\* and no stray release once every FORK record arrived.
\* (lifecycle.c, ingest_fork: "Reconcile any provisional stray release")
NoFalseAlarm ==
  \A i \in DOMAIN findings :
    /\ findings[i].kind \in {"LEAK", "EXEC_INHERIT", "STRAY_RELEASE"}
    /\ findings[i].kind = "STRAY_RELEASE" => ~Settled

\* An exec-inherit finding stands for one successful exec that left the
\* descriptor open; failed attempts leave none behind, however processes
\* interleave (ingest_exec, rollback_exec).
InheritExact ==
  Settled => \A p \in Pids, f \in Fds :
    Count(Now, "EXEC_INHERIT", p, f) =
      Matching(inherited[p], {kept \in SUBSET Fds : f \in kept})

\* A stray release of a child that outran its FORK record is resolved.
StrayResolved ==
  \A c \in Pids \ {First} :
    (\E f \in Fds : Count(Now, "STRAY_RELEASE", c, f) > 0)
      ~> (\A f \in Fds : Count(Now, "STRAY_RELEASE", c, f) = 0)
=============================================================================
