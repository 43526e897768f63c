SPECIFICATION FairWorldSpec
CONSTANTS
  Pids = {p, q, r}
  Fds = {f, g}
  Ptrs = {}
  Objects = {}
  Runs = {A}
  Null = null
  MaxEntries = 7
  MaxFindings = 12
  Faults = {}
  RecordKinds = {"FD", "FORK", "EXEC", "EXEC_FAIL"}
  Strict = TRUE
  Births <- ThreeProcesses
  p = p
  q = q
  r = r
  EarlyActs = {"close"}
  Reexec = FALSE
  MaxCalls = 3
INVARIANT Agreement
INVARIANT NoFalseAlarm
INVARIANT InheritExact
PROPERTY StrayResolved
