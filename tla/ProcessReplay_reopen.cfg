SPECIFICATION WorldSpec
CONSTANTS
  Pids = {p, q}
  Fds = {f, g}
  Ptrs = {}
  Objects = {}
  Runs = {A}
  Null = null
  MaxEntries = 7
  MaxFindings = 12
  Faults = {}
  RecordKinds = {"FD", "FORK", "EXEC", "EXEC_FAIL"}
  Strict = TRUE
  Births <- TwoProcesses
  p = p
  q = q
  r = r
  EarlyActs = {"close", "open"}
  Reexec = FALSE
  MaxCalls = 4
SYMMETRY Symmetry
INVARIANT NoFalseAlarm
