SPECIFICATION Spec
CONSTANTS
  Pids = {p, q}
  Fds = {f}
  Ptrs = {}
  Objects = {}
  Runs = {A, B}
  Null = null
  MaxEntries = 3
  MaxFindings = 3
  Faults = {}
  RecordKinds = {"FD", "FORK", "EXEC", "EXEC_FAIL", "OTHER"}
  Strict = TRUE
SYMMETRY Symmetry
INVARIANT TypeOK
INVARIANT ReleasesAccounted
INVARIANT LeaksExact
INVARIANT OneRun
PROPERTY ForkInherits
PROPERTY OneProcessPerRecord
PROPERTY OnlyProvisionalWithdrawn
