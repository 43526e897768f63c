SPECIFICATION Spec
CONSTANTS
  Pids = {p}
  Fds = {f}
  Ptrs = {a, b}
  Objects = {}
  Runs = {A}
  Null = null
  MaxEntries = 2
  MaxFindings = 2
  Faults <- FirstTwo
  RecordKinds = {"RESOURCE", "ALLOC", "EXEC"}
  Strict = FALSE
SYMMETRY Symmetry
INVARIANT LeaksComplete
PROPERTY FailureAtomic
PROPERTY OwnershipAgrees
