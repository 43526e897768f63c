SPECIFICATION Spec
CONSTANTS
  Threads = {s, t, u}
  Mutexes = {a, b, d}
  Conditions = {c}
  None = none
  MaxRecords = 7
SYMMETRY Symmetry
INVARIANT LockOrderExact
INVARIANT DeadlockExact
INVARIANT MisuseExact
INVARIANT ArraysFit
CHECK_DEADLOCK FALSE
