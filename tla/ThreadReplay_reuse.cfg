SPECIFICATION Spec
CONSTANTS
  Threads = {s, t}
  Mutexes = {a}
  Conditions = {c}
  None = none
  MaxRecords = 8
SYMMETRY Symmetry
INVARIANT TerminalOnce
CHECK_DEADLOCK FALSE
