SPECIFICATION Spec
CONSTANTS
  Runs = {A, B}
  Pids = {p}
  Contexts <- OneContext
  Names = {f, g}
  Sites = {s}
  Objects = {o}
  None = none
  Kinds = {"ENTER", "EXIT", "ACQUIRE", "REPLACE", "COMPLETE"}
  PidReuse = FALSE
  MaxNodes = 5
  MaxSeq = 5
SYMMETRY Symmetry
INVARIANT TypeOK
INVARIANT FinishExact
INVARIANT CallTreeExact
INVARIANT ReturnsOnce
INVARIANT LifetimesDisjoint
INVARIANT ModelOfOneRun
CHECK_DEADLOCK FALSE
