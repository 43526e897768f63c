SPECIFICATION AnalysisSpec
CONSTANTS
  Runs = {A}
  Pids = {p, q}
  Contexts <- OneContext
  Names = {f, g}
  Sites = {s}
  Objects = {o}
  None = none
  Kinds = {"ENTER", "EXIT", "FORK"}
  PidReuse = TRUE
  MaxNodes = 4
  MaxSeq = 3
SYMMETRY Symmetry
INVARIANT OrderExact
INVARIANT TroubleExact
INVARIANT TraceExact
INVARIANT OverflowOnlyBare
PROPERTY PlacesLeast
CHECK_DEADLOCK FALSE
