SPECIFICATION Spec
CONSTANTS
  Runs = {A, B}
  Owners = {t, u}
  NoRun = none
  Numbers <- UpToTwo
  InitialCapacity = 1
  MaxRecords = 3
SYMMETRY Symmetry
INVARIANT TypeOK
INVARIANT CompleteIsSound
INVARIANT CountersExplain
INVARIANT CleanIsComplete
INVARIANT PendingIsLatest
CHECK_DEADLOCK FALSE
