SPECIFICATION Spec
CONSTANTS
  Runs = {A}
  Owners = {t, u}
  NoRun = none
  Numbers <- OneAndTwo
  InitialCapacity = 1
  MaxRecords = 2
SYMMETRY Symmetry
INVARIANT AdmittedSound
INVARIANT CleanAdmitted
INVARIANT GatesAgree
CHECK_DEADLOCK FALSE
