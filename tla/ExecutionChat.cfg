SPECIFICATION Spec
CONSTANTS
  Exec = {e1, e2}
  File = {f1}
  UserFile = {f1}
  OutputFile = {f1}
  NoFile = NoFile
  User = User
  MaxFaults = 2
  MaxLeaving = 0
  MaxCrashes = 0
SYMMETRY Symmetry
INVARIANTS
  ReportedIsStored
PROPERTIES
  NeverReverts
CHECK_DEADLOCK FALSE
