SPECIFICATION Spec
CONSTANTS
  Exec = {e1}
  File = {f1}
  UserFile = {f1}
  OutputFile = {f1}
  NoFile = NoFile
  User = User
  MaxFaults = 0
  MaxLeaving = 0
  MaxCrashes = 0
INVARIANTS
  ExitCodeTells
CHECK_DEADLOCK FALSE
