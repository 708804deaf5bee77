SPECIFICATION FairSpec
CONSTANTS
  Exec = {e1}
  File = {f1, f2}
  UserFile = {f1, f2}
  OutputFile = {f1}
  NoFile = NoFile
  User = User
  MaxFaults = 2
  MaxLeaving = 1
  MaxCrashes = 1
INVARIANTS
  TypeOK
  ReplyMatchesRow
  AnsweredHasEnded
  InputsArrive
  NewFilesSynced
PROPERTIES
  KeepsLife
  RowEnds
CHECK_DEADLOCK FALSE
