SPECIFICATION Spec
CONSTANTS
  Sandbox = {s1}
  Exec = {e1, e2}
  NoExec = NoExec
  NoSandbox = NoSandbox
  MinWarm = 1
  MaxWarm = 0
  ScaleDownThreshold = 0
  MaxAttempts = 1
  HealthBatch = 1
  Faults = {"daytona", "db", "deadline", "cancel"}
  MaxOutages = 1
  MaxCrashes = 1
  MaxSpawned = 1
  MaxDeleters = 2
SYMMETRY Symmetry
INVARIANTS
  HolderOwns
  NeverReused
  BusyIsOwned
  DeletedIsGone
  StartupCleans
PROPERTIES
  ReconcileTracks
  SingleUse
