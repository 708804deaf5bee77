SPECIFICATION FairSpec
CONSTANTS
  Sandbox = {s1}
  Exec = {e1}
  NoExec = NoExec
  NoSandbox = NoSandbox
  MinWarm = 1
  MaxWarm = 0
  ScaleDownThreshold = 0
  MaxAttempts = 1
  HealthBatch = 0
  Faults = {"daytona", "db", "deadline", "cancel"}
  MaxOutages = 1
  MaxCrashes = 1
  MaxSpawned = 1
  MaxDeleters = 1
PROPERTIES
  UsedIsDestroyed
  RowSettles
