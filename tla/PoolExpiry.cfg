SPECIFICATION FairSpec
CONSTANTS
  Sandbox = {s1}
  Exec = {e1}
  NoExec = NoExec
  NoSandbox = NoSandbox
  MinWarm = 1
  MaxWarm = 1
  ScaleDownThreshold = 1
  MaxAttempts = 1
  HealthBatch = 0
  Faults = {"deadline"}
  MaxOutages = 1
  MaxCrashes = 0
  MaxSpawned = 1
  MaxDeleters = 1
PROPERTIES
  DestroyedAfterUse
