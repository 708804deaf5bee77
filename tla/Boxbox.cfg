SPECIFICATION FairBoxSpec
CONSTANTS
  Request = {r1, r2}
  MaxConcurrent = 1
  Sandbox = {s1, s2}
  NoRequest = NoRequest
  Worker = {w1, w2}
INVARIANTS
  BoxTypeOK
  SlotsMatch
  MetricsMatch
  LateRefused
  SlotsBoundLeases
  GracefulIsClean
  WorkersStopped
  NobodyLeftWaiting
PROPERTIES
  BoundedSlots
  ShutdownEnds
CHECK_DEADLOCK FALSE
