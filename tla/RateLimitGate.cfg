SPECIFICATION FairSpec
CONSTANTS
  Control = {c1, c2}
  Toolbox = {t1}
  MaxRetries = 2
  MaxWait = 2
  DefaultWait = 3
INVARIANTS
  TypeOK
  
PROPERTIES
  LimitKept
  GateDrains
  CallReturns
  GateReopens
