SPECIFICATION FairSpec
CONSTANTS
  r1 = r1
  r2 = r2
  r3 = r3
  u1 = u1
  u2 = u2
  UserID <- MCUserID
  User = {u1, u2}
  Request = {r1, r2, r3}
  Limiter = {l1, l2, l3, l4, l5}
  NoLimiter = NoLimiter
  Burst = 2
  MaxStray = 0
INVARIANTS
  TypeOK
  NoSecondBurst
PROPERTIES
  NoWrongRefusal
  InactiveForgotten
