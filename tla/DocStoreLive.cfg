SPECIFICATION FairSpec
CONSTANTS
  u1 = u1  u2 = u2  u3 = u3  p1 = p1  p2 = p2  p3 = p3  i1 = i1  i2 = i2
  Update = {u1, u2}
  Instance = {i1, i2}
  Proc = {p1, p2}
  Home <- MCHome
  Keep = 1
  SnapEvery = 1
  Hot = 1
  SnapKeep = 1
  BatchSize = 2
  Ops <- LiveOps
  Quota = 3
  None = None
  Bad = Bad
PROPERTY LockFreed CachesConverge
CHECK_DEADLOCK FALSE
