SPECIFICATION Spec
CONSTANTS
  u1 = u1  u2 = u2  u3 = u3  p1 = p1  p2 = p2  p3 = p3  i1 = i1  i2 = i2
  Update = {u1, u2}
  Instance = {i1, i2}
  Proc = {p1, p2}
  Home <- MCHome
  Keep = 2
  SnapEvery = 2
  Hot = 2
  SnapKeep = 1
  BatchSize = 2
  Ops <- WriteOps
  Quota = 2
  None = None
  Bad = Bad
INVARIANT LoggedIsStored
CHECK_DEADLOCK FALSE
