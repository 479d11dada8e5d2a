SPECIFICATION Spec
CONSTANTS
  m1 = m1  m2 = m2  h1 = h1  h2 = h2  h3 = h3  c1 = c1  c2 = c2
  u1 = u1  u2 = u2  u3 = u3  i1 = i1  i2 = i2  f1 = f1  f2 = f2  f3 = f3
  Msg = {m1, m2}
  Handler = {h1, h2, h3}
  Carries <- MCCarries
  From <- MCFrom
  Seqno <- MCSeqno
  Socket = {c1, c2}
  User = {u1, u3}
  UserOf <- SameUser
  Instance = {i1, i2}
  On <- MCOn
  Flusher = {f1, f2, f3}
  Runs <- MCRuns
  QueueCap = 1
  Faults <- AllFaults
  Quota = 2
  None = None
INVARIANTS SeenIsStored DeliveredOnce StoredOnce BatchHasTimer QueueBounded
SYMMETRY AnyFlush
CHECK_DEADLOCK FALSE
