SPECIFICATION RoomSpec
CONSTANTS
  m1 = m1  h1 = h1  c1 = c1  c2 = c2  c3 = c3  c4 = c4
  u1 = u1  u2 = u2  u3 = u3  i1 = i1  i2 = i2  f1 = f1
  Msg = {m1}
  Handler = {h1}
  Carries <- CarriesM1
  From <- SentFrom
  Seqno <- MCSeqno
  Socket = {c1, c2, c3, c4}
  User = {u1, u2}
  UserOf <- MCUserOf
  Instance = {i1, i2}
  On <- TwoRooms
  Flusher = {f1}
  Runs <- RunsOnI1
  QueueCap = 1
  Faults <- RoomFaults
  Quota = 1
  None = None
  Capacity = 2
  Present = {c1}
INVARIANTS RoomWithinCapacity SettledIsSubscribed JoinedCatchesUp
SYMMETRY Tabs
CHECK_DEADLOCK FALSE
