SPECIFICATION FairSpec
CONSTANTS
  None = None
  u1 = u1  u2 = u2  sidebar = sidebar  page = page  f1 = f1  f2 = f2
  User = {u1, u2}
  Reader = {u1, u2}
  View = {sidebar, page}
  Side = {sidebar}
  Fetch = {f1, f2}
  MaxComments = 3
  MaxPriority = 1
  Figures = {0, 2}
  Loads <- AllLoads
INVARIANTS CountsKept AnnouncedIsStored
PROPERTIES GoneForGood Settles
CHECK_DEADLOCK FALSE
