SPECIFICATION FairSpec
CONSTANTS
  t1 = t1  t2 = t2  e1 = e1  e2 = e2 
  Tab = {t1, t2}
  Edit = {e1}
  Realtime = {t1, t2}
  Quota = 1
INVARIANT HeldUnlessDropped
PROPERTIES EditSyncs TabsSettle
CHECK_DEADLOCK FALSE
