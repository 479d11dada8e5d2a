SPECIFICATION FairSpec
CONSTANTS
  p1 = p1  p2 = p2  d1 = d1  d2 = d2  d3 = d3  u1 = u1  t1 = t1
  Proc = {p1, p2}
  Doc = {d1, d2, d3}
  User = {u1}
  Link = {t1}
  OwnerOf <- MCOwnerOf
  MaxDocs = 1
  Changes = 1
  Mixes <- AllMixes
INVARIANTS WithinLimit ListingAgrees GrantedWasEntitled GuardsAgree
PROPERTIES ContentKept OrphansGo
CHECK_DEADLOCK FALSE
