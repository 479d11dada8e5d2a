SPECIFICATION PartSpec
CONSTANTS
  None = None
  a1 = a1  a2 = a2  b1 = b1  alice = alice  bob = bob  i1 = i1  i2 = i2
  User = {alice, bob}
  Client = {a1, a2, b1}
  UserOf <- MCUserOf
  Instance = {i1, i2}
  Home <- MCHome
  MaxClaims = 2
  PresenceTtl = 2
  PageTtl = 2
  ClaimTtls = {1, 2, 5}
  SetFloor = 4
  Loads <- AllLoads
  c1 = c1  c2 = c2
  Call = {c1, c2}
  Node = {i1, i2}
  NodeOf <- MCNodeOf
  Allowed <- MCAllowed
  Patience <- MCPatience
  MaxHere = 1
  Mixes <- MCMixes
  Arrivals = 3
  Upsets = 1
INVARIANTS ShownIsRecent LiveClaimsListed SlotsHold WindowsHold
CHECK_DEADLOCK FALSE
