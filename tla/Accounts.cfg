SPECIFICATION SignInSpec
CONSTANTS
  p1 = p1  p2 = p2
  Proc = {p1, p2}
  Sessions = 2
  Span = 2
  R = 2  Short = 1  Long = 2
  Starts <- AllStarts
  Form = {p1, p2}
  Absent = 0
  Ip = {1, 2}
  Limit = 1
  Word = {1, 2}
  Token = {1}
  Breaks = 1
INVARIANTS CurrentUsable OpenVerifies ListingTrue LoggedOutIsClosed LocksAgree UsedIsSpent
PROPERTY LivesOnce
SYMMETRY Alike
CHECK_DEADLOCK FALSE
