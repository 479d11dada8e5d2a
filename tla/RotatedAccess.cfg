SPECIFICATION SignInSpec
CONSTANTS
  p1 = p1  p2 = p2
  Proc = {p1}
  Sessions = 2
  Span = 3
  R = 2  Short = 1  Long = 2
  Starts <- NewStart
  Form = {p1}
  Absent = 0
  Ip = {1}
  Limit = 2
  Word = {1}
  Token = {}
  Breaks = 0
INVARIANT AccessAccepted
CHECK_DEADLOCK FALSE
