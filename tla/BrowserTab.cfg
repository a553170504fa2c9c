SPECIFICATION TabSpec
CONSTANTS
  Parts = {"list", "session"}
  N = 2
  Limit = 1
  Visited = {1}
  MaxRequests = 3
  Starts <- TabStarts
  None = None
  Nobody = Nobody
  a = a
  b = b
  c1 = c1
  c2 = c2
  Accounts = {a, b}
  Calls = {c1, c2}
SYMMETRY TabSymmetry
INVARIANTS ListIsTrue LogoutHolds OwnerIsShown
PROPERTIES EndedStaysEnded OnlyDeadExpire
CHECK_DEADLOCK FALSE
