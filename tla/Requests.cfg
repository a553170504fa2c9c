SPECIFICATION RequestsSpec
CONSTANTS
  Parts = {"admission", "accounts", "body"}
  None = None
  Nobody = Nobody
  NoDigest = NoDigest
  NoAccount = NoAccount
  Unknown = Unknown
  r1 = r1
  r2 = r2
  d1 = d1
  d2 = d2
  Requests = {r1, r2}
  Digests = {d1, d2}
  MaxFiles = 2
  MaxImages = 1
  Limit = 1
  Emails = {"a@example.org"}
  Usernames = {"a"}
  Passwords = {d1, d2}
  HandoffLife = 1
  StaleAfter = 2
  RequestLife = 1
  MaxTime = 3
  MaxId = 2
  MaxResets = 2
  Bodies <- SmallBodies
  Lengths = {0, 3, 4, 5}
  MaxBodySize = 4
SYMMETRY RequestSymmetry
INVARIANTS LimitHolds FilesFollowOutcome TokensAreTrue JudgedOnce
PROPERTY VerifiedStays
CHECK_DEADLOCK FALSE
