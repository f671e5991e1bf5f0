SPECIFICATION FairSpec
CONSTANTS
  Request = {g1, g2, p1, p2}
  Patch = {p1, p2}
  NoRequest = NoRequest
  MaxWrites = 1
  MaxGone = 1
INVARIANT TypeOK
INVARIANT NeverStale
PROPERTY RegisteredAnswered
CHECK_DEADLOCK FALSE
