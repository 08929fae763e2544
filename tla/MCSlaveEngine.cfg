SPECIFICATION FairSpec
CONSTANTS
  Here = {h1, h2}
  Refused = {r1}
  Silent = {s1}
  MaxRuns = 4
  ShortCases = FALSE
  Hasty = FALSE
  h1 = h1
  h2 = h2
  r1 = r1
  s1 = s1
INVARIANT TypeOK
PROPERTY ImplementsSession
CHECK_DEADLOCK FALSE
