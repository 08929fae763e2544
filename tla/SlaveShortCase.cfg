SPECIFICATION Spec
CONSTANTS
  Here = {h1, h2}
  Refused = {r1}
  Silent = {s1}
  MaxRuns = 4
  ShortCases = TRUE
  Hasty = FALSE
  h1 = h1
  h2 = h2
  r1 = r1
  s1 = s1
INVARIANT ResultHasRun
CHECK_DEADLOCK FALSE
