SPECIFICATION FairSpec
CONSTANTS
  Ids = {a}
  a = a
  Commands = {"run", "pause", "resume"}
  Expected = {"passed"}
  MaxLines = 3
  MaxRecords = 1
  None = None
PROPERTY ScripterGoesOn
CHECK_DEADLOCK FALSE
