SPECIFICATION FairSpec
CONSTANTS
  Ids = {a, b}
  a = a
  b = b
  Commands = {"run", "complete", "pause", "resume", "cancel", "canceliferror", "timeout", "blocktimeout", "create", "call", "delete", "allocate", "wait", "remote"}
  Expected = {"passed", "failed"}
  MaxLines = 4
  MaxRecords = 2
  None = None
INVARIANTS TypeOK NoTestLeft TrueVerdict
PROPERTIES CompleteWaits ScriptEnds
CHECK_DEADLOCK FALSE
