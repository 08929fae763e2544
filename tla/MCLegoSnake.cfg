SPECIFICATION FairSpec
CONSTANTS
  MaxLines = 7
  Times = {2, 3}
  AnyScript = FALSE
INVARIANTS
  TypeOK
  FreedOnce
PROPERTIES
  ImplementsMeaning
  ScriptEnds
CHECK_DEADLOCK FALSE
