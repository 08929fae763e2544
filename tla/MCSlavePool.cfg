SPECIFICATION FairSpec
CONSTANTS
  NSlaves = 2
  Tests = {t1, t2, t3}
  Nobody = Nobody
  MaxAllocs = 3
  MaxRuns = 2
  MaxAsks = 4
  OneName = FALSE
  Impatient = {t1, t2}
INVARIANTS
  TypeOK
  OwnCommands
  NoRunOverlooked
PROPERTIES
  ImplementsLease
  EveryRequestAnswered
  EveryRunReported
CHECK_DEADLOCK FALSE
