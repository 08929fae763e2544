SPECIFICATION FairSpec
CONSTANTS
  MaxRuns = 2
  QueueBound = 2
  Commands = {"pause", "resume", "stop", "end"}
  ForkMayFail = TRUE
  SleepsSuffice = TRUE
INVARIANTS
  TypeOK
  TrueReport
  NoOrphan
PROPERTIES
  ImplementsRunService
  ForkedReported
CHECK_DEADLOCK FALSE
