SPECIFICATION FairSpec
CONSTANTS
  MaxRuns = 2
  QueueBound = 2
  Commands = {"pause", "resume"}
  ForkMayFail = FALSE
  SleepsSuffice = TRUE
PROPERTY EveryRunReported
CHECK_DEADLOCK FALSE
