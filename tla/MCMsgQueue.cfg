SPECIFICATION FairSpec
CONSTANTS
  engine = engine
  tmc = tmc
  tp = tp
  Process <- System
  Links <- ReportLinks
  Waiters = {tp}
  Blockers = {tp}
  Mortal = {tmc, tp}
  Size = {1, 2}
  Capacity = 2
  MaxSends <- Reports
INVARIANTS
  TypeOK
  ExactlyOnce
  OnlyBufferedOvertaken
PROPERTY WaitersDeliver
CHECK_DEADLOCK FALSE
