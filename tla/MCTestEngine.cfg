SPECIFICATION FairSpec
CONSTANTS
  m1 = m1
  m2 = m2
  m3 = m3
  a1 = a1
  a2 = a2
  b = b
  t1 = t1
  t2 = t2
  Module <- Modules
  Case <- Cases
  ModuleOf <- Owner
  Listing <- Cfgs
  Temp = {t1, t2}
  Plugins = {"cli", "console"}
  Orders <- UserOrders
  MaxRuns = 3
  MaxTemps = 2
  Overlap = FALSE
  Reuse = FALSE
INVARIANTS
  TypeOK
  ResultIsOwn
  OneAtATime
PROPERTY EveryCaseReported
CHECK_DEADLOCK FALSE
