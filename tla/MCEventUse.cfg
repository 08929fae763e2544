SPECIFICATION USpec
CONSTANTS
  Client = {p1, p2, p3}
  Remote = remote
  Name = {call}
  Calls <- StateCalls
  Scripts <- SampleScripts
PROPERTIES
  UnsetReturns
  SetReleasesWaiters
CHECK_DEADLOCK FALSE
