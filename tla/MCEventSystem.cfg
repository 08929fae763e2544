SPECIFICATION Spec
CONSTANTS
  Client = {p1, p2}
  Remote = remote
  Name = {call}
  Calls <- AllCalls
SYMMETRY Symmetry
INVARIANTS
  TypeOK
  NoLostWakeup
  OneAnswer
  HeldStateIsSet
  EventIsNeeded
  MasterKnows
PROPERTIES
  GrantIsKept
  ImplementsGates
