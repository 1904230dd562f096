CONSTANTS
  o1 = o1
  o2 = o2
  o3 = o3
  o4 = o4
  Ops <- MCOps
  FailureThreshold = 2
  HalfOpenRequests = 2
  ResetTimeout = 2
SPECIFICATION Spec
INVARIANTS
  TypeOK
  CountersFitState
  NoLeakedSlot
PROPERTIES
  HalfOpensAfterQuiet
  AlwaysAdmitsAgain
