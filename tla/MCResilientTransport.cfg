CONSTANTS
  s1 = s1
  s2 = s2
  Sends <- MCSends
  MaxRetries = 1
  Budget = 3
  Backoffs <- MCBackoffs
  Floors <- MCFloors
  Never = 5
  Lag = 1
  Size = 1
  HasDlq = TRUE
SPECIFICATION Spec
INVARIANTS
  TypeOK
  NoHopelessSleep
  BatchesAccounted
PROPERTIES
  FloorRespected
  EverySendEnds
