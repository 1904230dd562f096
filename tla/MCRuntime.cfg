CONSTANTS
  Undefined = Undefined
  NaN = NaN
  Infinity = Infinity
  Native = Native
  otel = otel
  spy = spy
  TERM = TERM
  Requests <- MCRequests
  Patches <- MCPatches
  Signals <- MCSignals
  MaxInits = 2
  MaxLogs = 2
  MaxDepth = 2
SPECIFICATION Spec
INVARIANTS
  OneCapture
  ConsoleUnwinds
  LostOnlyReentrant
CHECK_DEADLOCK FALSE
