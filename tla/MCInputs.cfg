CONSTANTS
  Undefined = Undefined
  NaN = NaN
  Infinity = Infinity
  Native = Native
  otel = otel
  spy = spy
  TERM = TERM
  Requests <- ConfigurationRequests
  Patches <- NoPatches
  Signals <- NoPatches
  MaxInits = 1
  MaxLogs = 0
  MaxDepth = 0
  TicksPerSecond = 1
  TicksPerDay = 3
  MaxSafe = 1000000
  Headers <- MCHeaders
SPECIFICATION InputsSpec
INVARIANTS
  SettingsUsable
  AsksHonoured
CHECK_DEADLOCK FALSE
