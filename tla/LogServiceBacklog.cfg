CONSTANTS
  c1 = c1
  background = background
  drain = drain
  Callers <- MCCallers
  Background = background
  Shutdown = drain
  MaxSize = 2
  MaxConcurrent = 1
  MaxPending = 2
  MaxLogs = 4
SPECIFICATION Spec
INVARIANTS
  BacklogDropsCounted
CHECK_DEADLOCK FALSE
