CONSTANTS
  c1 = c1
  background = background
  drain = drain
  Callers <- MCCallers
  Background = background
  Shutdown = drain
  MaxSize = 2
  MaxConcurrent = 1
  MaxPending = 2
  MaxLogs = 4
SPECIFICATION Spec
PROPERTIES
  ImplementsDelivery
  DestroyEnds
  FlushReturns
  EntriesSettle
CHECK_DEADLOCK FALSE
