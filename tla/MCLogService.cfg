CONSTANTS
  c1 = c1
  c2 = c2
  background = background
  drain = drain
  Callers <- MCCallers
  Background = background
  Shutdown = drain
  MaxSize = 2
  MaxConcurrent = 2
  MaxPending = 1
  MaxLogs = 4
SYMMETRY MCSymmetry
SPECIFICATION Spec
INVARIANTS
  TypeOK
  SlotsInUse
  EveryEntryAccounted
  FlushIsBarrier
  ResolvesDrained
PROPERTIES
  NothingSentOnceClosing
CHECK_DEADLOCK FALSE
