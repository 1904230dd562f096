CONSTANTS
  MaxSize = 3
  MaxBytes = 5
  MaxAge = 2
  FlushInterval = 3
  Lag = 1
  Sizes <- MCSizes
  MaxAdds = 5
SPECIFICATION Spec
INVARIANTS
  TypeOK
  TrackedIsHeld
  WithinLimits
  PromptHandover
  SilentWhenDestroyed
PROPERTIES
  EventuallyHandedOver
  ImplementsLogBuffer
