CONSTANTS
  MaxSize = 2
  MaxBytes = 3
  Bytes <- MCBytes
  MaxEntry = 6
  MaxCrashes = 2
  MaxUnlinks = 2
  EarlierFiles <- MCEarlierFiles
  Absent = Absent
  None = None
SPECIFICATION Spec
INVARIANTS
  TypeOK
  FileIsQueue
PROPERTY
  KeepsNewest
CHECK_DEADLOCK FALSE
