CONSTANTS
  a = a
  b = b
  c = c
  Broken = Broken
  NoKey = NoKey
  Unbounded = Unbounded
  Chars <- MCChars
  Options <- MCOptions
  Records <- MCRecords
  InputPerRule = 2
  InputPerRecord = 7
  ValuesPerRecord = 4
  WorkPerRecord = 40
  RuleCallsPerRecord = 9
  ExpandedPerRule = 8
  ExpandedTotal = 9
  NarrowClass = 2
  RequiredItems = 2
  EntryLimit = 1
SPECIFICATION Spec
INVARIANT
  NothingSensitiveShown
CHECK_DEADLOCK FALSE
