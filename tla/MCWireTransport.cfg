CONSTANTS
  w1 = w1
  w2 = w2
  t1 = t1
  t2 = t2
  t3 = t3
  t4 = t4
  s1 = s1
  s2 = s2
  s3 = s3
  Undefined = Undefined
  NoTask = NoTask
  Threads <- MCThreads
  Tasks <- MCTasks
  Uncloneable <- MCUncloneable
  MaxWorkersOption = 1
  MaxQueueOption = 1
  Sends <- MCSends
  Jobs <- MCJobs
  MaxAttempts = 2
SPECIFICATION WireSpec
INVARIANTS
  CapacityUsed
  SettledOnce
PROPERTIES
  EverySendSettles
  NothingSentOnceShut
CHECK_DEADLOCK FALSE
