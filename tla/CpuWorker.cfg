SPECIFICATION FairSpec
CONSTANTS
  Circ = {c1, c2, c3}
  MaxTasks = {1, 2}
  Room = 1
  Lives = 2
INVARIANTS
  TypeOK
  CountIsJobs
  CircuitOutlivesJob
  WaitingIsPending
  EntriesCounted
PROPERTIES
  IdleOnlyByClose
  LimitKept
  WaitingServed
  DeadFreed
CHECK_DEADLOCK FALSE
