SPECIFICATION FairSpec
CONSTANTS
  Job = {j1, j2, j3}
  Worker = {w1, w2}
  Fatal = {j1}
  MaxGen = 2
  Prio = {0, 2}
  NoJob = NoJob
  NoArg = NoArg
INVARIANTS
  TypeOK
  NoLostReply
  SleepersNotNeeded
  UpdatesNotLost
  RestIsDone
PROPERTIES
  KeepsPromise
  EveryJobSettles
  UpdatesArrive
CHECK_DEADLOCK FALSE
