SPECIFICATION FairSpec
CONSTANTS
  Worker = {w1, w2, w3}
  Tid = {t1, t2, t3}
  NoTid = NoTid
  Runs = 1
  MaxWork = 2
INVARIANTS
  TypeOK
  FreedAfterExit
  AllStarted
  StopNotStuck
PROPERTIES
  IdleStopCompletes
  ControlHeldToTheLast
CHECK_DEADLOCK FALSE
