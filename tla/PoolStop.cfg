SPECIFICATION FairSpec
CONSTANTS
  Worker = {w1, w2}
  Tid = {t1, t2}
  NoTid = NoTid
  Runs = 1
  MaxWork = 1
PROPERTY StopCompletes
CHECK_DEADLOCK FALSE
