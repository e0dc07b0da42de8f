SPECIFICATION Spec
CONSTANTS
  Worker = {w1, w2}
  Tid = {t1, t2, t3}
  NoTid = NoTid
  Runs = 2
  MaxWork = 2
INVARIANT FreedAfterExit
CHECK_DEADLOCK FALSE
