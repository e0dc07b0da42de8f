SPECIFICATION Spec
CONSTANTS
  Inst = {p1, p2}
  Fd = {0, 1, 2}
  NoFd = NoFd
  OwnedArgs = {"fd"}
  Cancellable = {p1}
INVARIANT WaitMeansTerminated
CHECK_DEADLOCK FALSE
