SPECIFICATION FairSpec
CONSTANTS
  Inst = {p1, p2}
  Fd = {0, 1, 2, 3}
  NoFd = NoFd
  OwnedArgs = {"fd"}
  Cancellable = {}
PROPERTIES
  LostControllerEndsTor
  CleanupCompletes
  WaitReturns
  KeepsContract
CHECK_DEADLOCK FALSE
