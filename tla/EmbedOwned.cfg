SPECIFICATION Spec
CONSTANTS
  Inst = {p1, p2}
  Fd = {0, 1, 2, 3}
  NoFd = NoFd
  OwnedArgs = {"fd"}
  Cancellable = {p1}
PROPERTY FreeClosesOwnSocket
CHECK_DEADLOCK FALSE
