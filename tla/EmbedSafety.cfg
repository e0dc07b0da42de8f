SPECIFICATION Spec
CONSTANTS
  Inst = {p1, p2}
  Fd = {0, 1, 2, 3, 4}
  NoFd = NoFd
  OwnedArgs = {"fd", "broken"}
  Cancellable = {p1, p2}
SYMMETRY InstSymmetry
INVARIANTS
  TypeOK
  ConfOutlivesTor
  OneTorAtATime
  NoDescriptorLeak
  ControlConnServed
CHECK_DEADLOCK FALSE
