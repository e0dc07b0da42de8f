SPECIFICATION Spec
CONSTANTS
  MaxCommit = 2
  MaxRuns = 2
  MaxUnseen = 1
INVARIANTS
  TypeOK
  Consistent
PROPERTIES
  LockFollowsTree
  TorPinned
CHECK_DEADLOCK FALSE
