SPECIFICATION Spec
CONSTANTS
  MaxCommit = 2
  MaxRuns = 2
  MaxUnseen = 0
INVARIANT NoStaleWrapper
CHECK_DEADLOCK FALSE
