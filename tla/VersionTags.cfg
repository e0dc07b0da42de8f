SPECIFICATION Spec
CONSTANTS
  Part = {0, 1}
  MaxParts = 3
  Label = {"", "rc", "beta", "snapshot"}
  MaxTags = 3
INVARIANTS
  TypeOK
  BestSeen
CHECK_DEADLOCK FALSE
