SPECIFICATION FairSpec
CONSTANTS
  Roles = {"trader", "executor", "observer"}
  Threshold = 2
  Capacity = 1
  Punctual = TRUE
  MaxCreations = 2
  MaxWrites = 2
  MaxCrashes = 1
INVARIANTS
  IInv
  NeverForeign
  ReadsConstructed
  SkippedExcused
PROPERTIES
  OrphanLetGo
  Reattached
CHECK_DEADLOCK FALSE
