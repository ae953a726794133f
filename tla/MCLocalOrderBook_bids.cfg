SPECIFICATION Spec
CONSTANTS
  Depth = 3
  Ascending = FALSE
  Prices = {1, 2, 3, 4, 5}
  Quantities = {0, 1, 2}
  MaxUpdates = 5
INVARIANTS
  SortedAsTold
  MissingWereCrowdedOut
CHECK_DEADLOCK FALSE
