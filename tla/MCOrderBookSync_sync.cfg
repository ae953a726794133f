SPECIFICATION Spec
CONSTANTS
  Depth = 2
  Prices = {1, 2}
  Quantities = {0, 1}
  RingLength = 2
  MaxStale = 1
  MaxChanges = 3
  MaxLost = 1
  MaxRestarts = 1
INVARIANTS
  ConsistentButForMissed
  CaughtUp
PROPERTIES
  SnapshotOnlyForGap
CHECK_DEADLOCK FALSE
