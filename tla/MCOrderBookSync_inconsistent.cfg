SPECIFICATION Spec
CONSTANTS
  Depth = 2
  Prices = {1, 2}
  Quantities = {0, 1}
  RingLength = 2
  MaxStale = 1
  MaxChanges = 3
  MaxLost = 0
  MaxRestarts = 0
INVARIANTS
  BookConsistent
CHECK_DEADLOCK FALSE
