SPECIFICATION Spec
CONSTANTS
  Capacity = 3
  WindowUs = 2
  Timestamps = {1, 3, 4}
  Quantities = {1, 2}
  MaxTrades = 5
INVARIANTS
  IInv
  DroppedWereOld
  KeptWereShielded
  VolumesAreExact
CHECK_DEADLOCK FALSE
