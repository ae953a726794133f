SPECIFICATION Spec
CONSTANTS
  Prices = {1, 2, 3}
  DepthLevels = 1
  UintMax = 59
  Messages <- MCMessages
  Snapshots <- MCSnapshots
  WindowUs = 1
  MaxClock = 3
  MaxMessages = 3
INVARIANT PartsAddUp
PROPERTIES
  OnlyOnNews
  OrdersAsDocumented
  EventsDecided
CHECK_DEADLOCK FALSE
