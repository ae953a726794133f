SPECIFICATION FairSpec
CONSTANTS
  BufferLength = 4
  MaxWrites = 8
  MaxCrashes = 1
  Callers = {"trader", "executor", "observer"}
INVARIANTS
  FifoWhileEnabled
  UnreadIntact
  NoConcurrentCopy
  IInv
PROPERTIES
  IsLossyChannel
  Delivered
  Reenabled
CHECK_DEADLOCK FALSE
