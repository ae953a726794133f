SPECIFICATION Spec
CONSTANTS
  TraderCount = 2
  Threshold = 2
  FeederDelay = 3
  TraderDelay = 3
  ExecutorDelay = 1
INVARIANTS
  IInv
  FormerRunsAreDead
  UpInTime
PROPERTIES
  ComesUp
