SPECIFICATION Spec
CONSTANTS
  TraderCount = 1
  Threshold = 2
  FeederDelay = 3
  TraderDelay = 3
  ExecutorDelay = 1
PROPERTIES
  ExecutorComesUp
