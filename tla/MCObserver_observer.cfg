SPECIFICATION Spec
CONSTANTS
  LogRoutes = {"log"}
  Latency = "latency"
  BatchSize = 2
  Capacity <- MCCapacity
  MaxRuns = 1
  MaxWrites <- MCMaxWrites
  MaxCrashes = 1
  LeftSegments <- MCLeftSegments
INVARIANTS
  IInv
  BatchesWhole
  InOrderOnce
  Accounted
  HeaderUnlessCut
PROPERTIES
  LinesLostInCrash
  Drained
CHECK_DEADLOCK FALSE
