SPECIFICATION Spec
CONSTANTS
  BufferLength = 2
  MaxWrites = 6
  MaxCrashes = 0
  Callers = {"executor"}
INVARIANT SuccessIsWhole
CHECK_DEADLOCK FALSE
