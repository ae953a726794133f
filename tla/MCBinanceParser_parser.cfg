SPECIFICATION ParserSpec
CONSTANTS
  UintMax = 255
  PriceShift = 1
  QuantityShift = 2
  Symbols <- Known
  Row0Cap = 4
  MaxLevels = 2
  BookDepth = 2
  Messages <- AllMessages
  FirstMessages <- Leaving
  MaxMessages = 2
INVARIANTS DepthAsSent TradeAsSent SnapshotAsSent
CHECK_DEADLOCK FALSE
