CONSTANTS
  Prices = {1, 2, 5}
  Qtys = {1}
  IntSpan = 4
  MaxMsgs = 3
  MaxFaults = 2
  MaxBeats = 3
SPECIFICATION SliceSpec
INVARIANT TradeSideReported
CHECK_DEADLOCK FALSE
