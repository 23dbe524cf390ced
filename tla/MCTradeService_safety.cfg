CONSTANTS
  Orders = {o1}
  MaxWsFaults = 1
  MaxHttpFaults = 2
  MaxBeats = 2
  MaxSync = 1
SPECIFICATION SliceSpec
INVARIANTS AuthFirst ContextKeepsRunning OrderSentOnce OrderNotForgotten
CHECK_DEADLOCK FALSE
