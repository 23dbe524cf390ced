CONSTANTS
  Orders = {}
  MaxWsFaults = 0
  MaxHttpFaults = 0
  MaxBeats = 1
  MaxSync = 0
SPECIFICATION Spec
INVARIANT AuthAcceptedIsAuth
CHECK_DEADLOCK FALSE
