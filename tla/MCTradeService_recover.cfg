CONSTANTS
  Orders = {}
  MaxWsFaults = 2
  MaxHttpFaults = 0
  MaxBeats = 1
  MaxSync = 1
SPECIFICATION FairSpec
INVARIANTS TypeOK StaleRepliesIgnored OneSessionPerError
PROPERTY Recovers
CHECK_DEADLOCK FALSE
