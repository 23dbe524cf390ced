CONSTANTS
  SIZE = 2
  Readers = {r1}
  MaxPushes = 4
SPECIFICATION RingsSpec
INVARIANTS TypeOK NoSharedBlock PopReturnsElement RecentReadsWhole
CHECK_DEADLOCK FALSE
