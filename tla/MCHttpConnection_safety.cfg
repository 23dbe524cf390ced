CONSTANTS
  Segs = 2
  Reqs = {r1, r2}
  MaxSends = 3
SPECIFICATION Spec
INVARIANTS TypeOK SentInOrder NoStall SilentOnlyIfRefused NoneSkippedIfWaited
CHECK_DEADLOCK FALSE
