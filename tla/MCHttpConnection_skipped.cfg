CONSTANTS
  Segs = 2
  Reqs = {r1}
  MaxSends = 3
SPECIFICATION Spec
INVARIANTS NoResponseSkipped
CHECK_DEADLOCK FALSE
