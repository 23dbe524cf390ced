CONSTANTS
  Msgs = {m1, m2}
  MaxSends = 4
SPECIFICATION FairSpec
INVARIANTS TypeOK OneOperationEach BufferOutlivesWrite SentInOrder NoStall NoSilentDeath
PROPERTY EverythingSent
CHECK_DEADLOCK FALSE
