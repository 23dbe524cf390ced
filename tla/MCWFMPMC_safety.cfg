CONSTANTS
  SIZE = 2
  THR_SIZE = 2
  Threads <- MCThreads
  Values = {v1, v2}
  Raw = Raw
  MaxIdx = 3
SPECIFICATION CrewSpec
INVARIANTS TypeOK NoDataRace WritableIsRaw DestructorExact NoTicketLost WaitsForPartner OneEntryPerThread TurnedAwayOnlyWhenFull
PROPERTY ImplementsTicketQueue
CHECK_DEADLOCK FALSE
