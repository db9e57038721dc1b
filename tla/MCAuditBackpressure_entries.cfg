SPECIFICATION MCSpec
CONSTANTS
  e1 = e1
  e2 = e2
  e3 = e3
  e4 = e4
  Entries <- FourEntries
  MaxWrites = 1
  MaxQueue = 2
CHECK_DEADLOCK FALSE
INVARIANTS
  NoIdleSlot
  AuditedAtMostOnce
  GapsAreCounted
PROPERTIES
  ServedInOrder
  PoolSpec
  EveryEntryEnds
