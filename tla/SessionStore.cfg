SPECIFICATION FairSpec
CONSTANTS
  Keys = {k1, k2}
  Values = {v1}
  NoRecord = NoRecord
  Unknown = Unknown
  Getters = {t1, t2}
  QueueSize = 1
  MaxOps = 2
  Failures = {k2}
  Timeouts = {k2}
INVARIANTS
  TypeOK
  NoOrphanOp
  CleanedStaysClean
  SingleRead
PROPERTIES
  RefinesRecords
  StopReturns
  LookupReturns
CHECK_DEADLOCK FALSE
