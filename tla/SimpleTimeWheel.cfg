SPECIFICATION FairSpec
CONSTANTS
  Tasks = {t1, t2}
  NoTask = NoTask
  Fired = Fired
  SlotNum = 2
  Intervals = {2, 3}
  Times = {1}
  ReadySize = 1
  Overlap = FALSE
INVARIANTS
  TypeOK
  OneSlot
  NeverLate
PROPERTIES
  NeverEarly
  StopReturns
CHECK_DEADLOCK FALSE
