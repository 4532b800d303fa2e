SPECIFICATION FairSpec
CONSTANTS
  Tasks = {t1}
  NoTask = NoTask
  Fired = Fired
  SlotNum = 2
  Intervals = {2}
  Times = {1}
  ReadySize = 1
  Overlap = FALSE
PROPERTIES
  FiresTimes
CHECK_DEADLOCK FALSE
