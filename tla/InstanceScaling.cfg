SPECIFICATION Spec
CONSTANTS
  Slots = {i1, i2}
  Concurrencies = {2}
  MaxReqs = 2
  MaxDemand = 1
  MaxEvents = 3
SYMMETRY Symmetry
INVARIANTS
  TypeOK
  PendingCovers
  WorkerAwake
  FlagFollowsLoop
CHECK_DEADLOCK FALSE
