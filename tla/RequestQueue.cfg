SPECIFICATION FairSpec
CONSTANTS
  Requests = {r1, r2, r3}
  Designated = {r3}
  Sessions = {r3}
  scaled = scaled
  reserve = reserve
  None = None
  maxQueueLen = 2
  CN = 2
  MaxEvents = 1
INVARIANTS
  OnePlaceEach
PROPERTY WakeServes
CHECK_DEADLOCK FALSE
