SPECIFICATION FairSpec
CONSTANTS
  Requests = {r1}
  Designated = {}
  Sessions = {}
  scaled = scaled
  reserve = reserve
  None = None
  maxQueueLen = 2
  CN = 1
  MaxEvents = 2
PROPERTY EveryRequestAnswered
CHECK_DEADLOCK FALSE
