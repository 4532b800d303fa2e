SPECIFICATION FairSpec
CONSTANTS
  Instances = {i1, i2}
  Sessions = {s1, s2}
  NoSession = NoSession
  NoInstance = NoInstance
  NoLease = NoLease
  Stale = Stale
  Requests = {t1, t2}
  Reaper = reaper
  Capacity = 2
  Concurrencies = {1, 2}
  MaxSeq = 2
  MaxPools = 1
  MaxReady = 1
  Removable = {i1}
  Overflows = {s1}
  ZeroTTL = {}
  SessionCtx = FALSE
  AcquireWait = TRUE
  Retains = FALSE
  Reacquire = FALSE
INVARIANTS
  InUseCoversHeld
  StoreFollowsBinding
PROPERTIES
  IdleSessionUnbinds
  LeaseExpires
CHECK_DEADLOCK FALSE
