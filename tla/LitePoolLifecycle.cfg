SPECIFICATION Spec
CONSTANTS
  Instances = {i1}
  Sessions = {s1}
  NoSession = NoSession
  NoInstance = NoInstance
  NoLease = NoLease
  Stale = Stale
  Requests = {t1}
  Reaper = reaper
  Capacity = 2
  Concurrencies = {2}
  MaxSeq = 2
  MaxPools = 2
  MaxReady = 1
  Removable = {i1}
  Overflows = {s1}
  ZeroTTL = {}
  SessionCtx = FALSE
  AcquireWait = TRUE
  Retains = TRUE
  Reacquire = TRUE
SYMMETRY Symmetry
INVARIANTS
  TypeOK
  BindingOnLiveInstance
  LeaseOnLiveInstance
CHECK_DEADLOCK FALSE
