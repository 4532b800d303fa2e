SPECIFICATION Spec
CONSTANTS
  Instances = {i1, i2}
  Sessions = {s1, s2}
  NoSession = NoSession
  NoInstance = NoInstance
  NoLease = NoLease
  Stale = Stale
  Requests = {t1, t2}
  Reaper = reaper
  Capacity = 2
  Concurrencies = {1, 2}
  MaxSeq = 3
  MaxPools = 1
  MaxReady = 1
  Removable = {}
  Overflows = {}
  ZeroTTL = {}
  SessionCtx = TRUE
  AcquireWait = FALSE
  Retains = FALSE
  Reacquire = FALSE
SYMMETRY Symmetry
INVARIANTS
  ActiveMatchesLeases
  InUseExact
  CapacityRespected
  SessionAffinity
  IdleBindingHasTimer
PROPERTY UnbindOnlyIdle
CHECK_DEADLOCK FALSE
