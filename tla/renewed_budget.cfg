CONSTANTS
  a = a
  b = b
  d = d
  Sched = {a}
  Read = {}
  Write = {a}
  Schedulable = {a}
  Malformed = {}
  Period = 1
  GrantTTL = 9
  Budgets = {1}
  MaxClaims = 3
  Worker = {w1, w2}
  NoWorker = NoWorker
  NoClaim = NoClaim
  Layer = Layer
  Legacy = {a}
  LeaseTTL = 2
  Limit = 2
  Admin = {"renew","stop"}
  Faults = {"store_error"}
  MaxNow = 3
  MaxRev = 1
  CrashUntil = 4
SYMMETRY WorkerSymmetry
SPECIFICATION Spec
CHECK_DEADLOCK FALSE
INVARIANT MaxRunsHold
