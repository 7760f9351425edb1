CONSTANTS
  a = a
  b = b
  d = d
  Sched = {a, b, d}
  Read = {b}
  Write = {a, d}
  Schedulable = {a, b, d}
  Malformed = {d}
  Period = 1
  GrantTTL = 9
  Budgets = {0}
  MaxClaims = 1
  Worker = {w1, w2}
  NoWorker = NoWorker
  NoClaim = NoClaim
  Layer = Layer
  Legacy = {a, b, d}
  LeaseTTL = 2
  Limit = 1
  Admin = {"jobs"}
  Faults = {"crash", "store_error"}
  MaxNow = 3
  MaxRev = 2
  CrashUntil = 2
SYMMETRY WorkerSymmetry
SPECIFICATION Spec
CHECK_DEADLOCK FALSE
INVARIANTS
  RefundedNeverRan
PROPERTIES
  LivingOwnerKeepsClaims
  ImplementsLedger
