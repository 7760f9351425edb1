CONSTANTS
  a = a
  b = b
  d = d
  Sched = {a}
  Read = {}
  Write = {a}
  Schedulable = {a}
  Malformed = {}
  Period = 1
  GrantTTL = 9
  Budgets = {1}
  MaxClaims = 2
  Worker = {w1, w2}
  NoWorker = NoWorker
  NoClaim = NoClaim
  Layer = Layer
  Legacy = {}
  LeaseTTL = 2
  Limit = 2
  Admin = {"create", "pause", "resume", "renew", "delete", "stop"}
  Faults = {"crash", "stop_timeout", "audit_error", "late_error"}
  MaxNow = 3
  MaxRev = 2
  CrashUntil = 1
SYMMETRY WorkerSymmetry
SPECIFICATION Spec
CHECK_DEADLOCK FALSE
INVARIANTS
  TypeOK
  OneOwnerAtWork
  UnknownNeedsHuman
  SlotsAccounted
  NothingSkippedSilently
  OncePerOccurrence
PROPERTIES
  TerminalJobsStay
