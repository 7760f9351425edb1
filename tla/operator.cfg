CONSTANTS
  a = a
  b = b
  d = d
  Sched = {a}
  Read = {}
  Write = {a}
  Schedulable = {a}
  Malformed = {}
  Period = 1
  GrantTTL = 9
  Budgets = {1}
  MaxClaims = 2
  Worker = {w1, w2}
  NoWorker = NoWorker
  NoClaim = NoClaim
  Layer = Layer
  Legacy = {a}
  LeaseTTL = 2
  Limit = 2
  Admin = {"brake"}
  Faults = {"crash"}
  MaxNow = 3
  MaxRev = 1
  CrashUntil = 1
SPECIFICATION FairSpec
CHECK_DEADLOCK FALSE
INVARIANTS
  BudgetKept
  RecoveryLeavesNoOrphans
PROPERTIES
  ClaimsSettle
  DueIsTaken
