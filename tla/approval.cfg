CONSTANTS
  Nonce = {n1, n2}
  Id = {s, u}
  NoId = NoId
  Terms = {t1, t2}
  Request = {r1, r2}
  TTL = 1
  Skew = 1
  Retention = 4
  MaxOffset = 1
  Stall = 1
  Faults = {"crash", "store_error"}
  MaxNow = 4
  MaxRequests = 3
  MaxRevision = 1
SYMMETRY Interchangeable
SPECIFICATION Spec
CHECK_DEADLOCK FALSE
INVARIANTS
  TypeOK
  ApprovalWritesOnce
  GrantIsApproved
  ApprovalIsFresh
