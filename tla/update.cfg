CONSTANTS
  N = 2
  Supervisor = 2
  Native = TRUE
  Faults = {"kill", "power", "io"}
  MaxVersion = 2
  MaxTries = 2
  MaxFaults = 3
SPECIFICATION FairSpec
CHECK_DEADLOCK FALSE
INVARIANTS
  TypeOK
  WholeSetRuns
  EvidenceKept
PROPERTIES
  PendingHeals
