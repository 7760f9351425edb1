CONSTANTS
  N = 2
  Supervisor = 2
  Native = TRUE
  Faults = {"kill"}
  MaxVersion = 2
  MaxTries = 1
  MaxFaults = 1
SPECIFICATION Spec
CHECK_DEADLOCK FALSE
INVARIANTS
  RecoverHeals
