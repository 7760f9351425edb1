CONSTANTS
  Faults = {}
  MaxFaults = 0
  MaxDrift = 0
  MaxTrouble = 1
  MaxOverlap = 1
SPECIFICATION Spec
CHECK_DEADLOCK FALSE
INVARIANTS
  OneCompletion
