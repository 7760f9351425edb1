CONSTANTS
  Faults = {"lost", "disk", "halt"}
  MaxFaults = 2
  MaxDrift = 2
  MaxTrouble = 3
  MaxOverlap = 1
SPECIFICATION Spec
CHECK_DEADLOCK FALSE
INVARIANTS
  TypeOK
  EachWriteOnce
  OneCompletionUnlessOverlapped
  ReceiptsExact
  NeverStranded
  WritesInOrder
