CONSTANTS
  Tool = {note}
  Read = {}
  Layer = Layer
  Card = {k1}
  NoCard = NoCard
  Caller = {c1, c2}
  Admin = {a1, a2}
  EnvEnabled = TRUE
  Faults = {"disk"}
  MaxCalls = 3
  MaxSaves = 2
  MaxRestarts = 1
SYMMETRY GateSymmetry
SPECIFICATION Spec
CHECK_DEADLOCK FALSE
INVARIANTS
  TypeOK
  CardsEndOnce
  BrakeHolds
