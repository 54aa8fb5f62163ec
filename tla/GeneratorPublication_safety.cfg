SPECIFICATION Spec
CONSTANTS
  Publishers = {p1, p2}
  Recipes = {r1, r2}
  Outputs = {b1, b2}
  Corrupt = Corrupt
  None = None
  MaxRuns = 4
  MaxDamages = 1
SYMMETRY Symmetry
INVARIANTS
  ReadyIsExact
PROPERTIES
  EvidenceIsFinal
  WithdrawsObserved
  ImplementsRegister
CHECK_DEADLOCK FALSE
