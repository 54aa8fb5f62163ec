SPECIFICATION Spec
CONSTANTS
  Requests = {q1, q2}
  Recipes = {r1}
  Bytes = {b1, b2}
  Corrupt = Corrupt
  None = None
  MaxClaims = 3
  MaxDamages = 1
  MaxSpoils = 1
SYMMETRY Symmetry
INVARIANTS
  BoundIsDurable
  PublishedWasAccepted
  PendingWasPublished
PROPERTIES
  BindingIsFinal
  OwnRepairIsAccepted
CHECK_DEADLOCK FALSE
