SPECIFICATION AcquisitionSpec
CONSTANTS
  None = None
  l1 = l1
  Planners = {a1}
  Acquirers = {a1}
  Configs = {g1}
  EncodedIds = {e1}
  PlanOf <- OneLeafTwice
  PlanTime = 2
  LeafTime = 1
  TranslationTime = 1
  MaxPolls = 1
  MaxResets = 1
INVARIANTS
  EvidenceIsRetained
