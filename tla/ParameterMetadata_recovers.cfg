SPECIFICATION MetadataFairSpec
CONSTANTS
  m1 = m1
  m2 = m2
  s1 = s1
  s2 = s2
  None = None
  Models = {m1, m2}
  Order <- BothInOrder
  SourceHash <- TwoSources
  Params = {p}
  OverrideIds = {p, q}
  CatalogOverrides <- OneOverride
  AutoRefresh = {m1, m2}
  Requests = {}
  Workers = {w1}
  MaxVersion = 2
  MaxEvents = 1

PROPERTIES
  RefreshedModelsRecover
