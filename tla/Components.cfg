SPECIFICATION Spec
CONSTANTS
  None = None
  m1 = m1
  s1 = s1
  Models = {m1}
  Order <- OneModel
  SourceHash <- OneSource
  Params = {"p"}
  OverrideIds = {"p", "q"}
  CatalogOverrides <- OneOverride
  AutoRefresh = {m1}
  Requests = {r1}
  Workers = {w1}
  MaxVersion = 2
  MaxEvents = 2

  RawParameters <- SomeParameters
  SubmittedTexts <- SomeTexts
  RawConditions <- SomeConditions

  Callers = {c1, c2}
  Micros = {mv, older}
  Fresh = mv
  Ids = {i1, i2}
  Queries = {q1}
  MaxClears = 1

  TargetKeys = {"k1", "k2"}
  MaxDocumentBytes = 9
  MaxDescriptionTargets = 2
  MaxNameTargets = 1
  Malformed = Malformed
  SelectionRequests <- SomeSelections
  MaxSelectors = 3
  CarrierKeys = {"ca", "cb"}
  PartIds = {"p1", "p2"}
  RootCarrier = "ca"
  MarkerTexts <- SomeMarkers
  TransformOf <- SomeTransforms
  EntryBytes <- SomeSizes

  l1 = l1
  l2 = l2
  Planners = {a1, a2}
  Acquirers = {a1}
  Configs = {g1, g2}
  EncodedIds = {e1}
  PlanOf <- OnePlan
  PlanTime = 2
  LeafTime = 1
  TranslationTime = 1
  MaxPolls = 1
  MaxResets = 1

  ByteLimit = 2
  InvalidLength = InvalidLength
  MaxChunk = 2

  Deployments = {d1, d2}
  MaxObjects = 3
  MatrixOf <- OneOfEach
  TextLengths <- SomeLengths
  MaxIdentityLength = 1
  MaxManifestBytes = 10
  ObjectBytes = 2

  Rows = {o1, o2}
  PrefixOf <- FirstPrefix
  Prefixes = 2
  Invocations = 2

  CatalogFiles <- SomeFiles
  PathSlugs = {"a", "b", "t", "default"}
  CatalogReaders = {v1}
  Wanted = {"b"}
  MaxReplacements = 2
INVARIANTS
  ComponentsTypeOK
  SchemaCacheIsSound
  
  VisibilityIsKept
  EncodingsAgree
  RejectionIsExact
  PlanIsFaithful
  AcquisitionIsBound
  AcceptedIsExact
  DocumentsFollowPlan
  ResultAnswersRecipe
  RunIsContained
  ResetIsSafe
  ReadsAreWhole
PROPERTIES
  AcquisitionEnds
  SupervisorEnds
