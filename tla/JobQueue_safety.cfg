SPECIFICATION MCSpec
CONSTANTS
  project = project
  params = params
  export = export
  legacy = legacy
  Keys = {project, export, legacy}
  Kind <- MCKind
  V2Keys <- MCV2Keys
  Workers = {w1, w2}
  MaxAttempts = 2
  JobLease = 2
  ProjectLease = 4
  ProjectTimeout = 2
  DbStall = 1
  BackoffBase = 1
  BackoffCap = 1
  None = None
  Horizon = 1
  MaxEpochs = 2
  MaxCrashes = 1
  MaxOverruns = 1
INVARIANTS
  ClaimsAreDistinct
  AttemptsPaidByLapses
  ProjectLeaseOutlivesWorker
  ProjectExclusive
PROPERTIES
  ProjectWritesOwnEpoch
  SettledRowsStay
  JobsSettle
