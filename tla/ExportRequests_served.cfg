SPECIFICATION FairSpec
CONSTANTS
  request = request
  Workers = {w1}
  Commands = {c1}
  Operators = {o1}
  MaxAttempts = 2
  JobLease = 1
  DbStall = 0
  BackoffBase = 0
  BackoffCap = 0
  Horizon = 0
  MaxEpochs = 1
  MaxCrashes = 1
  MaxOverruns = 0
  Tids = {t1}
  Payloads = {p1, p2}
  Fits = {p1}
  NFiles = 1
  None = None
INVARIANTS
  ReadyJobIsServed
PROPERTIES
  QueuedIsAnswered
