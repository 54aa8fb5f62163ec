SPECIFICATION Spec
CONSTANTS
  request = request
  Workers = {w1}
  Commands = {}
  Operators = {o1}
  MaxAttempts = 2
  JobLease = 1
  DbStall = 0
  BackoffBase = 0
  BackoffCap = 0
  Horizon = 0
  MaxEpochs = 1
  MaxCrashes = 0
  MaxOverruns = 0
  Tids = {t1, t2}
  Payloads = {p1}
  Fits = {p1}
  NFiles = 1
  None = None
INVARIANTS
  SupersededCanBeQueued
