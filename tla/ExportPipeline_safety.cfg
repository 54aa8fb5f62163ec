SPECIFICATION MCSpec
CONSTANTS
  Executors = {w1, c1}
  Workers = {w1}
  o1 = o1
  Operators = {o1, o2}
  Tids = {t1, t2}
  Payloads = {p1, p2}
  Fits = {p1, p2}
  NFiles = 2
  None = None
SYMMETRY IdSymmetry
INVARIANTS
  ReadyIsComplete
  RetriesReuseTranslation
  RetriesKeepArtifact
PROPERTIES
  LinksAreFinal
  SupersededIsRestaged
