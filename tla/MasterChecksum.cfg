\* Two uploads of one job.
CONSTANTS
  Workers = {w1, w2}
  NoWorker = NoWorker
  Jobs = {j1}
  NoJob = NoJob
  Handlers = {h1, h2}
  MaxRetries = 1
  MaxClaims = 2
  MaxCrashes = 0
SPECIFICATION Spec
SYMMETRY Symmetric
INVARIANT ChecksumMatchesFile
CHECK_DEADLOCK FALSE
