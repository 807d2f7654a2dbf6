\* One job between two workers, two requests and both monitors.
CONSTANTS
  Workers = {w1, w2}
  NoWorker = NoWorker
  Jobs = {j1}
  NoJob = NoJob
  Handlers = {h1, h2}
  MaxRetries = 1
  MaxClaims = 2
  MaxCrashes = 0
SPECIFICATION Spec
SYMMETRY Symmetric
INVARIANT TypeOK
INVARIANT RowNamesItsClaim
INVARIANT RetryCountedOnce
INVARIANT OutputProvenance
PROPERTY NoAutomaticRevival
PROPERTY ReportFromHolder
PROPERTY AutomaticRetriesBounded
CHECK_DEADLOCK FALSE
