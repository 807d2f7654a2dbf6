\* One job claimed twice, one request, the master may die once.  No symmetry:
\* TLC's liveness check does not allow it.
CONSTANTS
  Workers = {w1}
  NoWorker = NoWorker
  Jobs = {j1}
  NoJob = NoJob
  Handlers = {h1}
  MaxRetries = 1
  MaxClaims = 2
  MaxCrashes = 1
SPECIFICATION FairSpec
PROPERTY EveryClaimEnds
PROPERTY FailedJobRetried
PROPERTY OldListsSpareNewAttempts
PROPERTY ImplementsLifecycle
CHECK_DEADLOCK FALSE
