\* One worker polling for up to two jobs at a time, one job claimed twice, one
\* restart.  No symmetry: TLC's liveness check does not allow it.
CONSTANTS
  Workers = {w1}
  NoWorker = NoWorker
  Jobs = {j1}
  NoJob = NoJob
  Handlers = {}
  MaxRetries = 0
  MaxClaims = 2
  MaxCrashes = 1
  Pollers = {p1}
  MaxJobsPerWorker = 1
  BatchLimit = 2
SPECIFICATION FairAssignment
INVARIANT AssignmentTypeOK
PROPERTY OnlySilenceUnpauses
PROPERTY ImplementsMasterServer
PROPERTY SilentWorkerFreed
PROPERTY ReturningWorkerOnline
CHECK_DEADLOCK FALSE
