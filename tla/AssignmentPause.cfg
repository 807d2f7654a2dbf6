\* One worker, one poll, one job.
CONSTANTS
  Workers = {w1}
  NoWorker = NoWorker
  Jobs = {j1}
  NoJob = NoJob
  Handlers = {}
  MaxRetries = 0
  MaxClaims = 1
  MaxCrashes = 0
  Pollers = {p1}
  MaxJobsPerWorker = 1
  BatchLimit = 1
SPECIFICATION AssignmentSpec
PROPERTY PausedWorkerGetsNoJob
CHECK_DEADLOCK FALSE
