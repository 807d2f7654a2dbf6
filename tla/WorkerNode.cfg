\* Two pollers and two attempts of one job: apart, overlapping, or one after
\* the death of the process.  No symmetry: liveness is checked.
CONSTANTS
  Pollers = {p1, p2}
  Jobs = {j1}
  NoJob = NoJob
  Blocks = 2
  MaxTries = 2
  MaxAttempts = 2
  MaxVersions = 2
  MaxKills = 1
SPECIFICATION FairSpec
INVARIANT TypeOK
INVARIANT SlotsAccounted
INVARIANT ConvertsWholeSource
INVARIANT UploadsWholeOutput
INVARIANT DirectoriesOwned
PROPERTY ShutdownDrains
CHECK_DEADLOCK FALSE
