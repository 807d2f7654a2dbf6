\* One update, one job, with and without an API key.
CONSTANTS
  short = short
  long = long
  bad = bad
  Settings = {short, long}
  Invalid = bad
  Default = short
  None = None
  Length <- MCLength
  Admins = {a1}
  Pollers = {p1}
  MaxRetries = 3
  MaxWaits = 1
  MaxVersion = 2
  MaxLives = 1
SPECIFICATION Spec
SYMMETRY Interchangeable
INVARIANT PulledFromMaster
CHECK_DEADLOCK FALSE
