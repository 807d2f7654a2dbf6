\* Two updates at a time, two lives of the master, two jobs at a time.
CONSTANTS
  short = short
  long = long
  bad = bad
  Settings = {short, long}
  Invalid = bad
  Default = short
  None = None
  Length <- MCLength
  Admins = {a1, a2}
  Pollers = {p1, p2}
  MaxRetries = 2
  MaxWaits = 1
  MaxVersion = 3
  MaxLives = 2
SPECIFICATION Spec
SYMMETRY Interchangeable
INVARIANT TypeOK
INVARIANT SingleFlight
INVARIANT AloneIsAtomic
INVARIANT FallbackOnlyWithoutMaster
PROPERTY NeverOlder
CHECK_DEADLOCK FALSE
