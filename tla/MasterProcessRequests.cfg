\* One request at the time of the signal.
CONSTANTS
  Loops = {health}
  Health = health
  Requests = {r1}
  Streams = {s1}
  QueueSize = 1
  Deliverers = 1
SPECIFICATION Spec
INVARIANT RequestsFinish
CHECK_DEADLOCK FALSE
