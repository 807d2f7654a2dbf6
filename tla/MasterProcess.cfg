\* The health monitor, one request, one progress stream.
CONSTANTS
  Loops = {health}
  Health = health
  Requests = {r1}
  Streams = {s1}
  QueueSize = 1
  Deliverers = 1
SPECIFICATION FairSpec
INVARIANT TypeOK
INVARIANT NoSendOnClosedQueue
INVARIANT LoopsEndFirst
INVARIANT AcceptedIsTried
PROPERTY ShutdownEnds
PROPERTY StreamEnds
CHECK_DEADLOCK FALSE
