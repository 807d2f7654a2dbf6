\* One file of its own and one in a directory, with the same content.
CONSTANTS
  Files = {f1, f2}
  InDir = {f2}
  film = film
  Contents = {film}
  Content <- MCContent
  Callbacks = {k1}
  Capacity = 1
  MaxFails = 1
  MaxUnread <- MCUnread
SPECIFICATION FairSpec
INVARIANT TypeOK
INVARIANT NoSendAfterClose
INVARIANT NoDuplicates
PROPERTY CloseEnds
PROPERTY EveryFileGetsJob
CHECK_DEADLOCK FALSE
