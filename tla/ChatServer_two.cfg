SPECIFICATION FairSpec
CONSTANTS
  Clients = {c1, c2}
  Talkers = {c1, c2}
  Chatty = {c1}
  Leavers = {c1, c2}
  Fds = {4, 5}
  MAX_CLNT = 3
  MaxThreads = 2
  MaxMsgs = 2
  Window = 1
INVARIANTS MutexInv SenderOrder
PROPERTIES OneOrder MutexReleased
CHECK_DEADLOCK FALSE
