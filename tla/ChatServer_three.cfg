SPECIFICATION FairSpec
CONSTANTS
  Clients = {c1, c2, c3}
  Talkers = {c1}
  Chatty = {}
  Leavers = {c2, c3}
  Fds = {4, 5}
  MAX_CLNT = 3
  MaxThreads = 3
  MaxMsgs = 1
  Window = 1
INVARIANTS CountMatchesThreads EachOnceWhileNoneLeft
PROPERTY LeaverClosed
CHECK_DEADLOCK FALSE
