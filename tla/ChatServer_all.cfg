SPECIFICATION Spec
CONSTANTS
  Clients = {c1, c2}
  Talkers = {c1, c2}
  Chatty = {}
  Leavers = {c1, c2}
  Fds = {4, 5}
  MAX_CLNT = 3
  MaxThreads = 2
  MaxMsgs = 1
  Window = 1
INVARIANT SentToAll
CHECK_DEADLOCK FALSE
