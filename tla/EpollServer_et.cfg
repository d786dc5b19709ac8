SPECIFICATION FairSpec
CONSTANTS
  Clients = {c1, c2}
  Fds = {6, 7}
  EdgeTriggered = TRUE
  Drain = TRUE
  BUF_SIZE = 2
  EPOLL_SIZE = 3
  MaxBytes = 3
  Talkers = {c1, c2}
  SndBuf = 2
INVARIANT Increasing
PROPERTY Answered
CHECK_DEADLOCK FALSE
