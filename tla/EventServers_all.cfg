SPECIFICATION LoopFairSpec
CONSTANTS
  Clients = {c1, c2, c3}
  Fds = {6, 7}
  EdgeTriggered = FALSE
  Drain = FALSE
  BUF_SIZE = 2
  EPOLL_SIZE = 2
  MaxBytes = 3
  Talkers = {c1}
  SndBuf = 1
INVARIANTS EventsAreCurrent NeverBlockedInRead EveryConnectionWatched
PROPERTIES EchoesInOrder Echoed DescriptorFreed SelectStepsAreEpoll
CHECK_DEADLOCK FALSE
