SPECIFICATION FairSpec
CONSTANTS
  Clients = {c1, c2, c3}
  Talkers = {c1}
  Chatty = {c1}
  Procs = {p1, p2}
  Logging = FALSE
  BUF_SIZE = 1
  BUFSIZ = 2
  MaxBytes = 2
INVARIANTS OnlyItsChild ZombiesAreOwed
PROPERTIES EchoesInOrder Accepted ClientReturns
CHECK_DEADLOCK FALSE
