SPECIFICATION StoreFairSpec
CONSTANTS
  Clients = {c1, c2}
  Talkers = {c1, c2}
  Chatty = {c1}
  Procs = {p0, p1, p2}
  Logger = p0
  Logging = TRUE
  BUF_SIZE = 1
  BUFSIZ = 1
  MaxBytes = 2
  LogReads = 2
  LogSize = 2
  PipeSize = 1
INVARIANT StoredInOrder
PROPERTY AnsweredWhileLogging
CHECK_DEADLOCK FALSE
