SPECIFICATION StoreFairSpec
CONSTANTS
  Clients = {c1}
  Talkers = {c1}
  Chatty = {c1}
  Procs = {p0, p1}
  Logger = p0
  Logging = TRUE
  BUF_SIZE = 1
  BUFSIZ = 1
  MaxBytes = 4
  LogReads = 1
  LogSize = 1
  PipeSize = 1
PROPERTY Answered
CHECK_DEADLOCK FALSE
