SPECIFICATION FairSpec
CONSTANTS
  Clients = {c1, c2, c3}
  Crowd = {c1, c2}
  Threads = {t1, t2}
  Fds = {4, 5, 6, 7}
  Files = {index, about}
INVARIANTS RightFileAlone OneLeakPerRequest
PROPERTIES Answered ThreadsEnd
CHECK_DEADLOCK FALSE
