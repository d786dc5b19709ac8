SPECIFICATION Spec
CONSTANTS
  Clients = {c1, c2}
  Threads = {t1, t2}
  Fds = {4, 5, 6, 7, 8, 9}
  Files = {index, about}
  Crowd = {c1, c2}
INVARIANT RightFile
CHECK_DEADLOCK FALSE
