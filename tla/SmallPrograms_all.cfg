SPECIFICATION FairSpec
CONSTANTS
  Chars = {a, b}
  BUF_SIZE = 3
  Rounds = 3
  MaxLines = 2
  MaxText = 4
  FileBuf = 2
  Unit = 3
  MaxMsgs = 2
  MaxFaults = 2
  NUM_THREAD = 3
  Iter = 2
  Reads = 3
  Values = {1, 2}
INVARIANTS Conserved OutlivesPatientClients BothHeard UrgentHeard AnswersBelong ThreadResults PipesTalk ChildrenReaped
PROPERTY AllEnd
CHECK_DEADLOCK FALSE
