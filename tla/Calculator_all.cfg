SPECIFICATION FairSpec
CONSTANTS
  Expressions <- MCExpressions
  IntBits = 8
  Alphabet = {43, 45, 49, 57}
  MaxLen = 4
  Long = {10, 11}
INVARIANTS ResultRight NothingLeft
PROPERTIES Answered ServerEnds
CHECK_DEADLOCK FALSE
