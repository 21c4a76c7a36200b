SPECIFICATION FairSpec
CONSTANTS
  r1 = r1
  c1 = c1
  w1 = w1
  w2 = w2
  Other = other
  Foreign = foreign
  Rows <- OneRow
  Clients <- OneClient
  Writers <- OneWriter
  WindowLimit = 1
  FirstSeq = 1
  MaxSeq = 3
  Aged <- FirstTwoAged
PROPERTIES
  CursorsCatchUp
CONSTRAINT PollsOnly
CHECK_DEADLOCK FALSE
