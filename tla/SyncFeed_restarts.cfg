SPECIFICATION Spec
CONSTANTS
  r1 = r1
  c1 = c1
  w1 = w1
  w2 = w2
  Rows <- OneRow
  Clients <- OneClient
  Writers <- TwoWriters
  Other = other
  Foreign = foreign
  WindowLimit = 2
  FirstSeq = 2
  MaxSeq = 4
  Aged <- NothingAged
INVARIANTS
  TypeOK
  OnlyRacesLoseEvents
  SnapshotsAreFaithful
  CopiesRespectVisibility
CONSTRAINT OnePing
SYMMETRY WriterSymmetry
CHECK_DEADLOCK FALSE
