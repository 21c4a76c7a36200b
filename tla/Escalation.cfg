SPECIFICATION FairSpec
CONSTANTS
  p0 = p0
  p1 = p1
  p2 = p2
  p3 = p3
  i1 = i1
  s1 = s1
  s2 = s2
  Nobody = nobody
  People <- Staff
  Applicant = p0
  Hr <- OneHr
  Lines <- Chain
  Items <- OneItem
  Sweeps <- TwoSweeps
  MaxChanges = 2
  MaxDeaths = 1
INVARIANTS
  LevelsAreReachedOnce
  ToldReviewersMayAct
PROPERTIES
  HeldItemsMoveOn
CHECK_DEADLOCK FALSE
