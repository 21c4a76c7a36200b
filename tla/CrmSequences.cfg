SPECIFICATION FairSpec
CONSTANTS
  e1 = e1
  e2 = e2
  w1 = w1
  w2 = w2
  Enrollments <- TwoEnrollments
  Workers <- TwoWorkers
  Steps = 2
  MaxFaults = 1
INVARIANTS
  StepsGoOutInOrder
  RepeatsAreExplained
  MailStops
PROPERTIES
  EnrollmentsEnd
CHECK_DEADLOCK FALSE
