SPECIFICATION Spec
CONSTANTS
  r1 = r1
  r2 = r2
  v1 = v1
  v2 = v2
  NoRequest = NoRequest
  Requests <- TwoRequests
  Ranges <- SomeRanges
  LastDay = 3
  Horizon = 2
  Quota = 5
  Paid = TRUE
  Reviewers <- TwoReviewers
INVARIANTS
  BalanceMatchesRequests
  NeverOverbooked
  LeaveRowsHaveLeave

  
CONSTRAINT NotYetOvertaken
SYMMETRY Symmetry
CHECK_DEADLOCK FALSE
