SPECIFICATION PaymentsSpec
CONSTANTS
  k1 = k1
  e1 = e1
  e2 = e2
  c1 = c1
  job = job
  MaxInvoices = 2
  Clerks <- OneClerk
  Captures <- TwoCaptures
  Nameless <- OneCapture
  OtherPayers <- JustJob
  Charges <- Nobody
  Sweep = job
  Price = 2
  Amounts <- Half
  MaxCrashes = 1
  MaxCycles = 1
  EndAfter = 1
  MAX_FAILED = 1
INVARIANTS
  MoneyIsConserved
  CapturesAreRecordedOnce
CONSTRAINT FewPayments
CHECK_DEADLOCK FALSE
