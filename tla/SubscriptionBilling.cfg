SPECIFICATION FairSpec
CONSTANTS
  k1 = k1
  e1 = e1
  e2 = e2
  c1 = c1
  job = job
  MaxInvoices = 2
  Clerks <- Nobody
  Captures <- Nobody
  Nameless <- Nobody
  OtherPayers <- OneChargeAndJob
  Charges <- OneCharge
  Sweep = job
  Price = 1
  Amounts <- Whole
  MaxCrashes = 1
  MaxCycles = 2
  EndAfter = 2
  MAX_FAILED = 2
INVARIANTS
  DoubleUseIsExplained
  PeriodsAreBilledOnce
PROPERTIES
  PeriodsGetBilled
CHECK_DEADLOCK FALSE
