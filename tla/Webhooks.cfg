SPECIFICATION FairSpec
CONSTANTS
  d1 = d1
  w1 = w1
  w2 = w2
  r1 = r1
  Deliveries <- OneDelivery
  Workers <- TwoWorkers
  Requests <- OneRequest
  Attempts = 2
  DISABLE_AFTER = 2
  MaxStalls = 1
  Faults <- EveryFault
INVARIANTS
  TypeOK
  SuccessMeansReceived
  LimitSwitchesOff
PROPERTIES
  DeliveriesSettle
CHECK_DEADLOCK FALSE
