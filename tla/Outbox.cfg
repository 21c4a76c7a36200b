SPECIFICATION Spec
CONSTANTS
  w1 = w1
  w2 = w2
  p1 = p1
  Events <- TwoEvents
  Endpoints <- OneEndpoint
  Workers <- TwoWorkers
  BATCH = 2
  MAX_ATTEMPTS = 2
  MaxStalls = 1
  Faults <- EveryFault
INVARIANTS
  TypeOK
  StampedMeansEnqueued
  QuarantineIsEarned
PROPERTIES
  OncePerEndpoint
SYMMETRY WorkerSymmetry
CHECK_DEADLOCK FALSE
