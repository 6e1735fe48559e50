\* Three calls under one key, one with other logs, and two workers.
SPECIFICATION Spec
CONSTANTS
  r1 = r1
  r2 = r2
  r3 = r3
  k1 = k1
  b1 = b1
  b2 = b2
  Requests = {r1, r2, r3}
  NoJob = NoJob
  Keys = {k1}
  NoKey = NoKey
  KeyOf <- SharedKey
  Bodies = {b1, b2}
  BodyOf <- MixedBody
  NumItems = 2
  Workers = {w1, w2}
  MaxRetries = 1
  MaxFaults = 1
  MaxCrashes = 1
  MaxRedeliveries = 0
SYMMETRY WorkerSymmetry
INVARIANTS
  TypeOK
  IdempotentAcceptance
  CompletedMeansStored
  StoredOncePerDelivery
  UnfinishedJobsAreCarried
PROPERTY SettledIsFinal
CHECK_DEADLOCK FALSE
