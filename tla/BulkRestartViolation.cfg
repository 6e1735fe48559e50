\* One job of two items whose worker is lost once.
SPECIFICATION Spec
CONSTANTS
  r1 = r1
  r2 = r2
  r3 = r3
  k1 = k1
  b1 = b1
  b2 = b2
  Requests = {r1}
  NoJob = NoJob
  Keys = {k1}
  NoKey = NoKey
  KeyOf <- Unkeyed
  Bodies = {b1, b2}
  BodyOf <- SameBody
  NumItems = 2
  Workers = {w1}
  MaxRetries = 1
  MaxFaults = 0
  MaxCrashes = 1
  MaxRedeliveries = 0
INVARIANT ItemsStoredOnce
CHECK_DEADLOCK FALSE
