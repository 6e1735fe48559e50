\* One worker: deliveries of a job may repeat, but do not overlap.  Two calls
\* under one key that send other logs, and a call without a key.
SPECIFICATION FairSpec
CONSTANTS
  r1 = r1
  r2 = r2
  r3 = r3
  k1 = k1
  b1 = b1
  b2 = b2
  Requests = {r1, r2}
  NoJob = NoJob
  Keys = {k1}
  NoKey = NoKey
  KeyOf <- OneKeyed
  Bodies = {b1, b2}
  BodyOf <- SameBody
  NumItems = 2
  Workers = {w1}
  MaxRetries = 1
  MaxFaults = 1
  MaxCrashes = 1
  MaxRedeliveries = 1
PROPERTIES
  KeepsContract
  AcceptedJobsFinish
CHECK_DEADLOCK FALSE
