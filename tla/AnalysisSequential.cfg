\* One worker: deliveries of a job may repeat, but do not overlap.
SPECIFICATION FairSpec
CONSTANTS
  r1 = r1
  r2 = r2
  r3 = r3
  g1 = g1
  Requests = {r1, r2}
  NoJob = NoJob
  Groups = {g1}
  GroupOf <- SameGroup
  Workers = {w1}
  MaxRetries = 1
  MaxFaults = 1
  MaxCrashes = 1
  MaxRedeliveries = 1
INVARIANTS
  LatestAnalysisMatchesJob
PROPERTY AcceptedJobsFinish
CHECK_DEADLOCK FALSE
