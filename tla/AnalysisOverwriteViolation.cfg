\* Two jobs of one group, and a worker that is lost once.
SPECIFICATION Spec
CONSTANTS
  r1 = r1
  r2 = r2
  r3 = r3
  g1 = g1
  Requests = {r1, r2}
  NoJob = NoJob
  Groups = {g1}
  GroupOf <- SameGroup
  Workers = {w1, w2}
  MaxRetries = 1
  MaxFaults = 0
  MaxCrashes = 1
  MaxRedeliveries = 0
INVARIANT AnalysisOutputPersists
CHECK_DEADLOCK FALSE
