\* Two requests for one group and two workers.
SPECIFICATION Spec
CONSTANTS
  r1 = r1
  r2 = r2
  r3 = r3
  g1 = g1
  Requests = {r1, r2}
  NoJob = NoJob
  Groups = {g1}
  GroupOf <- SameGroup
  Workers = {w1, w2}
  MaxRetries = 1
  MaxFaults = 1
  MaxCrashes = 1
  MaxRedeliveries = 1
SYMMETRY BothSymmetry
INVARIANTS
  TypeOK
  OneActiveJobPerGroup
  ActiveJobsAreCarried
PROPERTY CompletedIsFinal
CHECK_DEADLOCK FALSE
