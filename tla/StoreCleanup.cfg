\* Two cleanup executions over three logs, in batches of two.
SPECIFICATION Spec
CONSTANTS
  l1 = l1
  l2 = l2
  l3 = l3
  l4 = l4
  g1 = g1
  p1 = p1
  p2 = p2
  alice = alice
  Logs = {l1, l2, l3}
  Groups = {g1}
  NoGroup = NoGroup
  GroupOf <- OneGroup
  Patches = {}
  PatchOf <- NoPatches
  Users = {alice}
  NoUser = NoUser
  Cleaners = {c1, c2}
  Retention = 1
  BatchSize = 2
  MaxTime = 2
  MaxCrashes = 1
SYMMETRY StoreSymmetry
INVARIANTS
  CleanupIsComplete
  CleanupSparesRecent
  ReportIsBounded
