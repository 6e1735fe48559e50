\* Three ingestions into a group and one into none, and two patches.
SPECIFICATION Spec
CONSTANTS
  l1 = l1
  l2 = l2
  l3 = l3
  l4 = l4
  g1 = g1
  p1 = p1
  p2 = p2
  alice = alice
  Logs = {l1, l2, l3, l4}
  Groups = {g1}
  NoGroup = NoGroup
  GroupOf <- OneGroup
  Patches = {p1, p2}
  PatchOf <- TwoPatches
  Users = {alice}
  NoUser = NoUser
  Cleaners = {}
  Retention = 1
  BatchSize = 2
  MaxTime = 1
  MaxCrashes = 0
SYMMETRY GroupedSymmetry
INVARIANTS
  TypeOK
  CountIsOccurrences
  PatchesSurvive
PROPERTIES
  KeepsCommittedView
CHECK_DEADLOCK FALSE
