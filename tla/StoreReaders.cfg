\* Three logs in two groups, pages of one row, and the summary task.
SPECIFICATION ReadersFairSpec
CONSTANTS
  l1 = l1
  l2 = l2
  l3 = l3
  g1 = g1
  g2 = g2
  shop = shop
  mail = mail
  Logs = {l1, l2, l3}
  Groups = {g1, g2}
  NoGroup = NoGroup
  GroupOf <- TwoGroups
  Users = {}
  NoUser = NoUser
  MaxTime = 1
  Id <- Ids
  Queries <- SomeQueries
  PageSize = 1
  MaxPages = 3
  Values = {shop, mail}
  ValueOf <- SomeValues
  Rank <- GroupIds
  Top = 1
  Ttl = 1
  MaxFaults = 1
  MaxWrites <- FewWrites
  Decisions = {"unresolved", "resolved"}
INVARIANTS
  ReadersTypeOK
  PagingIsBounded
  PageFitsTotal
  FiguresAgree
PROPERTIES
  SummaryReturns
CHECK_DEADLOCK FALSE
